------------------------ MODULE InternshipWorkspace -------------------------
(***************************************************************************)
(* What the internship pipeline does to its workspaces.  They are kept     *)
(* from one build to the next: the first build clones, each later one      *)
(* cherry-picks the change it is about, and the cleanup takes the last     *)
(* commit away and pulls.  Builds of the job may run at the same time,     *)
(* each in a workspace of its own.  git, the server and the tools are      *)
(* external: a pick may conflict, the server may be out of reach, and a    *)
(* build may be aborted, or die with its node before its cleanup.          *)
(***************************************************************************)
EXTENDS Integers, FiniteSets, SequencesExt

CONSTANTS
  Changes,           \* the changes under review
  Workspaces,        \* one for each node, and for each build beside another
  History,           \* the commits of the branch when the job is set up
  MaxBuilds,         \* bound: the builds of the job
  MaxDeaths          \* bound: the builds that die

Commits == Changes \cup Range(History)

ASSUME WorkspaceAssumption ==
  /\ IsFiniteSet(Changes)
  /\ History \in Seq(Commits) /\ Len(History) > 0
  /\ MaxBuilds \in Nat /\ MaxDeaths \in Nat

VARIABLES
  upstream,          \* the commits of the branch at the server
  ws,                \* each workspace as git has it
  build,             \* the build that is at work in each workspace
  number,            \* the builds started so far
  verified,          \* the changes whose last vote is +1
  deaths,            \* the builds that have died
  pulled,            \* history: the length of the branch when it was last pulled
  lost               \* history: commits of the branch taken away since then

workspaceVars == <<upstream, ws, build, number, verified, deaths, pulled, lost>>

Idle == [at |-> "idle", number |-> 0, change |-> "none", tries |-> 0,
         picked |-> FALSE, ok |-> FALSE]

\* conflict: unmerged files; rebasing: a rebase has stopped halfway.
Empty == [repo |-> FALSE, log |-> <<>>, conflict |-> FALSE, rebasing |-> FALSE]

WorkspaceInit ==
  /\ upstream = History
  /\ ws = [w \in Workspaces |-> Empty]
  /\ build = [w \in Workspaces |-> Idle]
  /\ number = 0 /\ verified = {} /\ deaths = 0
  /\ pulled = [w \in Workspaces |-> 0]
  /\ lost = [w \in Workspaces |-> 0]

At(w, place) == build[w].at = place

Goes(w, place) == build' = [build EXCEPT ![w].at = place]

\* The commits of a workspace the branch does not have: where they are, and
\* what they are, in order.
LocalAt(log) == {n \in DOMAIN log : ~Contains(upstream, log[n])}

Local(log) ==
  LET at == CHOOSE f \in [1..Cardinality(LocalAt(log)) -> LocalAt(log)] :
              \A m, n \in DOMAIN f : m < n => f[m] < f[n]
  IN  [n \in DOMAIN at |-> log[at[n]]]

-----------------------------------------------------------------------------
\* "agent any": a patch set is built wherever there is room.
StartBuild(w, c) ==
  /\ At(w, "idle") /\ number < MaxBuilds
  /\ number' = number + 1
  /\ build' = [build EXCEPT ![w] = [Idle EXCEPT !.at = "prepare", !.number = number + 1,
                                                !.change = c, !.tries = 1]]
  /\ UNCHANGED <<upstream, ws, verified, deaths, pulled, lost>>

\* git clone, by build number 1 only; its directory is empty.
Clone(w) ==
  /\ At(w, "prepare") /\ build[w].number = 1
  /\ ws' = [ws EXCEPT ![w] = [Empty EXCEPT !.repo = TRUE, !.log = upstream]]
  /\ pulled' = [pulled EXCEPT ![w] = Len(upstream)]
  /\ Goes(w, "check")
  /\ UNCHANGED <<upstream, number, verified, deaths, lost>>

\* git fetch and git cherry-pick FETCH_HEAD.  A change the workspace has
\* already would be an empty commit, which git refuses.
CherryPick(w) ==
  LET c == build[w].change IN
  /\ At(w, "prepare") /\ build[w].number > 1
  /\ ws[w].repo /\ ~ws[w].conflict /\ ~Contains(ws[w].log, c)
  /\ ws' = [ws EXCEPT ![w].log = Append(@, c)]
  /\ build' = [build EXCEPT ![w].at = "check", ![w].picked = TRUE]
  /\ UNCHANGED <<upstream, number, verified, deaths, pulled, lost>>

\* An attempt fails, with or without a conflict: retry(3), then the failure.
PrepareFails(w) ==
  /\ At(w, "prepare")
  /\ \/ UNCHANGED ws
     \/ /\ build[w].number > 1 /\ ws[w].repo
        /\ ws' = [ws EXCEPT ![w].conflict = TRUE]
  /\ build' = IF build[w].tries < 3 THEN [build EXCEPT ![w].tries = @ + 1]
                                    ELSE [build EXCEPT ![w].at = "post"]
  /\ UNCHANGED <<upstream, number, verified, deaths, pulled, lost>>

\* Compile, whose errors are caught, and lint, whose are not.
Check(w, lint) ==
  /\ At(w, "check")
  /\ build' = [build EXCEPT ![w].at = "post", ![w].ok = lint]
  /\ UNCHANGED <<upstream, ws, number, verified, deaths, pulled, lost>>

\* An aborted build votes neither way, but it is cleaned up.
Abort(w) ==
  /\ build[w].at \in {"prepare", "check"}
  /\ Goes(w, "reset")
  /\ UNCHANGED <<upstream, ws, number, verified, deaths, pulled, lost>>

\* success and failure vote.
Vote(w) ==
  /\ At(w, "post")
  /\ verified' = IF build[w].ok THEN verified \cup {build[w].change}
                                ELSE verified \ {build[w].change}
  /\ Goes(w, "reset")
  /\ UNCHANGED <<upstream, ws, number, deaths, pulled, lost>>

-----------------------------------------------------------------------------
(* The cleanup; what fails ends it.                                        *)

\* Variant: two commits are taken away, HEAD^^.
Reset_Two(w) ==
  /\ At(w, "reset")
  /\ IF ~ws[w].repo \/ Len(ws[w].log) <= 2
     THEN build' = [build EXCEPT ![w] = Idle] /\ UNCHANGED <<ws, lost>>
     ELSE /\ ws' = [ws EXCEPT ![w].log = Front(Front(@)), ![w].conflict = FALSE]
          /\ lost' = IF build[w].picked THEN lost ELSE [lost EXCEPT ![w] = @ + 1]
          /\ Goes(w, "pull")
  /\ UNCHANGED <<upstream, number, verified, deaths, pulled>>

\* Variant: the commit is not taken away when the build was successful.
Reset_OnFailure(w) ==
  /\ At(w, "reset")
  /\ IF build[w].ok THEN Goes(w, "pull") /\ UNCHANGED <<ws, lost>>
     ELSE IF ~ws[w].repo \/ Len(ws[w].log) = 1
     THEN build' = [build EXCEPT ![w] = Idle] /\ UNCHANGED <<ws, lost>>
     ELSE /\ ws' = [ws EXCEPT ![w].log = Front(@), ![w].conflict = FALSE]
          /\ lost' = IF build[w].picked THEN lost ELSE [lost EXCEPT ![w] = @ + 1]
          /\ Goes(w, "pull")
  /\ UNCHANGED <<upstream, number, verified, deaths, pulled>>

\* git reset --hard HEAD^: the change that was picked, or, if none was, a
\* commit of the branch.
Reset(w) ==
  /\ At(w, "reset")
  /\ IF ~ws[w].repo \/ Len(ws[w].log) = 1
     THEN build' = [build EXCEPT ![w] = Idle] /\ UNCHANGED <<ws, lost>>
     ELSE /\ ws' = [ws EXCEPT ![w].log = Front(@), ![w].conflict = FALSE]
          /\ lost' = IF build[w].picked THEN lost ELSE [lost EXCEPT ![w] = @ + 1]
          /\ Goes(w, "pull")
  /\ UNCHANGED <<upstream, number, verified, deaths, pulled>>

\* git pull --rebase puts what is local on top of the branch.  It may stop at
\* a conflict, and is refused while one has stopped.
Pull(w) ==
  LET local == Local(ws[w].log) IN
  /\ At(w, "pull") /\ ~ws[w].rebasing
  /\ \/ ws' = [ws EXCEPT ![w].log = upstream \o local]
     \/ \E done \in 0..Len(local) - 1 :
          ws' = [ws EXCEPT ![w].log = upstream \o SubSeq(local, 1, done),
                           ![w].conflict = TRUE, ![w].rebasing = TRUE]
  /\ pulled' = [pulled EXCEPT ![w] = Len(upstream)]
  /\ lost' = [lost EXCEPT ![w] = 0]
  /\ build' = [build EXCEPT ![w] = Idle]
  /\ UNCHANGED <<upstream, number, verified, deaths>>

PullFails(w) ==
  /\ At(w, "pull")
  /\ build' = [build EXCEPT ![w] = Idle]
  /\ UNCHANGED <<upstream, ws, number, verified, deaths, pulled, lost>>

-----------------------------------------------------------------------------
\* The node of a build goes down: neither post section nor cleanup is run.
Die(w) ==
  /\ ~At(w, "idle") /\ deaths < MaxDeaths
  /\ deaths' = deaths + 1
  /\ build' = [build EXCEPT ![w] = Idle]
  /\ UNCHANGED <<upstream, ws, number, verified, pulled, lost>>

\* A reviewer submits a change that is verified.
Submit(c) ==
  /\ c \in verified /\ ~Contains(upstream, c)
  /\ upstream' = Append(upstream, c)
  /\ UNCHANGED <<ws, build, number, verified, deaths, pulled, lost>>

WorkspaceNext ==
  \/ \E w \in Workspaces, c \in Changes : StartBuild(w, c)
  \/ \E w \in Workspaces :
       \/ Clone(w) \/ CherryPick(w) \/ PrepareFails(w) \/ Abort(w)
       \/ \E lint \in BOOLEAN : Check(w, lint)
       \/ Vote(w) \/ Reset(w) \/ Pull(w) \/ PullFails(w) \/ Die(w)
  \/ \E c \in Changes : Submit(c)

WorkspaceSpec == WorkspaceInit /\ [][WorkspaceNext]_workspaceVars
-----------------------------------------------------------------------------
\* What a build has checked, other than the first, which checks the branch.
Checked(w) == build[w].at = "post" /\ build[w].ok /\ build[w].number > 1

\* A change is verified by itself: what is checked is the change on commits of
\* the branch, whatever builds have failed, conflicted or been aborted before
\* and are under way elsewhere.  Only a build that died before its cleanup
\* leaves a change behind for others, and at most its own.
CheckedAlone ==
  \A w \in Workspaces : Checked(w) =>
    LET log == ws[w].log IN
    /\ Last(log) = build[w].change
    /\ Cardinality(LocalAt(Front(log))) <= deaths
    /\ deaths = 0 => IsPrefix(Front(log), upstream)

\* A change is not checked on an older branch than the workspace pulled last,
\* except for one commit for each build since that had none to take away and
\* then could not pull.
BaseKept ==
  \A w \in Workspaces : Checked(w) =>
    IsPrefix(SubSeq(upstream, 1, pulled[w] - lost[w]), ws[w].log)
=============================================================================
