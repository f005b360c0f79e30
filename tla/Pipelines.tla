----------------------------- MODULE Pipelines ------------------------------
(***************************************************************************)
(* The Jenkins pipelines that check the quality of a change under review:  *)
(* the serial, the parallel, the optimized and the internship pipeline.    *)
(* A build of a pipeline holds an executor from its first stage to the end *)
(* of its post section, some stages share the lock "amun_agent", and the   *)
(* regression runs on an executor of its own of the node "amun".  Several  *)
(* builds of a job run at a time.  The tools the stages call are external: a stage  *)
(* may end either way.                                                     *)
(***************************************************************************)
EXTENDS Naturals, FiniteSets

CONSTANTS
  Builds,            \* builds that run at the same time
  Kinds,             \* the pipelines their job may run
  Nodes,             \* the nodes of the installation
  AmunExecutors      \* executors of the node "amun"

Stages == {"checkout", "compile", "lint", "sanity", "regression"}

ASSUME PipelineAssumption ==
  /\ IsFiniteSet(Builds)
  /\ Kinds \subseteq {"serial", "parallel", "optimized", "internship"}
  /\ Nodes \subseteq {"amun", "other"}
  /\ AmunExecutors \in Nat \ {0}

VARIABLES
  kind,              \* the pipeline of the job
  agent,             \* the executor each build holds ("agent any")
  stage,             \* what has become of each stage of each build
  tries,             \* attempts of the checkout while it runs
  amun_agent,        \* the stages that hold the lock
  vote               \* what the post section has told Gerrit

vars == <<kind, agent, stage, tries, amun_agent, vote>>

\* "waived": by NOLINT or NOREG in the commit's message; "skipped": after the
\* failure of an earlier stage; "unstable": failed tests in the junit report.
Outcomes == {"ok", "failed", "unstable", "waived", "skipped"}

TypeOK ==
  /\ kind \in Kinds
  /\ agent \in [Builds -> {"none", "amun", "other", "returned"}]
  /\ stage \in [Builds -> [Stages -> {"todo", "runs"} \cup Outcomes]]
  /\ tries \in [Builds -> 0..3]
  /\ amun_agent \in SUBSET (Builds \X Stages) /\ Cardinality(amun_agent) <= 1
  /\ vote \in [Builds -> {"none", "+1", "-1"}]

-----------------------------------------------------------------------------
(* The stages of each pipeline: those that are over before another starts. *)

serial_pipeline ==
  [checkout |-> {}, compile |-> {"checkout"}, lint |-> {"compile"},
   sanity |-> {"lint"}, regression |-> {"sanity"}]

parallel_pipeline ==
  [checkout |-> {}, compile |-> {"checkout"}, lint |-> {"checkout"},
   sanity |-> {"checkout"}, regression |-> {"checkout"}]

\* "Gate I" is compile and then sanity, beside "Gate II".
optimized_pipeline ==
  [checkout |-> {}, compile |-> {"checkout"}, lint |-> {"checkout"},
   sanity |-> {"compile"}, regression |-> {"sanity", "lint"}]

amiq_internship_pipeline ==
  [checkout |-> {}, compile |-> {"checkout"}, lint |-> {"checkout"}]

Pipeline ==
  CASE kind = "serial"     -> serial_pipeline
    [] kind = "parallel"   -> parallel_pipeline
    [] kind = "optimized"  -> optimized_pipeline
    [] kind = "internship" -> amiq_internship_pipeline

JobStages == DOMAIN Pipeline

Locks(s) ==
  \/ s = "compile" /\ kind # "internship"
  \/ s = "sanity" /\ kind \in {"serial", "optimized"}

Init ==
  /\ kind \in Kinds
  /\ agent = [b \in Builds |-> "none"]
  /\ stage = [b \in Builds |-> [s \in Stages |-> "todo"]]
  /\ tries = [b \in Builds |-> 0]
  /\ amun_agent = {}
  /\ vote = [b \in Builds |-> "none"]

-----------------------------------------------------------------------------
(* Executors.                                                              *)

FreeOnAmun ==
  AmunExecutors > Cardinality({b \in Builds : agent[b] = "amun"})
                + Cardinality({b \in Builds : stage[b]["regression"] = "runs"})

\* "agent any": an executor of any node.
Allocate(b, node) ==
  /\ agent[b] = "none"
  /\ node = "amun" => FreeOnAmun
  /\ agent' = [agent EXCEPT ![b] = node]
  /\ UNCHANGED <<kind, stage, tries, amun_agent, vote>>

-----------------------------------------------------------------------------
(* A stage starts when those before it are over; after a failure it is     *)
(* skipped.                                                                *)

\* Stages that let the next one run.
Passed == {"ok", "waived", "unstable"}

IsNext(b, s) ==
  /\ agent[b] \in {"amun", "other"}
  /\ s \in JobStages /\ stage[b][s] = "todo"
  /\ \A p \in Pipeline[s] : stage[b][p] \in Outcomes

MayRun(b, s) ==
  /\ IsNext(b, s)
  /\ \A p \in Pipeline[s] : stage[b][p] \in Passed
  /\ s = "regression" => FreeOnAmun

Skip(b, s) ==
  /\ IsNext(b, s)
  /\ \E p \in Pipeline[s] : stage[b][p] \notin Passed
  /\ stage' = [stage EXCEPT ![b][s] = "skipped"]
  /\ UNCHANGED <<kind, agent, tries, amun_agent, vote>>

\* hasNOLINT, hasNOREG: the when condition is looked at once the stage has
\* its executor.  The internship pipeline has none.
Waive(b, s) ==
  /\ MayRun(b, s)
  /\ s \in {"lint", "regression"} /\ kind # "internship"
  /\ stage' = [stage EXCEPT ![b][s] = "waived"]
  /\ UNCHANGED <<kind, agent, tries, amun_agent, vote>>

Start(b, s) ==
  /\ MayRun(b, s)
  /\ IF Locks(s)
     THEN amun_agent = {} /\ amun_agent' = {<<b, s>>}
     ELSE UNCHANGED amun_agent
  /\ stage' = [stage EXCEPT ![b][s] = "runs"]
  /\ tries' = IF s = "checkout" THEN [tries EXCEPT ![b] = 1] ELSE tries
  /\ UNCHANGED <<kind, agent, vote>>

\* Variant: the lock is given back only when the stage succeeds.
Finish_KeepsLock(b, s, outcome) ==
  /\ stage[b][s] = "runs"
  /\ stage' = [stage EXCEPT ![b][s] = outcome]
  /\ amun_agent' = IF outcome = "ok" THEN amun_agent \ {<<b, s>>} ELSE amun_agent
  /\ tries' = IF s = "checkout" THEN [tries EXCEPT ![b] = 0] ELSE tries
  /\ UNCHANGED <<kind, agent, vote>>

\* A stage ends and leaves the block of its lock.
Finish(b, s, outcome) ==
  /\ stage[b][s] = "runs"
  /\ stage' = [stage EXCEPT ![b][s] = outcome]
  /\ amun_agent' = amun_agent \ {<<b, s>>}
  /\ tries' = IF s = "checkout" THEN [tries EXCEPT ![b] = 0] ELSE tries
  /\ UNCHANGED <<kind, agent, vote>>

\* "options {retry(3)}" of the checkout.
Retry(b) ==
  /\ stage[b]["checkout"] = "runs" /\ tries[b] < 3
  /\ tries' = [tries EXCEPT ![b] = @ + 1]
  /\ UNCHANGED <<kind, agent, stage, amun_agent, vote>>

\* How the script of a stage may end.  compile catches every error and
\* prints it; the others end with "exit 1"; regression reads a junit report.
Ends(b, s, outcome) ==
  /\ Finish(b, s, outcome)
  /\ \/ outcome = "ok"
     \/ outcome = "failed" /\ s \in {"lint", "sanity", "regression"}
     \/ outcome = "failed" /\ s = "checkout" /\ tries[b] = 3
     \/ outcome = "unstable" /\ s = "regression"

-----------------------------------------------------------------------------
(* The post section.                                                       *)

Over(b) == \A s \in JobStages : stage[b][s] \in Outcomes

Has(b, outcome) == \E s \in JobStages : stage[b][s] = outcome

\* Variant: whatever has not failed is a success.
Verdict_NotFailed(b) == IF Has(b, "failed") THEN "-1" ELSE "+1"

\* success and failure vote; an unstable build is neither.
Verdict(b) ==
  CASE Has(b, "failed")   -> "-1"
    [] ~Has(b, "failed") /\ Has(b, "unstable") -> "none"
    [] OTHER -> "+1"

\* The mail is sent and Gerrit is told; the executor is free again.
Post(b) ==
  /\ agent[b] \in {"amun", "other"} /\ Over(b)
  /\ vote' = [vote EXCEPT ![b] = Verdict(b)]
  /\ agent' = [agent EXCEPT ![b] = "returned"]
  /\ UNCHANGED <<kind, stage, tries, amun_agent>>

Step(b) ==
  \/ \E node \in Nodes : Allocate(b, node)
  \/ \E s \in Stages : Skip(b, s) \/ Waive(b, s) \/ Start(b, s)
  \/ Retry(b)
  \/ \E s \in Stages, outcome \in Outcomes : Ends(b, s, outcome)
  \/ Post(b)

Stay == (\A b \in Builds : agent[b] = "returned") /\ UNCHANGED vars

Next == (\E b \in Builds : Step(b)) \/ Stay

\* Jenkins runs what can run, and the tools come to an end.
Spec == Init /\ [][Next]_vars /\ WF_vars(\E b \in Builds : Step(b))
-----------------------------------------------------------------------------
\* A change whose build is over is verified exactly if every stage of its
\* pipeline has ended well or was waived by its message, and rejected exactly
\* if one has failed: nothing that was skipped counts as passed, and a build
\* with failed regression tests ("unstable") does neither (post sections).
VerdictExact ==
  \A b \in Builds : agent[b] = "returned" =>
    /\ vote[b] = "+1" <=> \A s \in JobStages : stage[b][s] \in {"ok", "waived"}
    /\ vote[b] = "-1" <=> \E s \in JobStages : stage[b][s] = "failed"

\* Every build comes to its end, whatever others hold: nobody waits for ever
\* for the lock, or for an executor of "amun" while holding another of them.
BuildsEnd == \A b \in Builds : <>(agent[b] = "returned")
=============================================================================
