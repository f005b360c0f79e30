--------------------------- MODULE PipelinesProofs --------------------------
(***************************************************************************)
(* For any builds that run at a time, any of the pipelines and any         *)
(* executors: the vote says what has become of the stages, the lock is     *)
(* held by the stage that runs under it, and the node "amun" is never      *)
(* asked for more executors than it has.  The vote needs to know why a     *)
(* stage was skipped: some stage of the build has failed.                  *)
(*                                                                         *)
(* Then the workspaces the internship pipeline keeps from build to build:  *)
(* a change is checked by itself, and on the branch as it was pulled last. *)
(***************************************************************************)
EXTENDS Pipelines, InternshipWorkspace, FiniteSetTheorems, SequenceTheorems,
        WellFoundedInduction, TLAPS

\* A build that has given its executor back is over, and has voted so.
Voted ==
  \A b \in Builds : agent[b] = "returned" => Over(b) /\ vote[b] = Verdict(b)

\* A stage is skipped on account of one that failed.
Blamed ==
  \A b \in Builds : \A s \in Stages :
    stage[b][s] = "skipped" => \E p \in JobStages : stage[b][p] = "failed"

\* Who holds the lock is the stage that runs in the block of the lock.
LockExact ==
  amun_agent = {p \in Builds \X Stages : stage[p[1]][p[2]] = "runs" /\ Locks(p[2])}

OnAmun == {b \in Builds : agent[b] = "amun"}
Regressing == {b \in Builds : stage[b]["regression"] = "runs"}

\* Builds and their regressions share the executors of "amun".
ExecutorsEnough == Cardinality(OnAmun) + Cardinality(Regressing) <= AmunExecutors

IInv == TypeOK /\ Voted /\ Blamed /\ LockExact /\ ExecutorsEnough

-----------------------------------------------------------------------------
(* The pipelines, and what a step does to a stage.                         *)

LEMMA PipelineFacts ==
  ASSUME kind \in Kinds
  PROVE  /\ JobStages \subseteq Stages
         /\ \A s \in JobStages : Pipeline[s] \subseteq JobStages
<1>1. kind \in {"serial", "parallel", "optimized", "internship"}
  BY PipelineAssumption
<1>2. CASE kind = "serial"
  BY <1>2 DEF JobStages, Pipeline, serial_pipeline, Stages
<1>3. CASE kind = "parallel"
  BY <1>3 DEF JobStages, Pipeline, parallel_pipeline, Stages
<1>4. CASE kind = "optimized"
  BY <1>4 DEF JobStages, Pipeline, optimized_pipeline, Stages
<1>5. CASE kind = "internship"
  BY <1>5 DEF JobStages, Pipeline, amiq_internship_pipeline, Stages
<1> QED  BY <1>1, <1>2, <1>3, <1>4, <1>5

\* Stage s of build b is now v.
Becomes(b, s, v) ==
  /\ stage[b][s] \in {"todo", "runs"}
  /\ stage'[b][s] = v
  /\ \A c \in Builds, r \in Stages : <<c, r>> # <<b, s>> => stage'[c][r] = stage[c][r]

LEMMA BecomesFacts ==
  ASSUME TypeOK, NEW b \in Builds, NEW s \in Stages, NEW v \in {"runs"} \cup Outcomes,
         stage[b][s] \in {"todo", "runs"}, stage' = [stage EXCEPT ![b][s] = v]
  PROVE  Becomes(b, s, v) /\ stage' \in [Builds -> [Stages -> {"todo", "runs"} \cup Outcomes]]
<1>1. stage' = [stage EXCEPT ![b] = [stage[b] EXCEPT ![s] = v]]
  OBVIOUS
<1>2. stage \in [Builds -> [Stages -> {"todo", "runs"} \cup Outcomes]]
  BY DEF TypeOK
<1>3. stage[b] \in [Stages -> {"todo", "runs"} \cup Outcomes]
  BY <1>2
<1> QED  BY <1>1, <1>2, <1>3 DEF Becomes

LEMMA OverStays ==
  ASSUME TypeOK, NEW b \in Builds, NEW s \in Stages, NEW v, Becomes(b, s, v),
         kind' = kind, NEW c \in Builds, Over(c), c # b \/ s \notin JobStages
  PROVE  Over(c)' /\ Verdict(c)' = Verdict(c)
<1>1. JobStages \subseteq Stages /\ JobStages' = JobStages
  BY PipelineFacts DEF TypeOK, JobStages, Pipeline
<1>2. \A r \in JobStages : stage'[c][r] = stage[c][r]
  BY <1>1 DEF Becomes
<1> QED  BY <1>1, <1>2 DEF Over, Verdict, Has

LEMMA VotedKept ==
  ASSUME IInv, NEW b \in Builds, NEW s \in Stages, NEW v, Becomes(b, s, v),
         UNCHANGED <<kind, agent, vote>>
  PROVE  Voted'
<1> SUFFICES ASSUME NEW c \in Builds, agent[c] = "returned"
             PROVE  Over(c)' /\ vote[c] = Verdict(c)'
  BY DEF Voted
<1>1. Over(c) /\ vote[c] = Verdict(c)
  BY DEF IInv, Voted
<1>2. c # b \/ s \notin JobStages
  BY <1>1 DEF Over, Becomes, Outcomes
<1> QED  BY <1>1, <1>2, OverStays DEF IInv

LEMMA BlamedKept ==
  ASSUME IInv, NEW b \in Builds, NEW s \in Stages, NEW v, Becomes(b, s, v),
         UNCHANGED kind,
         v = "skipped" => \E p \in JobStages : stage[b][p] \in {"failed", "skipped"}
  PROVE  Blamed'
<1>1. JobStages \subseteq Stages /\ JobStages' = JobStages
  BY PipelineFacts DEF IInv, TypeOK, JobStages, Pipeline
<1>2. ASSUME NEW c \in Builds, NEW p \in JobStages, stage[c][p] = "failed"
      PROVE  stage'[c][p] = "failed"
  BY <1>1, <1>2 DEF Becomes
<1>3. ASSUME NEW c \in Builds, NEW r \in Stages, stage'[c][r] = "skipped"
      PROVE  \E p \in JobStages : stage[c][p] = "failed"
  <2>1. CASE stage[c][r] = "skipped"
    BY <2>1 DEF IInv, Blamed
  <2>2. CASE stage[c][r] # "skipped"
    <3>1. c = b /\ v = "skipped"
      BY <1>3, <2>2 DEF Becomes
    <3> QED  BY <1>1, <3>1 DEF IInv, Blamed
  <2> QED  BY <2>1, <2>2
<1> QED  BY <1>1, <1>2, <1>3 DEF Blamed

-----------------------------------------------------------------------------
(* The lock.                                                               *)

LEMMA LockTaken ==
  ASSUME IInv, NEW b \in Builds, NEW s \in Stages, Becomes(b, s, "runs"),
         UNCHANGED kind, Locks(s) => amun_agent = {},
         amun_agent' = IF Locks(s) THEN {<<b, s>>} ELSE amun_agent,
         stage[b][s] = "todo"
  PROVE  LockExact' /\ amun_agent' \in SUBSET (Builds \X Stages) /\ Cardinality(amun_agent') <= 1
<1>1. \A r : Locks(r)' <=> Locks(r)
  BY DEF Locks
<1>2. amun_agent' \in SUBSET (Builds \X Stages) /\ Cardinality(amun_agent') <= 1
  <2>1. CASE Locks(s)
    <3>1. Cardinality({<<b, s>>}) = 1
      BY FS_Singleton
    <3> QED  BY <2>1, <3>1
  <2>2. CASE ~Locks(s)
    BY <2>2 DEF IInv, TypeOK
  <2> QED  BY <2>1, <2>2
<1>3. ASSUME NEW p \in Builds \X Stages
      PROVE  p \in amun_agent' <=> stage'[p[1]][p[2]] = "runs" /\ Locks(p[2])
  <2>1. CASE p = <<b, s>>
    BY <2>1 DEF Becomes, IInv, LockExact
  <2>2. CASE p # <<b, s>>
    <3>1. stage'[p[1]][p[2]] = stage[p[1]][p[2]]
      BY <2>2 DEF Becomes
    <3> QED  BY <2>2, <3>1 DEF IInv, LockExact
  <2> QED  BY <2>1, <2>2
<1> QED  BY <1>1, <1>2, <1>3 DEF LockExact

LEMMA LockGivenBack ==
  ASSUME IInv, NEW b \in Builds, NEW s \in Stages, NEW v \in Outcomes, Becomes(b, s, v),
         UNCHANGED kind, amun_agent' = amun_agent \ {<<b, s>>}
  PROVE  LockExact' /\ amun_agent' \in SUBSET (Builds \X Stages) /\ Cardinality(amun_agent') <= 1
<1>1. \A r : Locks(r)' <=> Locks(r)
  BY DEF Locks
<1>2. IsFiniteSet(amun_agent)
  <2>1. IsFiniteSet(Stages)
    <3>1. IsFiniteSet({"checkout", "compile"})
      <4>1. IsFiniteSet({"checkout"} \cup {"compile"})
        BY FS_Singleton, FS_AddElement
      <4>2. {"checkout", "compile"} = {"checkout"} \cup {"compile"}
        OBVIOUS
      <4> QED  BY <4>1, <4>2
    <3>2. IsFiniteSet({"checkout", "compile"} \cup {"lint"} \cup {"sanity"})
      BY <3>1, FS_AddElement
    <3>3. IsFiniteSet(({"checkout", "compile"} \cup {"lint"} \cup {"sanity"}) \cup {"regression"})
      BY <3>2, FS_AddElement
    <3>4. Stages = ({"checkout", "compile"} \cup {"lint"} \cup {"sanity"}) \cup {"regression"}
      BY DEF Stages
    <3> QED  BY <3>3, <3>4
  <2>2. IsFiniteSet(Builds \X Stages)
    BY <2>1, FS_Product, PipelineAssumption
  <2> QED  BY <2>2, FS_Subset DEF IInv, TypeOK
<1>3. Cardinality(amun_agent') <= Cardinality(amun_agent)
  BY <1>2, FS_Subset
<1>4. Cardinality(amun_agent) \in Nat /\ Cardinality(amun_agent') \in Nat
  BY <1>2, FS_CardinalityType, FS_RemoveElement
<1>5. amun_agent' \in SUBSET (Builds \X Stages) /\ Cardinality(amun_agent') <= 1
  BY <1>3, <1>4 DEF IInv, TypeOK
<1>6. ASSUME NEW p \in Builds \X Stages
      PROVE  p \in amun_agent' <=> stage'[p[1]][p[2]] = "runs" /\ Locks(p[2])
  <2>1. CASE p = <<b, s>>
    BY <2>1 DEF Becomes, Outcomes
  <2>2. CASE p # <<b, s>>
    <3>1. stage'[p[1]][p[2]] = stage[p[1]][p[2]]
      BY <2>2 DEF Becomes
    <3> QED  BY <2>2, <3>1 DEF IInv, LockExact
  <2> QED  BY <2>1, <2>2
<1> QED  BY <1>1, <1>5, <1>6 DEF LockExact

-----------------------------------------------------------------------------
(* The executors of "amun".                                                *)

LEMMA ExecutorFacts ==
  /\ IsFiniteSet(OnAmun) /\ IsFiniteSet(Regressing)
  /\ Cardinality(OnAmun) \in Nat /\ Cardinality(Regressing) \in Nat
<1>1. IsFiniteSet(OnAmun) /\ IsFiniteSet(Regressing)
  BY FS_Subset, PipelineAssumption DEF OnAmun, Regressing
<1> QED  BY <1>1, FS_CardinalityType

\* None is asked for unless one is free, and then only one more.
LEMMA ExecutorsKept ==
  ASSUME IInv,
         \/ OnAmun' \subseteq OnAmun /\ Regressing' \subseteq Regressing
         \/ FreeOnAmun /\ OnAmun' \subseteq OnAmun /\ \E b : Regressing' \subseteq Regressing \cup {b}
         \/ FreeOnAmun /\ Regressing' \subseteq Regressing /\ \E b : OnAmun' \subseteq OnAmun \cup {b}
  PROVE  ExecutorsEnough'
<1>1. ASSUME NEW S, IsFiniteSet(S), NEW b, NEW T, T \subseteq S \cup {b}
      PROVE  /\ Cardinality(T) \in Nat /\ Cardinality(T) <= Cardinality(S) + 1
  <2>1. IsFiniteSet(S \cup {b}) /\ Cardinality(S \cup {b}) <= Cardinality(S) + 1
    <3>1. Cardinality(S) \in Nat
      BY <1>1, FS_CardinalityType
    <3>2. /\ IsFiniteSet(S \cup {b})
          /\ Cardinality(S \cup {b}) = IF b \in S THEN Cardinality(S) ELSE Cardinality(S) + 1
      BY <1>1, FS_AddElement
    <3> QED  BY <3>1, <3>2
  <2>2. IsFiniteSet(T) /\ Cardinality(T) <= Cardinality(S \cup {b})
    BY <1>1, <2>1, FS_Subset
  <2> QED  BY <1>1, <2>1, <2>2, FS_CardinalityType
<1>2. ASSUME NEW S, IsFiniteSet(S), NEW T, T \subseteq S
      PROVE  Cardinality(T) \in Nat /\ Cardinality(T) <= Cardinality(S)
  BY <1>2, FS_Subset, FS_CardinalityType
<1>3. AmunExecutors \in Nat
  BY PipelineAssumption
<1>4. FreeOnAmun => AmunExecutors > Cardinality(OnAmun) + Cardinality(Regressing)
  BY DEF FreeOnAmun, OnAmun, Regressing
<1>5. CASE OnAmun' \subseteq OnAmun /\ Regressing' \subseteq Regressing
  <2>1. /\ Cardinality(OnAmun') \in Nat /\ Cardinality(OnAmun') <= Cardinality(OnAmun)
        /\ Cardinality(Regressing') \in Nat /\ Cardinality(Regressing') <= Cardinality(Regressing)
    BY <1>2, <1>5, ExecutorFacts
  <2> QED  BY <1>3, <2>1, ExecutorFacts DEF IInv, ExecutorsEnough
<1>6. ASSUME FreeOnAmun, OnAmun' \subseteq OnAmun, NEW b, Regressing' \subseteq Regressing \cup {b}
      PROVE  ExecutorsEnough'
  <2>1. /\ Cardinality(OnAmun') \in Nat /\ Cardinality(OnAmun') <= Cardinality(OnAmun)
        /\ Cardinality(Regressing') \in Nat
        /\ Cardinality(Regressing') <= Cardinality(Regressing) + 1
    BY <1>1, <1>2, <1>6, ExecutorFacts
  <2> QED  BY <1>3, <1>4, <1>6, <2>1, ExecutorFacts DEF ExecutorsEnough
<1>7. ASSUME FreeOnAmun, Regressing' \subseteq Regressing, NEW b, OnAmun' \subseteq OnAmun \cup {b}
      PROVE  ExecutorsEnough'
  <2>1. /\ Cardinality(Regressing') \in Nat /\ Cardinality(Regressing') <= Cardinality(Regressing)
        /\ Cardinality(OnAmun') \in Nat /\ Cardinality(OnAmun') <= Cardinality(OnAmun) + 1
    BY <1>1, <1>2, <1>7, ExecutorFacts
  <2> QED  BY <1>3, <1>4, <1>7, <2>1, ExecutorFacts DEF ExecutorsEnough
<1> QED  BY <1>5, <1>6, <1>7

-----------------------------------------------------------------------------
(* The invariant.                                                          *)

LEMMA InitIInv ==
  ASSUME Init
  PROVE  IInv
<1> USE DEF Init
<1>1. Cardinality({}) = 0
  BY FS_EmptySet
<1>2. TypeOK
  BY <1>1 DEF TypeOK
<1>3. Voted /\ Blamed /\ LockExact
  BY DEF Voted, Blamed, LockExact
<1>4. ExecutorsEnough
  <2>1. OnAmun = {} /\ Regressing = {}
    BY DEF OnAmun, Regressing, Stages
  <2> QED  BY <1>1, <2>1, PipelineAssumption DEF ExecutorsEnough
<1> QED  BY <1>2, <1>3, <1>4 DEF IInv

LEMMA SkippedOrWaived ==
  ASSUME IInv, NEW b \in Builds, NEW s \in Stages, Skip(b, s) \/ Waive(b, s)
  PROVE  IInv'
<1>1. PICK v \in {"skipped", "waived"} :
        /\ stage[b][s] = "todo" /\ stage' = [stage EXCEPT ![b][s] = v]
        /\ v = "skipped" => Skip(b, s)
  BY DEF Skip, Waive, MayRun, IsNext
<1>2. UNCHANGED <<kind, agent, tries, amun_agent, vote>>
  BY DEF Skip, Waive
<1>3. Becomes(b, s, v) /\ stage' \in [Builds -> [Stages -> {"todo", "runs"} \cup Outcomes]]
  BY <1>1, BecomesFacts DEF IInv, Outcomes
<1>4. TypeOK'
  BY <1>2, <1>3 DEF IInv, TypeOK
<1>5. Voted'
  BY <1>2, <1>3, VotedKept
<1>6. Blamed'
  <2>1. ASSUME Skip(b, s)
        PROVE  \E p \in JobStages : stage[b][p] \in {"failed", "skipped"}
    <3>1. PICK p \in Pipeline[s] : stage[b][p] \notin Passed
      BY <2>1 DEF Skip
    <3>2. stage[b][p] \in Outcomes /\ s \in JobStages
      BY <2>1, <3>1 DEF Skip, IsNext
    <3>3. p \in JobStages
      BY <3>2, PipelineFacts DEF IInv, TypeOK
    <3> QED  BY <3>1, <3>2, <3>3 DEF Outcomes, Passed
  <2> QED  BY <1>1, <1>2, <1>3, <2>1, BlamedKept
<1>7. LockExact'
  <2>1. ASSUME NEW p \in Builds \X Stages
        PROVE  stage'[p[1]][p[2]] = "runs" <=> stage[p[1]][p[2]] = "runs"
    <3>1. CASE p = <<b, s>>
      BY <1>1, <1>3, <3>1 DEF Becomes
    <3>2. CASE p # <<b, s>>
      BY <3>2, <1>3 DEF Becomes
    <3> QED  BY <3>1, <3>2
  <2> QED  BY <1>2, <2>1 DEF IInv, LockExact, Locks
<1>8. ExecutorsEnough'
  <2>1. OnAmun' = OnAmun
    BY <1>2 DEF OnAmun
  <2>2. Regressing' \subseteq Regressing
    BY <1>1, <1>3 DEF Regressing, Becomes, Stages
  <2> QED  BY <2>1, <2>2, ExecutorsKept
<1> QED  BY <1>4, <1>5, <1>6, <1>7, <1>8 DEF IInv

LEMMA Started ==
  ASSUME IInv, NEW b \in Builds, NEW s \in Stages, Start(b, s)
  PROVE  IInv'
<1>1. /\ stage[b][s] = "todo" /\ stage' = [stage EXCEPT ![b][s] = "runs"]
      /\ s = "regression" => FreeOnAmun
      /\ UNCHANGED <<kind, agent, vote>>
  BY DEF Start, MayRun, IsNext
<1>2. Becomes(b, s, "runs") /\ stage' \in [Builds -> [Stages -> {"todo", "runs"} \cup Outcomes]]
  BY <1>1, BecomesFacts DEF IInv
<1>3. /\ Locks(s) => amun_agent = {}
      /\ amun_agent' = IF Locks(s) THEN {<<b, s>>} ELSE amun_agent
  BY DEF Start
<1>4. tries' \in [Builds -> 0..3]
  BY DEF Start, IInv, TypeOK
<1>5. LockExact' /\ amun_agent' \in SUBSET (Builds \X Stages) /\ Cardinality(amun_agent') <= 1
  BY <1>1, <1>2, <1>3, LockTaken
<1>6. TypeOK'
  BY <1>1, <1>2, <1>4, <1>5 DEF IInv, TypeOK
<1>7. Voted' /\ Blamed'
  BY <1>1, <1>2, VotedKept, BlamedKept
<1>8. ExecutorsEnough'
  <2>1. OnAmun' = OnAmun
    BY <1>1 DEF OnAmun
  <2>2. Regressing' \subseteq IF s = "regression" THEN Regressing \cup {b} ELSE Regressing
    BY <1>2 DEF Regressing, Becomes, Stages
  <2> QED  BY <1>1, <2>1, <2>2, ExecutorsKept
<1> QED  BY <1>5, <1>6, <1>7, <1>8 DEF IInv

LEMMA Ended ==
  ASSUME IInv, NEW b \in Builds, NEW s \in Stages, NEW v \in Outcomes, Ends(b, s, v)
  PROVE  IInv'
<1>1. /\ stage[b][s] = "runs" /\ stage' = [stage EXCEPT ![b][s] = v]
      /\ amun_agent' = amun_agent \ {<<b, s>>}
      /\ UNCHANGED <<kind, agent, vote>>
      /\ v # "skipped"
  BY DEF Ends, Finish
<1>2. Becomes(b, s, v) /\ stage' \in [Builds -> [Stages -> {"todo", "runs"} \cup Outcomes]]
  BY <1>1, BecomesFacts DEF IInv
<1>3. tries' \in [Builds -> 0..3]
  BY DEF Ends, Finish, IInv, TypeOK
<1>4. LockExact' /\ amun_agent' \in SUBSET (Builds \X Stages) /\ Cardinality(amun_agent') <= 1
  BY <1>1, <1>2, LockGivenBack
<1>5. TypeOK'
  BY <1>1, <1>2, <1>3, <1>4 DEF IInv, TypeOK
<1>6. Voted' /\ Blamed'
  BY <1>1, <1>2, VotedKept, BlamedKept
<1>7. ExecutorsEnough'
  <2>1. OnAmun' = OnAmun
    BY <1>1 DEF OnAmun
  <2>2. Regressing' \subseteq Regressing
    BY <1>2 DEF Regressing, Becomes, Stages, Outcomes
  <2> QED  BY <2>1, <2>2, ExecutorsKept
<1> QED  BY <1>4, <1>5, <1>6, <1>7 DEF IInv

\* A step that leaves the stages alone.
LEMMA StagesAlone ==
  ASSUME IInv, UNCHANGED <<kind, stage, amun_agent>>
  PROVE  Blamed' /\ LockExact' /\ \A b : Over(b)' = Over(b) /\ Verdict(b)' = Verdict(b)
<1>1. Blamed'
  BY DEF IInv, Blamed, JobStages, Pipeline
<1>2. LockExact'
  BY DEF IInv, LockExact, Locks
<1>3. JobStages' = JobStages
  BY DEF JobStages, Pipeline
<1>4. \A b : Over(b)' = Over(b) /\ Verdict(b)' = Verdict(b)
  BY <1>3 DEF Over, Verdict, Has
<1> QED  BY <1>1, <1>2, <1>4

LEMMA NextIInv ==
  ASSUME IInv, [Next]_vars
  PROVE  IInv'
<1>1. ASSUME NEW b \in Builds, NEW node \in Nodes, Allocate(b, node)
      PROVE  IInv'
  <2>1. /\ agent' = [agent EXCEPT ![b] = node]
        /\ node = "amun" => FreeOnAmun
        /\ node \in {"amun", "other"} /\ UNCHANGED <<kind, stage, tries, amun_agent, vote>>
    BY <1>1, PipelineAssumption DEF Allocate
  <2>2. TypeOK'
    BY <2>1 DEF IInv, TypeOK
  <2>3. Voted'
    BY <2>1, StagesAlone DEF IInv, TypeOK, Voted
  <2>4. ExecutorsEnough'
    <3>1. Regressing' = Regressing
      BY <2>1 DEF Regressing
    <3>2. OnAmun' \subseteq IF node = "amun" THEN OnAmun \cup {b} ELSE OnAmun
      BY <2>1 DEF OnAmun, IInv, TypeOK
    <3> QED  BY <2>1, <3>1, <3>2, ExecutorsKept
  <2> QED  BY <2>1, <2>2, <2>3, <2>4, StagesAlone DEF IInv
<1>2. ASSUME NEW b \in Builds, Retry(b)
      PROVE  IInv'
  <2>1. tries' \in [Builds -> 0..3] /\ UNCHANGED <<kind, agent, stage, amun_agent, vote>>
    BY <1>2 DEF Retry, IInv, TypeOK
  <2>2. TypeOK' /\ ExecutorsEnough'
    BY <2>1 DEF IInv, TypeOK, ExecutorsEnough, OnAmun, Regressing
  <2>3. Voted'
    BY <2>1, StagesAlone DEF IInv, Voted
  <2> QED  BY <2>1, <2>2, <2>3, StagesAlone DEF IInv
<1>3. ASSUME NEW b \in Builds, Post(b)
      PROVE  IInv'
  <2>1. /\ Over(b) /\ vote' = [vote EXCEPT ![b] = Verdict(b)]
        /\ agent' = [agent EXCEPT ![b] = "returned"]
        /\ UNCHANGED <<kind, stage, tries, amun_agent>>
    BY <1>3 DEF Post
  <2>2. Verdict(b) \in {"none", "+1", "-1"}
    BY DEF Verdict
  <2>3. TypeOK'
    BY <2>1, <2>2 DEF IInv, TypeOK
  <2>4. Voted'
    BY <2>1, StagesAlone DEF IInv, TypeOK, Voted
  <2>5. ExecutorsEnough'
    <3>1. OnAmun' \subseteq OnAmun /\ Regressing' = Regressing
      BY <2>1 DEF OnAmun, Regressing, IInv, TypeOK
    <3> QED  BY <3>1, ExecutorsKept
  <2> QED  BY <2>1, <2>3, <2>4, <2>5, StagesAlone DEF IInv
<1>4. CASE UNCHANGED vars
  <2>1. UNCHANGED <<kind, agent, stage, tries, amun_agent, vote>>
    BY <1>4 DEF vars
  <2>2. TypeOK' /\ ExecutorsEnough'
    BY <2>1 DEF IInv, TypeOK, ExecutorsEnough, OnAmun, Regressing
  <2>3. Voted'
    BY <2>1, StagesAlone DEF IInv, Voted
  <2> QED  BY <2>1, <2>2, <2>3, StagesAlone DEF IInv
<1> QED
  BY <1>1, <1>2, <1>3, <1>4, SkippedOrWaived, Started, Ended DEF Next, Step, Stay

\* The invariant, and with it the types.
THEOREM PipelinesInvariant == Spec => []IInv
BY InitIInv, NextIInv, PTL DEF Spec

\* Types of the builds, their stages and their votes.
THEOREM PipelinesTypeCorrect == Spec => []TypeOK
BY PipelinesInvariant, PTL DEF IInv

\* Gerrit is told +1 exactly for builds all of whose stages ended well or were
\* waived, and -1 exactly for those with a failed stage (post sections): a
\* stage that was skipped is never taken for one that passed.
THEOREM VerdictCorrect == Spec => []VerdictExact
<1>1. IInv => VerdictExact
  <2> SUFFICES ASSUME IInv, NEW b \in Builds, agent[b] = "returned"
               PROVE  /\ vote[b] = "+1" <=> \A s \in JobStages : stage[b][s] \in {"ok", "waived"}
                      /\ vote[b] = "-1" <=> \E s \in JobStages : stage[b][s] = "failed"
    BY DEF VerdictExact
  <2>1. /\ vote[b] = Verdict(b)
        /\ \A s \in JobStages : stage[b][s] \in Outcomes
    BY DEF IInv, Voted, Over
  <2>2. \A s \in JobStages : stage[b][s] = "skipped" => Has(b, "failed")
    BY PipelineFacts DEF IInv, TypeOK, Blamed, Has
  <2>3. CASE Has(b, "failed")
    BY <2>1, <2>3 DEF Verdict, Has
  <2>4. CASE ~Has(b, "failed") /\ Has(b, "unstable")
    BY <2>1, <2>4 DEF Verdict, Has
  <2>5. CASE ~Has(b, "failed") /\ ~Has(b, "unstable")
    BY <2>1, <2>2, <2>5 DEF Verdict, Has, Outcomes
  <2> QED  BY <2>3, <2>4, <2>5
<1> QED  BY <1>1, PipelinesInvariant, PTL

\* The lock "amun_agent" is held exactly while a stage runs in its block: it is
\* given back however the stage ends, and no two such stages run at a time.
THEOREM LockCorrect == Spec => []LockExact
BY PipelinesInvariant, PTL DEF IInv

\* Builds and regressions together never take more executors of the node
\* "amun" than it has, although a build holds its own while it waits.
THEOREM ExecutorsCorrect == Spec => []ExecutorsEnough
BY PipelinesInvariant, PTL DEF IInv

-----------------------------------------------------------------------------
(* The workspaces of the internship pipeline, for any changes, workspaces, *)
(* builds and deaths.  Apart from what its build has picked, a workspace   *)
(* holds commits of the branch and, at most, one for each build that died. *)

Workspace == [repo : BOOLEAN, log : Seq(Commits), conflict : BOOLEAN, rebasing : BOOLEAN]

Work ==
  [at : {"idle", "prepare", "check", "post", "reset", "pull"}, number : Nat,
   change : Changes \cup {"none"}, tries : Nat, picked : BOOLEAN, ok : BOOLEAN]

WorkspaceTypeOK ==
  /\ upstream \in Seq(Commits) /\ Len(upstream) > 0
  /\ ws \in [Workspaces -> Workspace]
  /\ build \in [Workspaces -> Work]
  /\ number \in Nat /\ deaths \in Nat
  /\ verified \in SUBSET (Changes \cup {"none"})
  /\ pulled \in [Workspaces -> Nat] /\ lost \in [Workspaces -> Nat]

\* The change of the build is on top of its workspace.
Holding(work) == work.picked /\ work.at \in {"check", "post", "reset"}

\* What the change is checked on.
BaseOf(space, work) == IF Holding(work) THEN Front(space.log) ELSE space.log

LocalIn(log, branch) == {n \in DOMAIN log : ~Contains(branch, log[n])}

\* A base has one local commit for each death, and begins like the branch did
\* when it was pulled, but for what was taken away since.
OnBranch(base, branch, died, length, taken) ==
  /\ Cardinality(LocalIn(base, branch)) <= died
  /\ died = 0 => Len(base) <= Len(branch) /\ \A n \in 1..Len(base) : base[n] = branch[n]
  /\ length <= Len(branch)
  /\ \A n \in 1..length - taken : n <= Len(base) /\ base[n] = branch[n]

\* What the place of a build says of what it has picked.
InPlace(space, work) ==
  /\ space.repo => Len(space.log) > 0
  /\ Holding(work) => space.repo /\ Len(space.log) > 1 /\ Last(space.log) = work.change
  /\ work.at # "idle" => work.change \in Changes
  /\ work.at = "prepare" => ~work.picked /\ ~work.ok
  /\ work.at = "check" /\ work.number > 1 => work.picked
  /\ work.at = "post" /\ work.ok /\ work.number > 1 => work.picked

Kept(space, work, branch, died, length, taken) ==
  InPlace(space, work) /\ OnBranch(BaseOf(space, work), branch, died, length, taken)

WorkspaceInv ==
  /\ WorkspaceTypeOK
  /\ \A w \in Workspaces : Kept(ws[w], build[w], upstream, deaths, pulled[w], lost[w])

-----------------------------------------------------------------------------
LEMMA LeastOfSet ==
  ASSUME NEW X \in SUBSET Nat, X # {}
  PROVE  \E x \in X : \A y \in X : x <= y
<1>1. PICK x \in X : \A y \in X : <<y, x>> \notin OpToRel(<, Nat)
  BY NatLessThanWellFounded, WFMin
<1>2. \A y \in X : ~(y < x)
  BY <1>1 DEF OpToRel
<1> QED  BY <1>2

\* Every set of positions can be listed in order.
LEMMA Listed ==
  ASSUME NEW N \in Nat, NEW P \in SUBSET (1..N)
  PROVE  \E f \in [1..Cardinality(P) -> P] : \A m, n \in DOMAIN f : m < n => f[m] < f[n]
<1> DEFINE Ordered(f) == \A m, n \in DOMAIN f : m < n => f[m] < f[n]
           Fails(k) == \E Q \in SUBSET (1..k) : ~\E f \in [1..Cardinality(Q) -> Q] : Ordered(f)
           X == {k \in Nat : Fails(k)}
<1>1. ASSUME X # {} PROVE FALSE
  <2>0. X \in SUBSET Nat
    OBVIOUS
  <2>1. PICK k \in X : \A j \in X : k <= j
    <3> HIDE DEF X
    <3> QED  BY <1>1, <2>0, LeastOfSet
  <2>2. k \in Nat /\ \A j \in X : ~(j < k)
    <3> HIDE DEF X
    <3> QED  BY <2>0, <2>1
  <2>3. PICK Q \in SUBSET (1..k) : ~\E f \in [1..Cardinality(Q) -> Q] : Ordered(f)
    BY <2>1
  <2>4. CASE k \notin Q
    <3>1. CASE k = 0
      <4>1. Q = {}
        BY <2>3, <3>1
      <4>0. Cardinality(Q) = 0
        BY <4>1, FS_EmptySet
      <4>2. 1..0 = {}
        OBVIOUS
      <4>3. [n \in {} |-> n] \in [1..Cardinality(Q) -> Q] /\ Ordered([n \in {} |-> n])
        BY <4>0, <4>1, <4>2
      <4> QED  BY <2>3, <4>3
    <3>2. CASE k # 0
      <4>1. k - 1 \in Nat /\ k - 1 < k /\ Q \in SUBSET (1..k - 1)
        BY <2>2, <2>3, <2>4, <3>2
      <4>2. k - 1 \in X
        BY <2>3, <4>1
      <4> QED  BY <2>2, <4>1, <4>2
    <3> QED  BY <3>1, <3>2
  <2>5. CASE k \in Q
    <3> DEFINE R == Q \ {k}
    <3>1. k > 0 /\ k - 1 \in Nat /\ k - 1 < k /\ R \in SUBSET (1..k - 1)
      BY <2>2, <2>3, <2>5
    <3>2. ~Fails(k - 1)
      BY <2>2, <3>1
    <3>3. PICK f \in [1..Cardinality(R) -> R] : Ordered(f)
      BY <3>1, <3>2
    <3>4. /\ Cardinality(Q) = Cardinality(R) + 1 /\ Cardinality(R) \in Nat
      <4>1. IsFiniteSet(1..k)
        BY <2>2, FS_Interval
      <4>2. IsFiniteSet(Q)
        BY <4>1, <2>3, FS_Subset
      <4>3. IsFiniteSet(R) /\ Cardinality(R) = Cardinality(Q) - 1
        BY <2>5, <4>2, FS_RemoveElement
      <4>4. Cardinality(Q) \in Nat /\ Cardinality(R) \in Nat
        BY <4>2, <4>3, FS_CardinalityType
      <4> HIDE DEF R
      <4> QED  BY <4>3, <4>4
    <3> DEFINE c == Cardinality(R)
               g == [n \in 1..c + 1 |-> IF n = c + 1 THEN k ELSE f[n]]
    <3>5. c \in Nat /\ Cardinality(Q) = c + 1 /\ \A n \in 1..c : f[n] \in R /\ f[n] < k
      <4>1. \A r \in R : r < k
        BY <3>1
      <4>2. \A n \in 1..c : f[n] \in R
        BY <3>3
      <4> HIDE DEF R
      <4> QED  BY <3>4, <4>1, <4>2
    <3> HIDE DEF c
    <3>6. DOMAIN f = 1..c
      BY <3>3 DEF c
    <3>7. g \in [1..c + 1 -> Q]
      <4>1. \A n \in 1..c + 1 : n # c + 1 => n \in 1..c
        BY <3>5
      <4>2. R \in SUBSET Q
        OBVIOUS
      <4> HIDE DEF R
      <4>3. \A n \in 1..c + 1 : (IF n = c + 1 THEN k ELSE f[n]) \in Q
        BY <2>5, <3>5, <4>1, <4>2
      <4> QED  BY <4>3
    <3>8. Ordered(g)
      <4> SUFFICES ASSUME NEW m \in 1..c + 1, NEW n \in 1..c + 1, m < n PROVE g[m] < g[n]
        OBVIOUS
      <4>1. m \in 1..c /\ g[m] = f[m]
        BY <3>5
      <4>2. CASE n = c + 1
        BY <3>5, <4>1, <4>2
      <4>3. CASE n # c + 1
        <5>1. n \in 1..c /\ g[n] = f[n]
          BY <3>5, <4>3
        <5> HIDE DEF g
        <5> QED  BY <3>3, <3>6, <4>1, <5>1
      <4> QED  BY <4>2, <4>3
    <3> HIDE DEF g
    <3> QED  BY <2>3, <3>5, <3>7, <3>8
  <2> QED  BY <2>4, <2>5
<1>2. ~Fails(N)
  BY <1>1
<1> QED  BY <1>2

LEMMA FrontFacts ==
  ASSUME NEW T, NEW s \in Seq(T), Len(s) > 0
  PROVE  /\ Front(s) \in Seq(T) /\ Len(Front(s)) = Len(s) - 1 /\ Len(s) - 1 \in Nat
         /\ \A n \in 1..Len(s) - 1 : Front(s)[n] = s[n]
<1> DEFINE k == Len(s) - 1
<1>1. Len(s) \in Nat /\ k \in Nat /\ k <= Len(s)
  BY LenProperties
<1>2. \A n \in 1..k : s[n] \in T
  BY <1>1, ElementOfSeq
<1>3. Front(s) = SubSeq(s, 1, k)
  BY DEF Front
<1> HIDE DEF k
<1>4. /\ SubSeq(s, 1, k) \in Seq(T) /\ Len(SubSeq(s, 1, k)) = IF 1 <= k THEN k - 1 + 1 ELSE 0
      /\ \A n \in 1..k - 1 + 1 : SubSeq(s, 1, k)[n] = s[1 + n - 1]
  BY <1>1, <1>2, SubSeqProperties
<1>5. Len(SubSeq(s, 1, k)) = k /\ \A n \in 1..k : SubSeq(s, 1, k)[n] = s[n]
  BY <1>1, <1>4
<1> QED  BY <1>1, <1>3, <1>4, <1>5 DEF k

LEMMA FrontOfAppend ==
  ASSUME NEW T, NEW s \in Seq(T), NEW x \in T
  PROVE  /\ Append(s, x) \in Seq(T) /\ Len(Append(s, x)) = Len(s) + 1
         /\ Front(Append(s, x)) = s /\ Last(Append(s, x)) = x
<1> DEFINE a == Append(s, x)
<1>1. /\ a \in Seq(T) /\ Len(s) \in Nat /\ Len(a) = Len(s) + 1 /\ a[Len(s) + 1] = x
      /\ \A n \in 1..Len(s) : a[n] = s[n]
  BY AppendProperties, LenProperties
<1> HIDE DEF a
<1>2. /\ Front(a) \in Seq(T) /\ Len(Front(a)) = Len(s)
      /\ \A n \in 1..Len(s) : Front(a)[n] = s[n]
  BY <1>1, FrontFacts
<1>3. Front(a) = s
  BY <1>2, SeqEqual
<1>4. Last(a) = x
  BY <1>1 DEF Last
<1> QED  BY <1>1, <1>3, <1>4 DEF a

\* Fewer positions, fewer local commits.
LEMMA LocalBounds ==
  ASSUME NEW log \in Seq(Commits), NEW branch
  PROVE  /\ LocalIn(log, branch) \in SUBSET (1..Len(log)) /\ IsFiniteSet(LocalIn(log, branch))
         /\ Cardinality(LocalIn(log, branch)) \in Nat
         /\ \A P \in SUBSET LocalIn(log, branch) :
              IsFiniteSet(P) /\ Cardinality(P) \in Nat /\ Cardinality(P) <= Cardinality(LocalIn(log, branch))
<1>1. Len(log) \in Nat /\ DOMAIN log = 1..Len(log)
  BY LenProperties
<1>2. LocalIn(log, branch) \in SUBSET (1..Len(log))
  BY <1>1 DEF LocalIn
<1>3. IsFiniteSet(1..Len(log))
  BY <1>1, FS_Interval
<1>4. IsFiniteSet(LocalIn(log, branch))
  BY <1>2, <1>3, FS_Subset
<1>5. Cardinality(LocalIn(log, branch)) \in Nat
  BY <1>4, FS_CardinalityType
<1>6. ASSUME NEW P \in SUBSET LocalIn(log, branch)
      PROVE  IsFiniteSet(P) /\ Cardinality(P) \in Nat /\ Cardinality(P) <= Cardinality(LocalIn(log, branch))
  BY <1>4, FS_Subset, FS_CardinalityType
<1> QED  BY <1>2, <1>4, <1>5, <1>6

\* git reset takes a commit of the branch away, or a local one.
LEMMA BaseShorter ==
  ASSUME NEW base \in Seq(Commits), NEW branch \in Seq(Commits), NEW died \in Nat,
         NEW length \in Nat, NEW taken \in Nat, Len(base) > 0,
         OnBranch(base, branch, died, length, taken)
  PROVE  OnBranch(Front(base), branch, died, length, taken + 1)
<1> DEFINE f == Front(base)
<1>1. /\ f \in Seq(Commits) /\ Len(f) = Len(base) - 1 /\ Len(base) - 1 \in Nat
      /\ \A n \in 1..Len(base) - 1 : f[n] = base[n]
      /\ Len(branch) \in Nat /\ DOMAIN f = 1..Len(f) /\ DOMAIN base = 1..Len(base)
  BY FrontFacts, LenProperties
<1> HIDE DEF f
<1>2. LocalIn(f, branch) \in SUBSET LocalIn(base, branch)
  BY <1>1 DEF LocalIn
<1>3. Cardinality(LocalIn(f, branch)) <= died
  <2>1. /\ Cardinality(LocalIn(f, branch)) <= Cardinality(LocalIn(base, branch))
        /\ Cardinality(LocalIn(f, branch)) \in Nat /\ Cardinality(LocalIn(base, branch)) \in Nat
    BY <1>2, LocalBounds
  <2> QED  BY <2>1 DEF OnBranch
<1>4. \A n \in 1..length - (taken + 1) : n <= Len(f) /\ f[n] = branch[n]
  <2> SUFFICES ASSUME NEW n \in 1..length - (taken + 1) PROVE n <= Len(f) /\ f[n] = branch[n]
    OBVIOUS
  <2>1. n \in 1..length - taken /\ n + 1 \in 1..length - taken
    OBVIOUS
  <2>2. n + 1 <= Len(base) /\ base[n] = branch[n]
    BY <2>1 DEF OnBranch
  <2> QED  BY <1>1, <2>2
<1>5. died = 0 => Len(f) <= Len(branch) /\ \A n \in 1..Len(f) : f[n] = branch[n]
  BY <1>1 DEF OnBranch
<1> QED  BY <1>3, <1>4, <1>5 DEF OnBranch, f

\* A build that dies leaves its change behind.
LEMMA BaseLonger ==
  ASSUME NEW base \in Seq(Commits), NEW branch \in Seq(Commits), NEW died \in Nat,
         NEW length \in Nat, NEW taken \in Nat, Len(base) > 0,
         OnBranch(Front(base), branch, died, length, taken)
  PROVE  OnBranch(base, branch, died + 1, length, taken)
<1> DEFINE f == Front(base)
<1>1. /\ f \in Seq(Commits) /\ Len(f) = Len(base) - 1 /\ Len(base) - 1 \in Nat
      /\ \A n \in 1..Len(base) - 1 : f[n] = base[n]
      /\ Len(branch) \in Nat /\ DOMAIN f = 1..Len(f) /\ DOMAIN base = 1..Len(base)
  BY FrontFacts, LenProperties
<1> HIDE DEF f
<1>2. Cardinality(LocalIn(base, branch)) <= died + 1
  <2> DEFINE P == LocalIn(base, branch) \ {Len(base)}
  <2>1. P \in SUBSET LocalIn(f, branch)
    BY <1>1 DEF LocalIn
  <2>2. Cardinality(P) <= Cardinality(LocalIn(f, branch)) /\ Cardinality(P) \in Nat
        /\ Cardinality(LocalIn(f, branch)) \in Nat
    <3> HIDE DEF P
    <3> QED  BY <1>1, <2>1, LocalBounds
  <2>3. IsFiniteSet(LocalIn(base, branch)) /\ Cardinality(LocalIn(base, branch)) \in Nat
    BY LocalBounds
  <2>4. Cardinality(LocalIn(base, branch)) <= Cardinality(P) + 1
    <3> DEFINE Q == LocalIn(base, branch)
               k == Len(base)
    <3>1. Q \in SUBSET (1..Len(base)) /\ IsFiniteSet(Q) /\ Cardinality(Q) \in Nat
      BY LocalBounds
    <3> HIDE DEF Q, k
    <3>2. Cardinality(Q \ {k}) = IF k \in Q THEN Cardinality(Q) - 1 ELSE Cardinality(Q)
      BY <3>1, FS_RemoveElement
    <3>3. Cardinality(Q) <= Cardinality(Q \ {k}) + 1
      BY <3>1, <3>2
    <3> QED  BY <3>3 DEF Q, k
  <2>5. Cardinality(LocalIn(f, branch)) <= died
    BY DEF OnBranch, f
  <2> HIDE DEF P
  <2> QED  BY <2>2, <2>3, <2>4, <2>5
<1>3. \A n \in 1..length - taken : n <= Len(base) /\ base[n] = branch[n]
  <2> SUFFICES ASSUME NEW n \in 1..length - taken PROVE n <= Len(base) /\ base[n] = branch[n]
    OBVIOUS
  <2>1. n <= Len(f) /\ f[n] = branch[n]
    BY DEF OnBranch, f
  <2> QED  BY <1>1, <2>1
<1>4. length <= Len(branch) /\ died + 1 # 0
  BY DEF OnBranch
<1> QED  BY <1>2, <1>3, <1>4 DEF OnBranch

\* Other builds die, and a change may be submitted.
LEMMA BaseStays ==
  ASSUME NEW base \in Seq(Commits), NEW branch \in Seq(Commits), NEW longer \in Seq(Commits),
         NEW died \in Nat, NEW more \in Nat, NEW length \in Nat, NEW taken \in Nat, died <= more,
         Len(branch) <= Len(longer), \A n \in 1..Len(branch) : longer[n] = branch[n],
         OnBranch(base, branch, died, length, taken)
  PROVE  OnBranch(base, longer, more, length, taken)
<1>1. /\ Len(base) \in Nat /\ Len(branch) \in Nat /\ Len(longer) \in Nat
      /\ DOMAIN base = 1..Len(base)
  BY LenProperties
<1>2. LocalIn(base, longer) \in SUBSET LocalIn(base, branch)
  BY <1>1 DEF LocalIn, Contains
<1>3. Cardinality(LocalIn(base, longer)) <= more
  <2>1. /\ Cardinality(LocalIn(base, longer)) <= Cardinality(LocalIn(base, branch))
        /\ Cardinality(LocalIn(base, longer)) \in Nat /\ Cardinality(LocalIn(base, branch)) \in Nat
    BY <1>2, LocalBounds
  <2> QED  BY <2>1 DEF OnBranch
<1>4. \A n \in 1..length - taken : n <= Len(base) /\ base[n] = longer[n]
  <2> SUFFICES ASSUME NEW n \in 1..length - taken PROVE n <= Len(base) /\ base[n] = longer[n]
    OBVIOUS
  <2>1. n <= Len(base) /\ base[n] = branch[n] /\ n \in 1..Len(branch)
    BY <1>1 DEF OnBranch
  <2> QED  BY <2>1
<1>5. more = 0 => Len(base) <= Len(longer) /\ \A n \in 1..Len(base) : base[n] = longer[n]
  BY <1>1 DEF OnBranch
<1> QED  BY <1>1, <1>3, <1>4, <1>5 DEF OnBranch

\* git pull --rebase: the branch, with local commits on top of it.
LEMMA BaseRebased ==
  ASSUME NEW branch \in Seq(Commits), NEW local \in Seq(Commits), NEW died \in Nat,
         Len(local) <= died, NEW taken \in Nat
  PROVE  OnBranch(branch \o local, branch, died, Len(branch), taken)
<1> DEFINE b == branch \o local
           P == Len(branch) + 1..Len(branch) + Len(local)
<1>1. /\ b \in Seq(Commits) /\ Len(branch) \in Nat /\ Len(local) \in Nat
      /\ Len(b) = Len(branch) + Len(local) /\ DOMAIN b = 1..Len(b)
      /\ \A n \in 1..Len(branch) : b[n] = branch[n]
  <2>1. /\ branch \o local \in Seq(Commits) /\ Len(branch) \in Nat /\ Len(local) \in Nat
        /\ Len(branch \o local) = Len(branch) + Len(local)
        /\ \A n \in 1..Len(branch) + Len(local) :
             (branch \o local)[n] = IF n <= Len(branch) THEN branch[n] ELSE local[n - Len(branch)]
    BY ConcatProperties, LenProperties
  <2> QED  BY <2>1, LenProperties
<1> HIDE DEF b
<1>2. LocalIn(b, branch) \in SUBSET P
  <2> SUFFICES ASSUME NEW n \in LocalIn(b, branch) PROVE n \in P
    OBVIOUS
  <2>1. n \in 1..Len(b) /\ ~Contains(branch, b[n])
    BY <1>1 DEF LocalIn
  <2>2. n \notin 1..Len(branch)
    BY <1>1, <2>1 DEF Contains
  <2> QED  BY <1>1, <2>1, <2>2
<1>3. IsFiniteSet(P) /\ Cardinality(P) = Len(local)
  <2> DEFINE a == Len(branch) + 1
             z == Len(branch) + Len(local)
  <2>1. a \in Int /\ z \in Int /\ Len(local) = IF a > z THEN 0 ELSE z - a + 1
    BY <1>1
  <2> HIDE DEF a, z
  <2>2. IsFiniteSet(a..z) /\ Cardinality(a..z) = IF a > z THEN 0 ELSE z - a + 1
    BY <2>1, FS_Interval
  <2> QED  BY <2>1, <2>2 DEF a, z
<1>4. Cardinality(LocalIn(b, branch)) <= Len(local) /\ Cardinality(LocalIn(b, branch)) \in Nat
  <2> HIDE DEF P
  <2> QED  BY <1>1, <1>2, <1>3, FS_Subset, LocalBounds
<1> QED  BY <1>1, <1>4 DEF OnBranch, b

\* What is local is a sequence with one commit for each of its positions.
LEMMA LocalFacts ==
  ASSUME NEW log \in Seq(Commits)
  PROVE  Local(log) \in Seq(Commits) /\ Len(Local(log)) = Cardinality(LocalAt(log))
<1> DEFINE P == LocalAt(log)
           Orders(f) == \A m, n \in DOMAIN f : m < n => f[m] < f[n]
           at == CHOOSE f \in [1..Cardinality(P) -> P] : Orders(f)
<1>1. P \in SUBSET (1..Len(log)) /\ Cardinality(P) \in Nat /\ Len(log) \in Nat
  BY LocalBounds, LenProperties DEF LocalIn, LocalAt
<1>2. \E f \in [1..Cardinality(P) -> P] : Orders(f)
  <2> HIDE DEF P
  <2> QED  BY <1>1, Listed
<1>3. at \in [1..Cardinality(P) -> P]
  BY <1>2
<1>4. Local(log) = [n \in DOMAIN at |-> log[at[n]]]
  BY DEF Local
<1> HIDE DEF P, at
<1>5. \A n \in 1..Cardinality(P) : log[at[n]] \in Commits
  BY <1>1, <1>3, ElementOfSeq
<1>6. Local(log) \in [1..Cardinality(P) -> Commits]
  BY <1>3, <1>4, <1>5
<1>7. Local(log) \in Seq(Commits) /\ Len(Local(log)) = Cardinality(P)
  BY <1>1, <1>6, SeqDef, LenProperties, Z3
<1> QED  BY <1>7 DEF P

LEMMA BaseType ==
  ASSUME NEW space \in Workspace, NEW work \in Work, InPlace(space, work)
  PROVE  space.log \in Seq(Commits) /\ BaseOf(space, work) \in Seq(Commits)
<1>1. space.log \in Seq(Commits)
  BY DEF Workspace
<1>2. CASE Holding(work)
  <2>1. Len(space.log) > 0
    BY <1>1, <1>2, LenProperties DEF InPlace
  <2> QED  BY <1>1, <1>2, <2>1, FrontFacts DEF BaseOf
<1>3. CASE ~Holding(work)
  BY <1>1, <1>3 DEF BaseOf
<1> QED  BY <1>1, <1>2, <1>3

LEMMA WorkspaceTypes ==
  ASSUME WorkspaceInv, NEW w \in Workspaces
  PROVE  /\ upstream \in Seq(Commits) /\ Len(upstream) \in Nat /\ Len(upstream) > 0
         /\ ws[w] \in Workspace /\ ws[w].log \in Seq(Commits) /\ ws[w].repo \in BOOLEAN
         /\ ws[w].conflict \in BOOLEAN /\ ws[w].rebasing \in BOOLEAN
         /\ build[w] \in Work /\ build[w].number \in Nat /\ build[w].tries \in Nat
         /\ build[w].change \in Changes \cup {"none"}
         /\ build[w].picked \in BOOLEAN /\ build[w].ok \in BOOLEAN
         /\ number \in Nat /\ deaths \in Nat /\ pulled[w] \in Nat /\ lost[w] \in Nat
         /\ verified \in SUBSET (Changes \cup {"none"})
         /\ InPlace(ws[w], build[w])
         /\ OnBranch(BaseOf(ws[w], build[w]), upstream, deaths, pulled[w], lost[w])
         /\ BaseOf(ws[w], build[w]) \in Seq(Commits)
<1>1. /\ upstream \in Seq(Commits) /\ Len(upstream) > 0 /\ ws[w] \in Workspace /\ build[w] \in Work
      /\ number \in Nat /\ deaths \in Nat /\ pulled[w] \in Nat /\ lost[w] \in Nat
      /\ verified \in SUBSET (Changes \cup {"none"})
  BY DEF WorkspaceInv, WorkspaceTypeOK
<1>2. Kept(ws[w], build[w], upstream, deaths, pulled[w], lost[w])
  BY DEF WorkspaceInv
<1>3. Len(upstream) \in Nat
  BY <1>1, LenProperties
<1>4. /\ ws[w].log \in Seq(Commits) /\ ws[w].repo \in BOOLEAN
      /\ ws[w].conflict \in BOOLEAN /\ ws[w].rebasing \in BOOLEAN
  BY <1>1 DEF Workspace
<1>5. /\ build[w].number \in Nat /\ build[w].tries \in Nat /\ build[w].change \in Changes \cup {"none"}
      /\ build[w].picked \in BOOLEAN /\ build[w].ok \in BOOLEAN
  BY <1>1 DEF Work
<1>6. BaseOf(ws[w], build[w]) \in Seq(Commits)
  BY <1>1, <1>2, BaseType DEF Kept
<1> QED  BY <1>1, <1>2, <1>3, <1>4, <1>5, <1>6 DEF Kept

\* What a step of one workspace makes of it.
Becoming(w, space, work, length, taken) ==
  /\ ws' = [ws EXCEPT ![w] = space] /\ build' = [build EXCEPT ![w] = work]
  /\ pulled' = [pulled EXCEPT ![w] = length] /\ lost' = [lost EXCEPT ![w] = taken]

\* The other workspaces do not notice.
LEMMA OthersKept ==
  ASSUME WorkspaceInv, NEW w \in Workspaces, NEW space \in Workspace, NEW work \in Work,
         NEW length \in Nat, NEW taken \in Nat, Becoming(w, space, work, length, taken),
         upstream' = upstream, deaths' \in {deaths, deaths + 1}, number' \in Nat,
         verified' \in SUBSET (Changes \cup {"none"}),
         Kept(space, work, upstream, deaths', length, taken)
  PROVE  WorkspaceInv'
<1>1. /\ upstream \in Seq(Commits) /\ Len(upstream) \in Nat /\ Len(upstream) > 0 /\ deaths \in Nat
  BY WorkspaceTypes
<1>2. deaths' \in Nat /\ deaths <= deaths'
  BY <1>1
<1>3. WorkspaceTypeOK'
  BY <1>1, <1>2 DEF WorkspaceInv, WorkspaceTypeOK, Becoming
<1>4. ASSUME NEW v \in Workspaces
      PROVE  Kept(ws'[v], build'[v], upstream, deaths', pulled'[v], lost'[v])
  <2>1. CASE v = w
    <3>1. ws'[w] = space /\ build'[w] = work /\ pulled'[w] = length /\ lost'[w] = taken
      BY DEF WorkspaceInv, WorkspaceTypeOK, Becoming
    <3> QED  BY <2>1, <3>1
  <2>2. CASE v # w
    <3>1. /\ ws'[v] = ws[v] /\ build'[v] = build[v] /\ pulled'[v] = pulled[v] /\ lost'[v] = lost[v]
      BY <2>2 DEF WorkspaceInv, WorkspaceTypeOK, Becoming
    <3> DEFINE base == BaseOf(ws[v], build[v])
    <3>2. /\ base \in Seq(Commits) /\ pulled[v] \in Nat /\ lost[v] \in Nat
          /\ OnBranch(base, upstream, deaths, pulled[v], lost[v]) /\ InPlace(ws[v], build[v])
      BY WorkspaceTypes
    <3> HIDE DEF base
    <3>3. OnBranch(base, upstream, deaths', pulled[v], lost[v])
      BY <1>1, <1>2, <3>2, BaseStays
    <3> QED  BY <3>1, <3>2, <3>3 DEF Kept, base
  <2> QED  BY <2>1, <2>2
<1> QED  BY <1>3, <1>4 DEF WorkspaceInv

\* A step that leaves the log alone, and what the change is checked on.
LEMMA BaseAlone ==
  ASSUME WorkspaceInv, NEW w \in Workspaces, NEW space, NEW work, space.log = ws[w].log,
         Holding(work) <=> Holding(build[w])
  PROVE  OnBranch(BaseOf(space, work), upstream, deaths, pulled[w], lost[w])
<1>1. BaseOf(space, work) = BaseOf(ws[w], build[w])
  BY DEF BaseOf
<1> QED  BY <1>1, WorkspaceTypes

LEMMA StartBuildKept ==
  ASSUME WorkspaceInv, NEW w \in Workspaces, NEW c \in Changes, StartBuild(w, c)
  PROVE  WorkspaceInv'
<1> DEFINE work == [Idle EXCEPT !.at = "prepare", !.number = number + 1, !.change = c, !.tries = 1]
<1>1. Becoming(w, ws[w], work, pulled[w], lost[w])
  BY DEF StartBuild, Becoming, WorkspaceInv, WorkspaceTypeOK
<1>2. /\ work \in Work /\ work.at = "prepare" /\ work.change = c /\ ~work.picked /\ ~work.ok
  <2>1. number + 1 \in Nat
    BY WorkspaceTypes
  <2>2. Idle \in Work
    BY DEF Idle, Work
  <2>3. work \in Work
    BY <2>1, <2>2 DEF Work
  <2>4. work.at = "prepare" /\ work.change = c /\ ~work.picked /\ ~work.ok
    BY DEF Idle
  <2> QED  BY <2>3, <2>4
<1> HIDE DEF work
<1>3. ~Holding(work) /\ ~Holding(build[w])
  BY <1>2 DEF Holding, StartBuild, At
<1>4. InPlace(ws[w], work)
  BY <1>2, <1>3, WorkspaceTypes DEF InPlace
<1>5. OnBranch(BaseOf(ws[w], work), upstream, deaths, pulled[w], lost[w])
  BY <1>3, BaseAlone
<1>6. /\ upstream' = upstream /\ deaths' = deaths /\ number' \in Nat
      /\ verified' \in SUBSET (Changes \cup {"none"})
  BY WorkspaceTypes DEF StartBuild
<1>7. Kept(ws[w], work, upstream, deaths', pulled[w], lost[w])
  BY <1>4, <1>5, <1>6 DEF Kept
<1> QED  BY <1>1, <1>2, <1>6, <1>7, WorkspaceTypes, OthersKept

LEMMA CloneKept ==
  ASSUME WorkspaceInv, NEW w \in Workspaces, Clone(w)
  PROVE  WorkspaceInv'
<1> DEFINE space == [Empty EXCEPT !.repo = TRUE, !.log = upstream]
           work == [build[w] EXCEPT !.at = "check"]
<1>1. Becoming(w, space, work, Len(upstream), lost[w])
  BY DEF Clone, Becoming, WorkspaceInv, WorkspaceTypeOK, Goes
<1>2. space \in Workspace /\ space.log = upstream
  <2>1. Empty \in Workspace
    BY EmptySeq DEF Empty, Workspace
  <2>2. space \in Workspace
    BY <2>1, WorkspaceTypes DEF Workspace
  <2>3. space.log = upstream
    BY DEF Empty
  <2> QED  BY <2>2, <2>3
<1>3. /\ work \in Work /\ work.at = "check" /\ work.number = 1 /\ ~work.picked
      /\ work.change \in Changes
  BY WorkspaceTypes DEF Work, Clone, At, InPlace
<1> HIDE DEF space, work
<1>4. InPlace(space, work)
  BY <1>2, <1>3, WorkspaceTypes DEF InPlace, Holding
<1>5. OnBranch(upstream, upstream, deaths, Len(upstream), lost[w])
  <2>1. <<>> \in Seq(Commits) /\ Len(<<>>) = 0 /\ upstream \o <<>> = upstream
    BY WorkspaceTypes, EmptySeq, ConcatEmptySeq
  <2>2. OnBranch(upstream \o <<>>, upstream, deaths, Len(upstream), lost[w])
    <3> DEFINE none == <<>>
    <3>1. /\ upstream \in Seq(Commits) /\ none \in Seq(Commits) /\ deaths \in Nat
          /\ Len(none) <= deaths /\ lost[w] \in Nat
      BY <2>1, WorkspaceTypes
    <3> HIDE DEF none
    <3>2. OnBranch(upstream \o none, upstream, deaths, Len(upstream), lost[w])
      BY <3>1, BaseRebased
    <3> QED  BY <3>2 DEF none
  <2> QED  BY <2>1, <2>2
<1>6. /\ upstream' = upstream /\ deaths' = deaths /\ number' \in Nat
      /\ verified' \in SUBSET (Changes \cup {"none"})
  BY WorkspaceTypes DEF Clone
<1>7. Kept(space, work, upstream, deaths', Len(upstream), lost[w])
  BY <1>2, <1>3, <1>4, <1>5, <1>6 DEF Kept, BaseOf, Holding
<1> QED  BY <1>1, <1>2, <1>3, <1>6, <1>7, WorkspaceTypes, OthersKept

LEMMA CherryPickKept ==
  ASSUME WorkspaceInv, NEW w \in Workspaces, CherryPick(w)
  PROVE  WorkspaceInv'
<1> DEFINE c == build[w].change
           log == ws[w].log
           space == [ws[w] EXCEPT !.log = Append(log, c)]
           work == [build[w] EXCEPT !.at = "check", !.picked = TRUE]
<1>1. Becoming(w, space, work, pulled[w], lost[w])
  BY DEF CherryPick, Becoming, WorkspaceInv, WorkspaceTypeOK
<1>2. /\ c \in Changes /\ log \in Seq(Commits) /\ ~Holding(build[w]) /\ ws[w].repo
      /\ ~build[w].ok
  BY WorkspaceTypes DEF CherryPick, At, InPlace, Holding
<1>3. /\ Append(log, c) \in Seq(Commits) /\ Len(Append(log, c)) = Len(log) + 1
      /\ Front(Append(log, c)) = log /\ Last(Append(log, c)) = c
  <2>1. c \in Commits
    BY <1>2 DEF Commits
  <2> QED  BY <1>2, <2>1, FrontOfAppend
<1>4. space \in Workspace /\ space.log = Append(log, c) /\ space.repo
  BY <1>2, <1>3, WorkspaceTypes DEF Workspace
<1>5. /\ work \in Work /\ work.at = "check" /\ work.picked /\ ~work.ok
      /\ work.change = c /\ Holding(work)
  BY <1>2, WorkspaceTypes DEF Work, Holding
<1>6. Len(log) \in Nat /\ Len(log) > 0
  BY <1>2, WorkspaceTypes, LenProperties DEF InPlace
<1> HIDE DEF space, work
<1>7. InPlace(space, work)
  BY <1>2, <1>3, <1>4, <1>5, <1>6 DEF InPlace
<1>8. BaseOf(space, work) = BaseOf(ws[w], build[w])
  BY <1>2, <1>3, <1>4, <1>5 DEF BaseOf
<1>9. /\ upstream' = upstream /\ deaths' = deaths /\ number' \in Nat
      /\ verified' \in SUBSET (Changes \cup {"none"})
  BY WorkspaceTypes DEF CherryPick
<1>10. Kept(space, work, upstream, deaths', pulled[w], lost[w])
  BY <1>7, <1>8, <1>9, WorkspaceTypes DEF Kept
<1> QED  BY <1>1, <1>4, <1>5, <1>9, <1>10, WorkspaceTypes, OthersKept

LEMMA PrepareFailsKept ==
  ASSUME WorkspaceInv, NEW w \in Workspaces, PrepareFails(w)
  PROVE  WorkspaceInv'
<1> DEFINE again == [build[w] EXCEPT !.tries = @ + 1]
           failed == [build[w] EXCEPT !.at = "post"]
           unmerged == [ws[w] EXCEPT !.conflict = TRUE]
<1>1. PICK space \in {ws[w], unmerged}, work \in {again, failed} :
        Becoming(w, space, work, pulled[w], lost[w])
  BY DEF PrepareFails, Becoming, WorkspaceInv, WorkspaceTypeOK
<1>2. /\ build[w].at = "prepare" /\ ~build[w].picked /\ ~build[w].ok /\ build[w].change \in Changes
  BY WorkspaceTypes DEF PrepareFails, At, InPlace
<1>3. /\ space \in Workspace /\ space.log = ws[w].log /\ space.repo = ws[w].repo
  <2>1. CASE space = ws[w]
    BY <2>1, WorkspaceTypes
  <2>2. CASE space = unmerged
    BY <2>2, WorkspaceTypes DEF Workspace
  <2> QED  BY <1>1, <2>1, <2>2
<1>4. /\ work \in Work /\ work.at \in {"prepare", "post"} /\ ~work.picked /\ ~work.ok
      /\ work.change \in Changes
  <2>1. CASE work = again
    <3>1. build[w] \in Work /\ build[w].tries + 1 \in Nat
      BY WorkspaceTypes
    <3>2. again \in Work
      BY <3>1 DEF Work
    <3>3. /\ again.at = build[w].at /\ again.picked = build[w].picked /\ again.ok = build[w].ok
          /\ again.change = build[w].change
      BY <3>1, SMTT(20) DEF Work
    <3> HIDE DEF again
    <3> QED  BY <1>2, <2>1, <3>2, <3>3
  <2>2. CASE work = failed
    BY <1>2, <2>2, WorkspaceTypes DEF Work
  <2> QED  BY <1>1, <2>1, <2>2
<1> HIDE DEF again, failed, unmerged
<1>5. ~Holding(work) /\ ~Holding(build[w])
  BY <1>2, <1>4 DEF Holding
<1>6. InPlace(space, work)
  BY <1>3, <1>4, <1>5, WorkspaceTypes DEF InPlace
<1>7. OnBranch(BaseOf(space, work), upstream, deaths, pulled[w], lost[w])
  BY <1>3, <1>5, BaseAlone
<1>8. /\ upstream' = upstream /\ deaths' = deaths /\ number' \in Nat
      /\ verified' \in SUBSET (Changes \cup {"none"})
  BY WorkspaceTypes DEF PrepareFails
<1>9. Kept(space, work, upstream, deaths', pulled[w], lost[w])
  BY <1>6, <1>7, <1>8 DEF Kept
<1> QED  BY <1>1, <1>3, <1>4, <1>8, <1>9, WorkspaceTypes, OthersKept

\* The build goes on with its workspace as it is, as far as the log goes.
LEMMA GoesOn ==
  ASSUME WorkspaceInv, NEW w \in Workspaces, NEW work \in Work, InPlace(ws[w], work),
         Becoming(w, ws[w], work, pulled[w], lost[w]), Holding(work) <=> Holding(build[w]),
         upstream' = upstream, deaths' = deaths, number' = number,
         verified' \in SUBSET (Changes \cup {"none"})
  PROVE  WorkspaceInv'
<1>1. OnBranch(BaseOf(ws[w], work), upstream, deaths, pulled[w], lost[w])
  BY BaseAlone
<1>2. Kept(ws[w], work, upstream, deaths', pulled[w], lost[w])
  BY <1>1 DEF Kept
<1> QED  BY <1>2, WorkspaceTypes, OthersKept

LEMMA CheckKept ==
  ASSUME WorkspaceInv, NEW w \in Workspaces, NEW lint \in BOOLEAN, Check(w, lint)
  PROVE  WorkspaceInv'
<1> DEFINE work == [build[w] EXCEPT !.at = "post", !.ok = lint]
<1>1. Becoming(w, ws[w], work, pulled[w], lost[w])
  BY DEF Check, Becoming, WorkspaceInv, WorkspaceTypeOK
<1>2. /\ work \in Work /\ work.at = "post" /\ work.picked = build[w].picked
      /\ work.change = build[w].change /\ work.number = build[w].number /\ build[w].at = "check"
  BY WorkspaceTypes DEF Work, Check, At
<1> HIDE DEF work
<1>3. Holding(work) <=> Holding(build[w])
  BY <1>2 DEF Holding
<1>4. InPlace(ws[w], work)
  BY <1>2, <1>3, WorkspaceTypes DEF InPlace
<1> QED  BY <1>1, <1>2, <1>3, <1>4, WorkspaceTypes, GoesOn DEF Check

LEMMA AbortKept ==
  ASSUME WorkspaceInv, NEW w \in Workspaces, Abort(w)
  PROVE  WorkspaceInv'
<1> DEFINE work == [build[w] EXCEPT !.at = "reset"]
<1>1. Becoming(w, ws[w], work, pulled[w], lost[w])
  BY DEF Abort, Goes, Becoming, WorkspaceInv, WorkspaceTypeOK
<1>2. /\ work \in Work /\ work.at = "reset" /\ work.picked = build[w].picked
      /\ work.change = build[w].change /\ build[w].at \in {"prepare", "check"}
  BY WorkspaceTypes DEF Work, Abort
<1> HIDE DEF work
<1>3. Holding(work) <=> Holding(build[w])
  BY <1>2, WorkspaceTypes DEF Holding, InPlace
<1>4. InPlace(ws[w], work)
  BY <1>2, <1>3, WorkspaceTypes DEF InPlace
<1> QED  BY <1>1, <1>2, <1>3, <1>4, WorkspaceTypes, GoesOn DEF Abort

LEMMA VoteKept ==
  ASSUME WorkspaceInv, NEW w \in Workspaces, Vote(w)
  PROVE  WorkspaceInv'
<1> DEFINE work == [build[w] EXCEPT !.at = "reset"]
<1>1. Becoming(w, ws[w], work, pulled[w], lost[w])
  BY DEF Vote, Goes, Becoming, WorkspaceInv, WorkspaceTypeOK
<1>2. /\ work \in Work /\ work.at = "reset" /\ work.picked = build[w].picked
      /\ work.change = build[w].change /\ build[w].at = "post"
  BY WorkspaceTypes DEF Work, Vote, At
<1>3. verified' \in SUBSET (Changes \cup {"none"})
  BY WorkspaceTypes DEF Vote
<1> HIDE DEF work
<1>4. Holding(work) <=> Holding(build[w])
  BY <1>2 DEF Holding
<1>5. InPlace(ws[w], work)
  BY <1>2, <1>4, WorkspaceTypes DEF InPlace
<1> QED  BY <1>1, <1>2, <1>3, <1>4, <1>5, WorkspaceTypes, GoesOn DEF Vote

LEMMA IdleFacts == Idle \in Work /\ Idle.at = "idle" /\ ~Holding(Idle)
BY DEF Idle, Work, Holding

\* A build that is over, or that has died, holds nothing.
LEMMA IdleInPlace ==
  ASSUME NEW space \in Workspace, space.repo => Len(space.log) > 0
  PROVE  InPlace(space, Idle) /\ BaseOf(space, Idle) = space.log
BY IdleFacts DEF InPlace, BaseOf

LEMMA ResetKept ==
  ASSUME WorkspaceInv, NEW w \in Workspaces, Reset(w)
  PROVE  WorkspaceInv'
<1> DEFINE log == ws[w].log
<1>1. /\ build[w].at = "reset" /\ log \in Seq(Commits) /\ Len(log) \in Nat
      /\ Holding(build[w]) <=> build[w].picked
      /\ Holding(build[w]) => ws[w].repo /\ Len(log) > 1
      /\ ws[w].repo => Len(log) > 0
  BY WorkspaceTypes, LenProperties DEF Reset, At, Holding, InPlace
<1>2. /\ upstream' = upstream /\ deaths' = deaths /\ number' = number /\ verified' = verified
      /\ pulled' = pulled
  BY DEF Reset
<1>3. CASE ~ws[w].repo \/ Len(log) = 1
  <2>1. Becoming(w, ws[w], Idle, pulled[w], lost[w])
    BY <1>3 DEF Reset, Becoming, WorkspaceInv, WorkspaceTypeOK
  <2>2. ~Holding(build[w])
    <3> SUFFICES ASSUME Holding(build[w]) PROVE FALSE
      OBVIOUS
    <3> DEFINE size == Len(log)
    <3>1. ws[w].repo /\ size > 1 /\ size \in Nat
      BY <1>1
    <3>2. size = 1
      BY <1>3, <3>1
    <3> HIDE DEF size
    <3> QED  BY <3>1, <3>2
  <2>3. InPlace(ws[w], Idle)
    BY WorkspaceTypes, IdleInPlace DEF InPlace
  <2> QED  BY <1>2, <2>1, <2>2, <2>3, IdleFacts, WorkspaceTypes, GoesOn
<1>4. CASE ~(~ws[w].repo \/ Len(log) = 1)
  <2> DEFINE space == [ws[w] EXCEPT !.log = Front(log), !.conflict = FALSE]
             work == [build[w] EXCEPT !.at = "pull"]
             taken == IF build[w].picked THEN lost[w] ELSE lost[w] + 1
  <2>1. Becoming(w, space, work, pulled[w], taken)
    BY <1>4 DEF Reset, Goes, Becoming, WorkspaceInv, WorkspaceTypeOK
  <2>2. Len(log) > 1
    <3> DEFINE size == Len(log)
    <3>1. ws[w].repo /\ size # 1
      BY <1>4
    <3>2. size \in Nat /\ size > 0
      BY <1>1, <3>1
    <3>3. size > 1
      <4> HIDE DEF size
      <4> QED  BY <3>1, <3>2
    <3> QED  BY <3>3
  <2>3. Front(log) \in Seq(Commits) /\ Len(Front(log)) > 0
    BY <1>1, <2>2, FrontFacts
  <2>4. space \in Workspace /\ space.log = Front(log)
    BY <2>3, WorkspaceTypes DEF Workspace
  <2>5. work \in Work /\ work.at = "pull" /\ work.change \in Changes /\ ~Holding(work)
    BY <1>1, WorkspaceTypes DEF Work, Holding, InPlace
  <2>6. taken \in Nat
    BY WorkspaceTypes
  <2>7. InPlace(space, work)
    <3> HIDE DEF space, work
    <3> QED  BY <2>3, <2>4, <2>5 DEF InPlace
  <2>8. OnBranch(Front(log), upstream, deaths, pulled[w], taken)
    <3>1. CASE build[w].picked
      BY <1>1, <3>1, WorkspaceTypes DEF BaseOf
    <3>2. CASE ~build[w].picked
      <4>1. /\ log \in Seq(Commits) /\ upstream \in Seq(Commits) /\ deaths \in Nat
            /\ pulled[w] \in Nat /\ lost[w] \in Nat /\ Len(log) > 0
            /\ OnBranch(log, upstream, deaths, pulled[w], lost[w])
        BY <1>1, <2>2, <3>2, WorkspaceTypes DEF BaseOf
      <4> HIDE DEF log
      <4>2. OnBranch(Front(log), upstream, deaths, pulled[w], lost[w] + 1)
        BY <4>1, BaseShorter
      <4> QED  BY <3>2, <4>2 DEF log
    <3> QED  BY <3>1, <3>2
  <2> HIDE DEF space, work, taken
  <2>9. Kept(space, work, upstream, deaths', pulled[w], taken)
    BY <1>2, <2>4, <2>5, <2>7, <2>8 DEF Kept, BaseOf
  <2> QED  BY <1>2, <2>1, <2>4, <2>5, <2>6, <2>9, WorkspaceTypes, OthersKept
<1> QED  BY <1>3, <1>4

LEMMA PullKept ==
  ASSUME WorkspaceInv, NEW w \in Workspaces, Pull(w)
  PROVE  WorkspaceInv'
<1> DEFINE log == ws[w].log
           local == Local(log)
           whole == [ws[w] EXCEPT !.log = upstream \o local]
           Part(k) == [ws[w] EXCEPT !.log = upstream \o SubSeq(local, 1, k),
                                    !.conflict = TRUE, !.rebasing = TRUE]
<1>1. /\ build[w].at = "pull" /\ ~Holding(build[w]) /\ log \in Seq(Commits)
      /\ Cardinality(LocalAt(log)) <= deaths
  BY WorkspaceTypes DEF Pull, At, Holding, BaseOf, OnBranch, LocalIn, LocalAt
<1>2. local \in Seq(Commits) /\ Len(local) \in Nat /\ Len(local) <= deaths
  BY <1>1, LocalFacts, LenProperties
<1>3. /\ upstream' = upstream /\ deaths' = deaths /\ number' = number /\ verified' = verified
  BY DEF Pull
<1>4. ASSUME NEW some \in Seq(Commits), Len(some) <= deaths, NEW space \in Workspace,
             space.log = upstream \o some, ws' = [ws EXCEPT ![w] = space]
      PROVE  WorkspaceInv'
  <2>1. Becoming(w, space, Idle, Len(upstream), 0)
    BY <1>4 DEF Pull, Becoming
  <2>2. OnBranch(upstream \o some, upstream, deaths, Len(upstream), 0)
    BY <1>4, WorkspaceTypes, BaseRebased
  <2>3. Len(space.log) > 0
    <3>1. Len(upstream \o some) = Len(upstream) + Len(some) /\ Len(some) \in Nat
      BY WorkspaceTypes, ConcatProperties, LenProperties
    <3> QED  BY <1>4, <3>1, WorkspaceTypes
  <2>4. Kept(space, Idle, upstream, deaths', Len(upstream), 0)
    BY <1>3, <1>4, <2>2, <2>3, IdleInPlace DEF Kept
  <2> QED  BY <1>3, <2>1, <2>4, IdleFacts, WorkspaceTypes, OthersKept
<1>5. CASE ws' = [ws EXCEPT ![w].log = upstream \o local]
  <2>1. upstream \o local \in Seq(Commits)
    BY <1>2, WorkspaceTypes, ConcatProperties
  <2> HIDE DEF local
  <2>2. whole \in Workspace /\ whole.log = upstream \o local
    BY <2>1, WorkspaceTypes DEF Workspace
  <2>3. ws' = [ws EXCEPT ![w] = whole]
    BY <1>5
  <2> QED  BY <1>2, <1>4, <2>2, <2>3
<1>6. ASSUME NEW k \in 0..Len(local) - 1,
             ws' = [ws EXCEPT ![w].log = upstream \o SubSeq(local, 1, k),
                              ![w].conflict = TRUE, ![w].rebasing = TRUE]
      PROVE  WorkspaceInv'
  <2> HIDE DEF local
  <2> DEFINE some == SubSeq(local, 1, k)
  <2>1. some \in Seq(Commits) /\ Len(some) <= deaths
    <3>1. k \in Nat /\ k <= Len(local) /\ \A n \in 1..k : local[n] \in Commits
      BY <1>2, <1>6, ElementOfSeq
    <3>2. some \in Seq(Commits) /\ Len(some) = IF 1 <= k THEN k - 1 + 1 ELSE 0
      BY <3>1, SubSeqProperties
    <3> HIDE DEF some
    <3> QED  BY <1>2, <3>1, <3>2, WorkspaceTypes
  <2>2. upstream \o some \in Seq(Commits)
    <3> HIDE DEF some
    <3> QED  BY <2>1, WorkspaceTypes, ConcatProperties
  <2>3. Part(k) \in Workspace /\ Part(k).log = upstream \o some
    BY <2>2, WorkspaceTypes DEF Workspace
  <2>4. ws' = [ws EXCEPT ![w] = Part(k)]
    BY <1>6
  <2> HIDE DEF some, Part
  <2> QED  BY <1>4, <2>1, <2>3, <2>4
<1> QED  BY <1>5, <1>6 DEF Pull

LEMMA PullFailsKept ==
  ASSUME WorkspaceInv, NEW w \in Workspaces, PullFails(w)
  PROVE  WorkspaceInv'
<1>1. Becoming(w, ws[w], Idle, pulled[w], lost[w])
  BY DEF PullFails, Becoming, WorkspaceInv, WorkspaceTypeOK
<1>2. ~Holding(build[w])
  BY DEF PullFails, At, Holding
<1>3. InPlace(ws[w], Idle)
  BY WorkspaceTypes, IdleInPlace DEF InPlace
<1> QED  BY <1>1, <1>2, <1>3, IdleFacts, WorkspaceTypes, GoesOn DEF PullFails

LEMMA DieKept ==
  ASSUME WorkspaceInv, NEW w \in Workspaces, Die(w)
  PROVE  WorkspaceInv'
<1> DEFINE log == ws[w].log
<1>1. Becoming(w, ws[w], Idle, pulled[w], lost[w])
  BY DEF Die, Becoming, WorkspaceInv, WorkspaceTypeOK
<1>2. /\ upstream' = upstream /\ deaths' = deaths + 1 /\ number' = number /\ verified' = verified
  BY DEF Die
<1>3. /\ log \in Seq(Commits) /\ upstream \in Seq(Commits) /\ deaths \in Nat /\ deaths + 1 \in Nat
      /\ deaths <= deaths + 1 /\ \A n \in 1..Len(upstream) : upstream[n] = upstream[n]
      /\ Len(upstream) <= Len(upstream)
      /\ pulled[w] \in Nat /\ lost[w] \in Nat /\ Len(log) \in Nat /\ Len(upstream) \in Nat
  BY WorkspaceTypes, LenProperties
<1>4. OnBranch(log, upstream, deaths + 1, pulled[w], lost[w])
  <2>1. CASE Holding(build[w])
    <3>1. Len(log) > 0 /\ OnBranch(Front(log), upstream, deaths, pulled[w], lost[w])
      BY <1>3, <2>1, WorkspaceTypes DEF InPlace, BaseOf
    <3> HIDE DEF log
    <3> QED  BY <1>3, <3>1, BaseLonger
  <2>2. CASE ~Holding(build[w])
    <3>1. OnBranch(log, upstream, deaths, pulled[w], lost[w])
      BY <2>2, WorkspaceTypes DEF BaseOf
    <3> HIDE DEF log
    <3> QED  BY ONLY <1>3, <3>1, BaseStays, SMTT(20)
  <2> QED  BY <2>1, <2>2
<1>5. InPlace(ws[w], Idle) /\ BaseOf(ws[w], Idle) = log
  BY WorkspaceTypes, IdleInPlace DEF InPlace
<1>6. Kept(ws[w], Idle, upstream, deaths', pulled[w], lost[w])
  BY <1>2, <1>4, <1>5 DEF Kept
<1> QED  BY <1>1, <1>2, <1>6, IdleFacts, WorkspaceTypes, OthersKept

LEMMA SubmitKept ==
  ASSUME WorkspaceInv, NEW c \in Changes, Submit(c)
  PROVE  WorkspaceInv'
<1> DEFINE longer == Append(upstream, c)
<1>1. /\ upstream' = longer /\ ws' = ws /\ build' = build /\ number' = number
      /\ verified' = verified /\ deaths' = deaths /\ pulled' = pulled /\ lost' = lost
  BY DEF Submit
<1>2. /\ upstream \in Seq(Commits) /\ Len(upstream) \in Nat /\ deaths \in Nat /\ c \in Commits
  BY LenProperties DEF WorkspaceInv, WorkspaceTypeOK, Commits
<1>3. /\ longer \in Seq(Commits) /\ Len(longer) = Len(upstream) + 1
      /\ \A n \in 1..Len(upstream) : longer[n] = upstream[n]
      /\ Len(upstream) <= Len(longer) /\ deaths <= deaths
  BY <1>2, AppendProperties
<1> HIDE DEF longer
<1>4. WorkspaceTypeOK'
  BY <1>1, <1>2, <1>3 DEF WorkspaceInv, WorkspaceTypeOK
<1>5. ASSUME NEW w \in Workspaces
      PROVE  Kept(ws[w], build[w], longer, deaths, pulled[w], lost[w])
  <2> DEFINE base == BaseOf(ws[w], build[w])
  <2>1. /\ base \in Seq(Commits) /\ pulled[w] \in Nat /\ lost[w] \in Nat
        /\ OnBranch(base, upstream, deaths, pulled[w], lost[w]) /\ InPlace(ws[w], build[w])
    BY WorkspaceTypes
  <2> HIDE DEF base
  <2>2. OnBranch(base, longer, deaths, pulled[w], lost[w])
    BY <1>2, <1>3, <2>1, BaseStays
  <2> QED  BY <2>1, <2>2 DEF Kept, base
<1> QED  BY <1>1, <1>4, <1>5 DEF WorkspaceInv

LEMMA InitWorkspaceInv == WorkspaceInit => WorkspaceInv
<1> SUFFICES ASSUME WorkspaceInit PROVE WorkspaceInv
  OBVIOUS
<1>1. Empty \in Workspace /\ Empty.log = <<>> /\ ~Empty.repo
  BY EmptySeq DEF Empty, Workspace
<1>2. WorkspaceTypeOK
  BY <1>1, IdleFacts, WorkspaceAssumption DEF WorkspaceInit, WorkspaceTypeOK
<1>3. ASSUME NEW w \in Workspaces
      PROVE  Kept(ws[w], build[w], upstream, deaths, pulled[w], lost[w])
  <2>1. /\ ws[w] = Empty /\ build[w] = Idle /\ deaths = 0 /\ pulled[w] = 0 /\ lost[w] = 0
        /\ upstream \in Seq(Commits) /\ Len(upstream) \in Nat
    BY WorkspaceAssumption, LenProperties DEF WorkspaceInit
  <2>2. InPlace(Empty, Idle) /\ BaseOf(Empty, Idle) = <<>>
    BY <1>1, IdleInPlace
  <2> DEFINE none == <<>>
  <2>3. none \in Seq(Commits) /\ Len(none) = 0 /\ DOMAIN none = {}
    BY EmptySeq
  <2>4. LocalIn(none, upstream) = {}
    BY <2>3 DEF LocalIn
  <2>5. Cardinality(LocalIn(none, upstream)) = 0
    BY <2>4, FS_EmptySet
  <2>6. OnBranch(none, upstream, 0, 0, 0)
    <3> HIDE DEF none
    <3> QED  BY <2>1, <2>3, <2>5 DEF OnBranch
  <2> QED  BY <2>1, <2>2, <2>6 DEF Kept
<1> QED  BY <1>2, <1>3 DEF WorkspaceInv

LEMMA NextWorkspaceInv == WorkspaceInv /\ [WorkspaceNext]_workspaceVars => WorkspaceInv'
<1> SUFFICES ASSUME WorkspaceInv, [WorkspaceNext]_workspaceVars PROVE WorkspaceInv'
  OBVIOUS
<1>1. ASSUME NEW w \in Workspaces, NEW c \in Changes, StartBuild(w, c) PROVE WorkspaceInv'
  BY <1>1, StartBuildKept
<1>2. ASSUME NEW w \in Workspaces, Clone(w) PROVE WorkspaceInv'
  BY <1>2, CloneKept
<1>3. ASSUME NEW w \in Workspaces, CherryPick(w) PROVE WorkspaceInv'
  BY <1>3, CherryPickKept
<1>4. ASSUME NEW w \in Workspaces, PrepareFails(w) PROVE WorkspaceInv'
  BY <1>4, PrepareFailsKept
<1>5. ASSUME NEW w \in Workspaces, Abort(w) PROVE WorkspaceInv'
  BY <1>5, AbortKept
<1>6. ASSUME NEW w \in Workspaces, NEW lint \in BOOLEAN, Check(w, lint) PROVE WorkspaceInv'
  BY <1>6, CheckKept
<1>7. ASSUME NEW w \in Workspaces, Vote(w) PROVE WorkspaceInv'
  BY <1>7, VoteKept
<1>8. ASSUME NEW w \in Workspaces, Reset(w) PROVE WorkspaceInv'
  BY <1>8, ResetKept
<1>9. ASSUME NEW w \in Workspaces, Pull(w) PROVE WorkspaceInv'
  BY <1>9, PullKept
<1>10. ASSUME NEW w \in Workspaces, PullFails(w) PROVE WorkspaceInv'
  BY <1>10, PullFailsKept
<1>11. ASSUME NEW w \in Workspaces, Die(w) PROVE WorkspaceInv'
  BY <1>11, DieKept
<1>12. ASSUME NEW c \in Changes, Submit(c) PROVE WorkspaceInv'
  BY <1>12, SubmitKept
<1>13. CASE UNCHANGED workspaceVars
  BY <1>13 DEF workspaceVars, WorkspaceInv, WorkspaceTypeOK
<1> QED
  BY <1>1, <1>2, <1>3, <1>4, <1>5, <1>6, <1>7, <1>8, <1>9, <1>10, <1>11, <1>12, <1>13
     DEF WorkspaceNext

THEOREM WorkspaceInvariant == WorkspaceSpec => []WorkspaceInv
BY InitWorkspaceInv, NextWorkspaceInv, PTL DEF WorkspaceSpec

\* Workspaces and builds keep their types, whatever fails.
THEOREM WorkspaceTypeCorrect == WorkspaceSpec => []WorkspaceTypeOK
<1>1. WorkspaceInv => WorkspaceTypeOK
  BY DEF WorkspaceInv
<1> QED  BY WorkspaceInvariant, <1>1, PTL

\* What a build that votes +1 has in its workspace.
LEMMA CheckedFacts ==
  ASSUME WorkspaceInv, NEW w \in Workspaces, Checked(w)
  PROVE  /\ ws[w].log \in Seq(Commits) /\ Len(ws[w].log) > 1 /\ Len(ws[w].log) \in Nat
         /\ Last(ws[w].log) = build[w].change
         /\ Front(ws[w].log) \in Seq(Commits) /\ Len(Front(ws[w].log)) \in Nat
         /\ Len(Front(ws[w].log)) = Len(ws[w].log) - 1
         /\ \A n \in 1..Len(ws[w].log) - 1 : Front(ws[w].log)[n] = ws[w].log[n]
         /\ OnBranch(Front(ws[w].log), upstream, deaths, pulled[w], lost[w])
<1>1. Holding(build[w])
  BY WorkspaceTypes DEF Checked, InPlace, Holding
<1>2. /\ ws[w].log \in Seq(Commits) /\ Len(ws[w].log) > 1 /\ Len(ws[w].log) \in Nat
      /\ Last(ws[w].log) = build[w].change
  BY <1>1, WorkspaceTypes, LenProperties DEF InPlace
<1>3. /\ Front(ws[w].log) \in Seq(Commits) /\ Len(Front(ws[w].log)) \in Nat
      /\ Len(Front(ws[w].log)) = Len(ws[w].log) - 1
      /\ \A n \in 1..Len(ws[w].log) - 1 : Front(ws[w].log)[n] = ws[w].log[n]
  BY <1>2, FrontFacts
<1>4. OnBranch(Front(ws[w].log), upstream, deaths, pulled[w], lost[w])
  BY <1>1, WorkspaceTypes DEF BaseOf
<1> QED  BY <1>2, <1>3, <1>4

\* A sequence that agrees with another one as far as it goes is a prefix of it.
LEMMA Prefix ==
  ASSUME NEW s \in Seq(Commits), NEW t \in Seq(Commits), Len(s) <= Len(t),
         \A n \in 1..Len(s) : s[n] = t[n]
  PROVE  IsPrefix(s, t)
<1> DEFINE k == Len(s)
           a == SubSeq(s, 1, k)
           b == SubSeq(t, 1, k)
<1>1. /\ k \in Nat /\ Len(t) \in Nat
      /\ \A n \in 1..k : s[n] \in Commits /\ t[n] \in Commits
  BY LenProperties, ElementOfSeq
<1> HIDE DEF k
<1>2. /\ a \in Seq(Commits) /\ Len(a) = IF 1 <= k THEN k - 1 + 1 ELSE 0
      /\ \A n \in 1..k - 1 + 1 : a[n] = s[1 + n - 1]
  BY <1>1, SubSeqProperties
<1>3. /\ b \in Seq(Commits) /\ Len(b) = IF 1 <= k THEN k - 1 + 1 ELSE 0
      /\ \A n \in 1..k - 1 + 1 : b[n] = t[1 + n - 1]
  BY <1>1, SubSeqProperties
<1> HIDE DEF a, b
<1>4. Len(a) = Len(b) /\ \A n \in 1..Len(a) : a[n] = b[n]
  BY <1>1, <1>2, <1>3 DEF k
<1>5. a = b
  BY <1>2, <1>3, <1>4, SeqEqual
<1> QED  BY <1>5 DEF IsPrefix, a, b, k

\* A change is verified by itself, for any number of builds, workspaces and
\* deaths: only builds that died before their cleanup leave anything behind.
THEOREM ChecksAlone == WorkspaceSpec => []CheckedAlone
<1>1. WorkspaceInv => CheckedAlone
  <2> SUFFICES ASSUME WorkspaceInv, NEW w \in Workspaces, Checked(w)
               PROVE  /\ Last(ws[w].log) = build[w].change
                      /\ Cardinality(LocalAt(Front(ws[w].log))) <= deaths
                      /\ deaths = 0 => IsPrefix(Front(ws[w].log), upstream)
    BY DEF CheckedAlone
  <2> DEFINE base == Front(ws[w].log)
  <2>1. /\ Last(ws[w].log) = build[w].change /\ base \in Seq(Commits)
        /\ OnBranch(base, upstream, deaths, pulled[w], lost[w]) /\ upstream \in Seq(Commits)
    BY CheckedFacts, WorkspaceTypes
  <2> HIDE DEF base
  <2>2. deaths = 0 => IsPrefix(base, upstream)
    BY <2>1, Prefix DEF OnBranch
  <2>3. Cardinality(LocalAt(base)) <= deaths
    BY <2>1 DEF OnBranch, LocalIn, LocalAt
  <2> QED  BY <2>1, <2>2, <2>3 DEF base
<1> QED  BY WorkspaceInvariant, <1>1, PTL

\* A change is checked on the branch as the workspace pulled it last, less what
\* cleanups with nothing to take away have taken since.
THEOREM BaseIsKept == WorkspaceSpec => []BaseKept
<1>1. WorkspaceInv => BaseKept
  <2> SUFFICES ASSUME WorkspaceInv, NEW w \in Workspaces, Checked(w)
               PROVE  IsPrefix(SubSeq(upstream, 1, pulled[w] - lost[w]), ws[w].log)
    BY DEF BaseKept
  <2> DEFINE log == ws[w].log
             base == Front(ws[w].log)
             k == pulled[w] - lost[w]
             kept == SubSeq(upstream, 1, k)
  <2>1. /\ log \in Seq(Commits) /\ Len(log) \in Nat /\ Len(base) = Len(log) - 1
        /\ \A n \in 1..Len(log) - 1 : base[n] = log[n]
        /\ OnBranch(base, upstream, deaths, pulled[w], lost[w])
    BY CheckedFacts
  <2>2. upstream \in Seq(Commits) /\ Len(upstream) \in Nat /\ k \in Int /\ k <= pulled[w]
    BY WorkspaceTypes
  <2>3. /\ pulled[w] <= Len(upstream) /\ pulled[w] \in Nat
        /\ \A n \in 1..k : n <= Len(base) /\ base[n] = upstream[n]
    BY <2>1, WorkspaceTypes DEF OnBranch
  <2> HIDE DEF log, base, k
  <2>4. \A n \in 1..k : upstream[n] \in Commits
    BY <2>2, <2>3, ElementOfSeq
  <2>5. /\ kept \in Seq(Commits) /\ Len(kept) = IF 1 <= k THEN k - 1 + 1 ELSE 0
        /\ \A n \in 1..k - 1 + 1 : kept[n] = upstream[1 + n - 1]
    BY <2>2, <2>4, SubSeqProperties
  <2> HIDE DEF kept
  <2>6. Len(kept) <= Len(log)
    <3>1. CASE 1 <= k
      <4>1. k \in 1..k /\ k <= Len(base)
        BY <2>2, <2>3, <3>1
      <4> QED  BY <2>1, <2>2, <2>5, <3>1, <4>1
    <3>2. CASE ~(1 <= k)
      BY <2>1, <2>5, <3>2
    <3> QED  BY <3>1, <3>2
  <2>7. \A n \in 1..Len(kept) : kept[n] = log[n]
    <3> SUFFICES ASSUME NEW n \in 1..Len(kept) PROVE kept[n] = log[n]
      OBVIOUS
    <3>1. n \in 1..k /\ kept[n] = upstream[n]
      BY <2>2, <2>5
    <3>2. n <= Len(base) /\ base[n] = upstream[n]
      BY <2>3, <3>1
    <3> QED  BY <2>1, <3>1, <3>2
  <2>8. IsPrefix(kept, log)
    BY <2>1, <2>5, <2>6, <2>7, Prefix
  <2> QED  BY <2>8 DEF kept, log, k
<1> QED  BY WorkspaceInvariant, <1>1, PTL
=============================================================================
