------------------------- MODULE OperatorScheduler -------------------------
(***************************************************************************)
(* What the schedulers keep doing right in Operator.tla, where the pods    *)
(* they place are made, deleted and collected by the controllers of the    *)
(* same processes, start on the nodes they were placed on and are lost     *)
(* with them: the theorems about Scheduler.tla, now about the whole, and   *)
(* that the two halves of a pod stay in step.                              *)
(*                                                                         *)
(* The names of Scheduler.tla are used for its half of Operator's state;   *)
(* objects is the controllers' half of the pods, and Op is Operator.       *)
(***************************************************************************)
EXTENDS SchedulerProofs

CONSTANTS Names, Controllers, Specs, Malformed, Answers, PrefixOf,
          ControllerLimit, MaxDisturbances

VARIABLES sets, objects, cpc, work, cjob, cache, asked, cspent

Op == INSTANCE Operator WITH pods <- objects, pc <- cpc, job <- cjob,
                             spent <- cspent, Limit <- ControllerLimit,
                             placed <- pods, spc <- pc, sjob <- job,
                             sspent <- spent, SchedulerLimit <- Limit

-----------------------------------------------------------------------------
(***************************************************************************)
(* The copy of Scheduler in Operator is Scheduler.                         *)
(***************************************************************************)
LEMMA SameInit == Op!Init => Init /\ objects = [p \in Pods |-> None]
BY DEF Op!Init, Op!S!Init, Op!C!Init, Init, Op!S!NoJob, NoJob, Op!S!NoView, NoView,
       Op!S!Kinds, Kinds

LEMMA SameHead == ASSUME NEW s \in Schedulers PROVE Op!S!Head(s) = Head(s)
BY DEF Op!S!Head, Head, Op!S!First, First

LEMMA SameOutdated == ASSUME NEW p PROVE Op!S!Outdated(p) = Outdated(p)
BY SameHead DEF Op!S!Outdated, Outdated

LEMMA SameReturn == ASSUME NEW s \in Schedulers, Op!S!Return(s) PROVE Return(s)
BY DEF Op!S!Return, Return, Op!S!Goto, Goto, Op!S!NoJob, NoJob, Op!S!NoView, NoView

\* On to the next pod.
LEMMA SameNextPod ==
    ASSUME NEW s \in Schedulers, NEW view, Op!S!NextPod(s, view)
    PROVE  NextPod(s, view)
BY SameHead, SameReturn
   DEF Op!S!NextPod, NextPod, Op!S!Goto, Goto, Op!S!NoJob, NoJob, Op!S!NoView, NoView

\* The lists and the snapshot.
LEMMA SameLists ==
    ASSUME NEW s \in Schedulers
    PROVE  /\ Op!S!ListPending(s) => ListPending(s)
           /\ Op!S!ListNodes(s) => ListNodes(s)
           /\ Op!S!ListTelemetryPods(s) => ListTelemetryPods(s)
           /\ Op!S!ListFails(s) => ListFails(s)
BY SameReturn
   DEF Op!S!ListPending, ListPending, Op!S!ListNodes, ListNodes,
       Op!S!ListTelemetryPods, ListTelemetryPods, Op!S!ListFails, ListFails,
       Op!S!TakeSnapshot, TakeSnapshot, Op!S!Occupies, Occupies,
       Op!S!Pending, Pending, Op!S!Goto, Goto, Op!S!Spend, Spend,
       Op!S!ClusterUnchanged, ClusterUnchanged

\* The decision.
LEMMA SameDecide ==
    ASSUME NEW s \in Schedulers
    PROVE  /\ Op!S!Decide(s) => Decide(s)
           /\ Op!S!DecideFails(s) => DecideFails(s)
BY SameHead, SameNextPod
   DEF Op!S!Decide, Decide, Op!S!DecideFails, DecideFails, Op!S!Emit, Emit,
       Op!S!Goto, Goto, Op!S!Spend, Spend, Op!S!ClusterUnchanged, ClusterUnchanged

\* The binding.
LEMMA SameBind ==
    ASSUME NEW s \in Schedulers
    PROVE  /\ Op!S!Bind(s) => Bind(s)
           /\ Op!S!BindRefused(s) => BindRefused(s)
           /\ Op!S!BindFails(s) => BindFails(s)
BY SameHead, SameOutdated
   DEF Op!S!Bind, Bind, Op!S!BindRefused, BindRefused, Op!S!BindFails, BindFails,
       Op!S!Bindable, Bindable, Op!S!Binding, Binding, Op!S!BindTo, BindTo, Op!S!Goto, Goto,
       Op!S!Spend, Spend, Op!S!ClusterUnchanged, ClusterUnchanged

\* Reading back and writing the rationale.
LEMMA SameUpdate ==
    ASSUME NEW s \in Schedulers
    PROVE  /\ Op!S!ReadBack(s) => ReadBack(s)
           /\ Op!S!ReadBackFails(s) => ReadBackFails(s)
           /\ Op!S!Update(s) => Update(s)
           /\ Op!S!UpdateRefused(s) => UpdateRefused(s)
           /\ Op!S!UpdateFails(s) => UpdateFails(s)
BY SameHead, SameOutdated
   DEF Op!S!ReadBack, ReadBack, Op!S!ReadBackFails, ReadBackFails,
       Op!S!Update, Update, Op!S!UpdateRefused, UpdateRefused,
       Op!S!UpdateFails, UpdateFails, Op!S!Updatable, Updatable,
       Op!S!Annotate, Annotate, Op!S!Goto, Goto, Op!S!Spend, Spend,
       Op!S!ClusterUnchanged, ClusterUnchanged

\* The event, and on to the next pod.
LEMMA SameEmit ==
    ASSUME NEW s \in Schedulers
    PROVE  /\ Op!S!EmitSuccess(s) => EmitSuccess(s)
           /\ Op!S!EmitFails(s) => EmitFails(s)
<1>1. Op!S!Counted(s) = Counted(s)
  BY SameHead DEF Op!S!Counted, Counted
<1> QED BY <1>1, SameHead, SameNextPod
           DEF Op!S!EmitSuccess, EmitSuccess, Op!S!EmitFails, EmitFails,
               Op!S!Emit, Emit, Op!S!Spend, Spend,
               Op!S!ClusterUnchanged, ClusterUnchanged

\* A scheduler of the whole does what Scheduler says.
LEMMA SameStep ==
    ASSUME NEW s \in Schedulers, Op!S!Step(s) \/ Op!S!CallFails(s)
    PROVE  Step(s) \/ Fault(s)
<1>1. CASE Op!S!Step(s)
  BY <1>1, SameLists, SameDecide, SameBind, SameUpdate, SameEmit
     DEF Op!S!Step, Step
<1>2. CASE Op!S!CallFails(s)
  BY <1>2, SameLists, SameDecide, SameBind, SameUpdate, SameEmit
     DEF Op!S!CallFails, Fault, CallFails
<1> QED BY <1>1, <1>2

LEMMA SameTypes == Op!S!TypeOK <=> TypeOK
BY DEF Op!S!TypeOK, TypeOK, Op!S!PodObjects, PodObjects, Op!S!Annotations, Annotations,
       Op!S!Steps, Steps, Op!S!Jobs, Jobs, Op!S!Items, Items, Op!S!Views, Views,
       Op!S!Kinds, Kinds, Op!S!LocalsOK, LocalsOK

LEMMA SameNodeChange ==
    ASSUME NEW d \in Nodes, Op!S!NodeChange(d) PROVE NodeChange(d)
BY DEF Op!S!NodeChange, NodeChange, Op!S!Spend, Spend

-----------------------------------------------------------------------------
(***************************************************************************)
(* What the controllers and the cluster write: one object at a time.       *)
(***************************************************************************)
\* An object as far as the scheduler's half depends on it.
Shaped(p) == objects[p] # None =>
               /\ "phase" \in DOMAIN objects[p]
               /\ objects[p].phase \in Op!C!Phases

Objects == objects = [p \in Pods |-> objects[p]] /\ \A p \in Pods : Shaped(p)

\* Pod p is made, goes, starts or finishes on its node, or is to be deleted.
Written(p) ==
    /\ \A q \in Pods \ {p} : objects'[q] = objects[q]
    /\ objects'[p] # None =>
         \/ objects[p] = None /\ objects'[p].phase = "Pending"
         \/ /\ objects[p] # None
            /\ \/ objects'[p].phase = objects[p].phase
               \/ objects'[p].phase = "Terminating"
               \/ /\ objects[p].phase \in Op!C!ActivePhases
                  /\ objects'[p].phase \in {"Running", "Done"}
                  /\ pods[p] # None /\ pods[p].node \in nodes

LEMMA NewWritten ==
    ASSUME Objects, NEW c \in Controllers,
           NEW p \in Op!C!FreeNames(c),
           objects' = [objects EXCEPT ![p] = Op!C!NewPod(c)]
    PROVE  Objects' /\ p \in Pods /\ Written(p)
BY DEF Objects, Shaped, Written, Op!C!FreeNames, Op!C!NewPod, Op!C!Phases,
       Op!C!ActivePhases

LEMMA GoneWritten ==
    ASSUME Objects, NEW p \in Pods, objects' = [objects EXCEPT ![p] = None]
    PROVE  Objects' /\ Written(p)
BY DEF Objects, Shaped, Written

LEMMA PhaseWritten ==
    ASSUME Objects, NEW p \in Pods, objects[p] # None,
           NEW phase \in Op!C!Phases, Op!C!SetPhase(p, phase),
           \/ phase = "Terminating"
           \/ /\ objects[p].phase \in Op!C!ActivePhases
              /\ phase \in {"Running", "Done"}
              /\ pods[p] # None /\ pods[p].node \in nodes
    PROVE  Objects' /\ Written(p)
<1>1. objects'[p] = [objects[p] EXCEPT !.phase = phase]
        /\ \A q \in Pods \ {p} : objects'[q] = objects[q]
  BY DEF Objects, Op!C!SetPhase
<1>2. objects'[p].phase = phase /\ "phase" \in DOMAIN objects'[p]
  BY <1>1 DEF Objects, Shaped
<1>3. objects' = [q \in Pods |-> objects'[q]]
  BY DEF Objects, Op!C!SetPhase
<1> QED BY <1>1, <1>2, <1>3 DEF Objects, Shaped, Written

\* The calls of a controller.
LEMMA ControllerWrites ==
    ASSUME Objects, NEW c \in Controllers, Op!C!Call(c) \/ Op!C!CallFails(c)
    PROVE  UNCHANGED objects \/ \E p \in Pods : Objects' /\ Written(p)
<1>1. ASSUME NEW p \in Pods, Op!C!CreatePod(c, p)
      PROVE  Objects' /\ Written(p)
  BY <1>1, NewWritten DEF Op!C!CreatePod
<1>2. ASSUME NEW p \in Pods, Op!C!DeletePod(c, p)
      PROVE  UNCHANGED objects \/ (Objects' /\ Written(p))
  BY <1>2, PhaseWritten DEF Op!C!DeletePod, Op!C!Phases
<1>3. CASE Op!C!CreateFails(c)
  BY <1>3, NewWritten DEF Op!C!CreateFails
<1>4. CASE Op!C!Call(c)
  BY <1>1, <1>2, <1>4
     DEF Op!C!Call, Op!C!Tick, Op!C!Get, Op!C!GetMissing, Op!C!CacheHit,
         Op!C!CompileExplicit, Op!C!Synthesize, Op!C!ListPods, Op!C!ReportFailure,
         Op!C!Report, Op!C!ReportConflict, Op!C!WriteStatus
<1>5. CASE Op!C!CallFails(c)
  BY <1>3, <1>5
     DEF Op!C!CallFails, Op!C!GetFails, Op!C!SynthesizeFails, Op!C!ListPodsFails,
         Op!C!DeleteFails, Op!C!ReportFails
<1> QED BY <1>4, <1>5

\* Kubernetes.
LEMMA ClusterWrites ==
    ASSUME Objects, NEW p \in Pods,
           \/ Op!Removal(p) \/ Op!Collection(p) \/ Op!Starts(p)
           \/ Op!Disruption(p) \/ Op!Lost(p)
    PROVE  Objects' /\ Written(p) /\ Op!Follow
<1>1. CASE Op!Removal(p)
  BY <1>1, GoneWritten DEF Op!Removal, Op!C!Removal, Op!C!PodRemoved
<1>2. CASE Op!Collection(p)
  BY <1>2, PhaseWritten
     DEF Op!Collection, Op!C!Collection, Op!C!GarbageCollect, Op!C!Phases
<1>3. CASE Op!Starts(p)
  BY <1>3, PhaseWritten
     DEF Op!Starts, Op!OnANode, Op!C!PodStarts, Op!C!Phases, Op!C!ActivePhases
<1>4. CASE Op!Disruption(p)
  <2>1. Op!C!Active(p) /\ objects[p] # None /\ objects[p].phase \in Op!C!ActivePhases
    BY <1>4 DEF Op!Disruption, Op!C!Disruption, Op!C!Disrupted, Op!C!Active
  <2>2. PICK phase \in {"Done", "Terminating"} : Op!C!SetPhase(p, phase)
    BY <1>4 DEF Op!Disruption, Op!C!Disruption, Op!C!Disrupted
  <2>3. objects'[p].phase = phase
    BY <2>1, <2>2 DEF Op!C!SetPhase, Objects, Shaped
  <2>4. phase = "Done" => pods[p] # None /\ pods[p].node \in nodes
    BY <1>4, <2>3 DEF Op!Disruption, Op!OnANode
  <2> QED BY <1>4, <2>1, <2>2, <2>4, PhaseWritten DEF Op!Disruption, Op!C!Phases
<1>5. CASE Op!Lost(p)
  BY <1>5, GoneWritten DEF Op!Lost
<1> QED BY <1>1, <1>2, <1>3, <1>4, <1>5

-----------------------------------------------------------------------------
(***************************************************************************)
(* How the scheduler's half follows.                                       *)
(***************************************************************************)
Halves == Objects /\ \A p \in Pods : Op!InStep(p)

\* The invariant of the whole, as far as the schedulers depend on it.
WholeInv == IInv /\ Halves

\* The uids go on.
LEMMA FollowSpent ==
    ASSUME TypeOK, Op!Follow
    PROVE  spent' \in [Kinds -> Nat]
<1> DEFINE made == {p \in {q \in Pods : objects'[q] # objects[q]} : objects[p] = None}
<1>1. spent' = [spent EXCEPT !["create"] = @ + Cardinality(made)]
  BY DEF Op!Follow, Op!Cardinality, Cardinality
<1>2. Cardinality(made) \in Nat
  <2>1. IsFiniteSet(made)
    BY PodNamesAssumption, FS_Subset
  <2> QED BY <2>1, FS_CardinalityType
<1> HIDE DEF made
<1> QED BY <1>1, <1>2 DEF TypeOK, Kinds

LEMMA FollowUnwritten ==
    ASSUME TypeOK, Op!Follow, UNCHANGED objects
    PROVE  UNCHANGED <<pods, nodes, pc, job, event>>
<1>1. pods' = [p \in Pods |-> pods[p]] /\ UNCHANGED <<nodes, pc, event>>
  BY DEF Op!Follow
<1>2. job' = [s \in Schedulers |-> job[s]]
  BY DEF Op!Follow
<1> QED BY <1>1, <1>2 DEF TypeOK

LEMMA FollowWritten ==
    ASSUME TypeOK, Op!Follow, NEW p \in Pods, Written(p), objects'[p] # objects[p]
    PROVE  /\ pods' = [pods EXCEPT ![p] = Op!Half(p)]
           /\ job' = Outdated(p)
           /\ UNCHANGED <<nodes, pc, event>>
<1> DEFINE written == {q \in Pods : objects'[q] # objects[q]}
<1>1. written = {p}
  BY DEF Written
<1>2. /\ pods' = [q \in Pods |-> IF q \in written THEN Op!Half(q) ELSE pods[q]]
      /\ UNCHANGED <<nodes, pc, event>>
  BY DEF Op!Follow
<1>3. job' = [s \in Schedulers |->
                IF job[s].batch # {} /\ Head(s).name \in written
                THEN [job[s] EXCEPT !.fresh = FALSE] ELSE job[s]]
  BY SameHead DEF Op!Follow
<1> HIDE DEF written
<1> QED BY <1>1, <1>2, <1>3 DEF TypeOK, Outdated

\* What becomes of the half of a pod that is written.
LEMMA HalfCases ==
    ASSUME WholeInv, NEW p \in Pods, Objects', Written(p), objects'[p] # objects[p]
    PROVE  \/ objects'[p] = None /\ pods[p] # None /\ Op!Half(p) = None
           \/ /\ objects'[p] # None /\ pods[p] = None
              /\ Op!Half(p) = Op!Unplaced /\ objects'[p].phase = "Pending"
           \/ /\ objects'[p] # None /\ pods[p] # None
              /\ \/ Op!Half(p) = pods[p]
                 \/ \E phase \in {"Done", "Terminating"} :
                      /\ pods[p].phase # "Done"
                      /\ Op!Half(p) = [pods[p] EXCEPT !.phase = phase]
              /\ \/ Op!Half(p).phase = Op!PhaseSeen(objects'[p].phase)
                 \/ Op!Half(p).phase = "Done" /\ objects'[p].phase = "Terminating"
              /\ objects'[p].phase \in {"Running", "Ready", "Done"}
                   => pods[p].node # None
<1>1. Op!InStep(p) /\ (pods[p] # None => pods[p] \in PodObjects)
  BY DEF WholeInv, Halves, IInv, TypeOK
<1>2. CASE objects'[p] = None
  BY <1>1, <1>2 DEF Op!Half, Op!InStep
<1>3. CASE objects'[p] # None /\ objects[p] = None
  BY <1>1, <1>3 DEF Op!Half, Op!InStep, Written
<1>4. CASE objects'[p] # None /\ objects[p] # None
  <2> DEFINE old == objects[p].phase
             new == objects'[p].phase
             after == IF pods[p].phase = "Done" THEN "Done" ELSE Op!PhaseSeen(new)
  <2>1. /\ pods[p] \in PodObjects /\ pods[p] # None
        /\ Op!Half(p) = [pods[p] EXCEPT !.phase = after]
    BY <1>1, <1>4 DEF Op!Half, Op!InStep
  <2>2. Op!Half(p).phase = after
    BY <2>1 DEF PodObjects
  <2>3. pods[p].phase = Op!PhaseSeen(old) \/ (pods[p].phase = "Done" /\ old = "Terminating")
    BY <1>1, <1>4 DEF Op!InStep
  <2>4. old \in Op!C!Phases /\ new \in Op!C!Phases
    BY <1>4 DEF WholeInv, Halves, Objects, Shaped
  <2>5. \/ new = old \/ new = "Terminating"
        \/ /\ old \in Op!C!ActivePhases /\ new \in {"Running", "Done"}
           /\ pods[p].node \in nodes
    BY <1>4 DEF Written
  <2>6. \/ after = pods[p].phase
        \/ after \in {"Done", "Terminating"} /\ pods[p].phase # "Done"
    BY <2>3, <2>4, <2>5 DEF Op!PhaseSeen, Op!C!Phases, Op!C!ActivePhases
  <2>7. after = Op!PhaseSeen(new) \/ (after = "Done" /\ new = "Terminating")
    BY <2>3, <2>4, <2>5 DEF Op!PhaseSeen, Op!C!Phases, Op!C!ActivePhases
  <2>8. new \in {"Running", "Ready", "Done"} => pods[p].node # None
    <3>1. None \notin nodes
      BY StraysAssumption DEF WholeInv, IInv, TypeOK
    <3>2. old \in {"Running", "Ready", "Done"} => pods[p].node # None
      BY <1>1, <1>4 DEF Op!InStep
    <3> QED BY <2>5, <3>1, <3>2
  <2>9. CASE after = pods[p].phase
    <3>1. Op!Half(p) = pods[p]
      BY <2>1, <2>9 DEF PodObjects
    <3> HIDE DEF after, new
    <3> QED BY <1>4, <2>1, <2>2, <2>7, <2>8, <3>1 DEF new
  <2>10. CASE after \in {"Done", "Terminating"} /\ pods[p].phase # "Done"
    <3> HIDE DEF after, new
    <3> QED BY <1>4, <2>1, <2>2, <2>7, <2>8, <2>10 DEF new
  <2> QED BY <2>6, <2>9, <2>10
<1> QED BY <1>2, <1>3, <1>4

\* For the schedulers a pod arrives, or is rewritten.
LEMMA FollowMoves ==
    ASSUME WholeInv, Op!Follow, NEW p \in Pods, Objects', Written(p),
           objects'[p] # objects[p]
    PROVE  Arrives(p) \/ Rewritten(p)
<1>1. /\ pods' = [pods EXCEPT ![p] = Op!Half(p)]
      /\ job' = Outdated(p) /\ UNCHANGED <<nodes, pc, event>>
  BY FollowWritten DEF WholeInv, IInv
<1>2. CASE pods[p] # None /\ Op!Half(p) = None
  BY <1>1, <1>2 DEF Rewritten
<1>3. CASE pods[p] = None /\ Op!Half(p) = Op!Unplaced
  <2>1. spent["create"] + 1 \in Nat
    BY DEF WholeInv, IInv, TypeOK, Kinds
  <2>2. ASSUME NEW t \in Schedulers PROVE job'[t] = job[t]
    <3>1. job[t] \in Jobs
      BY DEF WholeInv, IInv, TypeOK
    <3>2. Head(t).name = p => ~job[t].fresh
      BY <1>3 DEF WholeInv, IInv, FreshIsCurrent
    <3>3. ~job[t].fresh => [job[t] EXCEPT !.fresh = FALSE] = job[t]
      BY <3>1 DEF Jobs
    <3> QED BY <1>1, <3>2, <3>3 DEF Outdated
  <2>3. job' = job
    BY <1>1, <2>2 DEF Outdated, WholeInv, IInv, TypeOK
  <2> QED BY <1>1, <1>3, <2>1, <2>3 DEF Arrives, Op!Unplaced
<1>4. CASE pods[p] # None /\ Op!Half(p) = pods[p]
  <2>1. pods' = pods
    BY <1>1, <1>4 DEF WholeInv, IInv, TypeOK
  <2> QED BY <1>1, <1>4, <2>1 DEF Rewritten
<1>5. ASSUME pods[p] # None, NEW phase \in {"Done", "Terminating"},
             pods[p].phase # "Done", Op!Half(p) = [pods[p] EXCEPT !.phase = phase]
      PROVE  Rewritten(p)
  <2>1. pods' = [pods EXCEPT ![p].phase = phase]
    BY <1>1, <1>5
  <2> QED BY <1>1, <1>5, <2>1 DEF Rewritten
<1> QED BY <1>2, <1>3, <1>4, <1>5, HalfCases

\* A pod that arrives or is rewritten keeps the invariant of Scheduler, also
\* where Scheduler itself would not make the step.
LEMMA FollowIInv ==
    ASSUME IInv, NEW p \in Pods, Arrives(p) \/ Rewritten(p),
           UNCHANGED <<nodes, event>>, spent' \in [Kinds -> Nat]
    PROVE  IInv'
<1>1. pods' \in [Pods -> PodObjects \cup {None}]
  <2>1. CASE Arrives(p)
    BY <2>1 DEF Arrives, IInv, TypeOK, PodObjects
  <2>2. CASE Rewritten(p)
    BY <2>2 DEF Rewritten, IInv, TypeOK, PodObjects
  <2> QED BY <2>1, <2>2
<1>2. UNCHANGED pc
  BY DEF Arrives, Rewritten
<1>3. \A q \in Pods : q # p => pods'[q] = pods[q]
  BY DEF Arrives, Rewritten, IInv, TypeOK
<1>4. CASE Rewritten(p)
  <2>1. job' = Outdated(p)
    BY <1>4 DEF Rewritten
  <2>2. TypeOK'
    BY <1>1, <1>2, <2>1, OutdatedTypeOK, LocalsKept DEF IInv, TypeOK
  <2>3. FreshIsCurrent'
    BY <1>2, <1>3, <2>1, PodWritten DEF IInv, FreshIsCurrent
  <2> QED BY <2>2, <2>3 DEF IInv
<1>5. CASE Arrives(p)
  <2>1. UNCHANGED job /\ pods[p] = None
    BY <1>5 DEF Arrives
  <2>2. TypeOK'
    BY <1>1, <1>2, <2>1 DEF IInv, TypeOK, LocalsOK
  <2>3. \A t \in Schedulers : job[t].fresh => pods'[Head(t).name] = pods[Head(t).name]
    <3> SUFFICES ASSUME NEW t \in Schedulers, job[t].fresh
                 PROVE  pods'[Head(t).name] = pods[Head(t).name]
      OBVIOUS
    <3>1. Head(t).name # p /\ job[t].batch # {}
      BY <2>1 DEF IInv, FreshIsCurrent, TypeOK, LocalsOK
    <3>2. Head(t).name \in Pods
      BY <3>1, HeadInBatch DEF IInv
    <3> QED BY <1>3, <3>1, <3>2
  <2>4. FreshIsCurrent'
    BY <1>2, <2>1, <2>3, FreshKept DEF IInv, FreshIsCurrent
  <2> QED BY <2>2, <2>4 DEF IInv
<1> QED BY <1>4, <1>5

\* The halves stay in step.
LEMMA FollowHalves ==
    ASSUME WholeInv, Op!Follow, NEW p \in Pods, Objects', Written(p),
           objects'[p] # objects[p]
    PROVE  Halves'
<1>1. pods' = [pods EXCEPT ![p] = Op!Half(p)]
  BY FollowWritten DEF WholeInv, IInv
<1>2. ASSUME NEW q \in Pods, q # p PROVE Op!InStep(q)'
  BY <1>1, <1>2 DEF WholeInv, Halves, IInv, TypeOK, Written, Op!InStep
<1>3. pods'[p] = Op!Half(p)
  BY <1>1 DEF WholeInv, IInv, TypeOK
<1>4. ASSUME objects'[p] = None PROVE Op!InStep(p)'
  BY <1>3, <1>4, HalfCases DEF Op!InStep
<1>5. ASSUME pods[p] = None, objects'[p] # None PROVE Op!InStep(p)'
  <2>1. pods'[p] = Op!Unplaced /\ objects'[p].phase = "Pending"
    BY <1>3, <1>5, HalfCases
  <2>2. Op!Unplaced \in PodObjects /\ Op!Unplaced.phase = "Active"
    BY DEF Op!Unplaced, PodObjects, WholeInv, IInv, TypeOK, Kinds
  <2> QED BY <1>5, <2>1, <2>2, AbsenceAssumption
             DEF Op!InStep, Op!PhaseSeen, Op!C!ActivePhases
<1>6. ASSUME pods[p] # None, objects'[p] # None PROVE Op!InStep(p)'
  <2>1. pods[p] \in PodObjects
    BY <1>6 DEF WholeInv, IInv, TypeOK
  <2>2. Op!Half(p) \in PodObjects /\ Op!Half(p).node = pods[p].node
    BY <1>6, <2>1, HalfCases DEF PodObjects
  <2>3. pods'[p] # None /\ pods'[p].node = pods[p].node
    BY <1>3, <2>2, AbsenceAssumption
  <2> QED BY <1>3, <1>6, <2>3, HalfCases DEF Op!InStep
<1> QED BY <1>2, <1>4, <1>5, <1>6 DEF Halves

-----------------------------------------------------------------------------
(***************************************************************************)
(* Every step of the whole.                                                *)
(***************************************************************************)
\* The schedulers' half stays as it is.
LEMMA QuietStep ==
    ASSUME WholeInv, UNCHANGED <<pods, nodes, pc, job, event, objects>>,
           spent' \in [Kinds -> Nat]
    PROVE  WholeInv' /\ Moves
<1>1. TypeOK'
  BY DEF WholeInv, IInv, TypeOK, LocalsOK
<1>2. FreshIsCurrent'
  BY FreshKept DEF WholeInv, IInv, FreshIsCurrent
<1>3. Halves'
  BY DEF WholeInv, Halves, Objects, Shaped, Op!InStep
<1> QED BY <1>1, <1>2, <1>3 DEF WholeInv, IInv, Moves

\* The controllers and the cluster write an object, or none.
LEMMA FollowStep ==
    ASSUME WholeInv, Op!Follow,
           UNCHANGED objects \/ \E p \in Pods : Objects' /\ Written(p)
    PROVE  WholeInv' /\ Moves
<1>1. spent' \in [Kinds -> Nat]
  BY FollowSpent DEF WholeInv, IInv
<1>2. CASE UNCHANGED objects
  BY <1>1, <1>2, FollowUnwritten, QuietStep DEF WholeInv, IInv
<1>3. ASSUME NEW p \in Pods, Objects', Written(p), ~ UNCHANGED objects
      PROVE  WholeInv' /\ Moves
  <2>1. objects'[p] # objects[p]
    BY <1>3 DEF Written, WholeInv, Halves, Objects
  <2>2. Arrives(p) \/ Rewritten(p)
    BY <1>3, <2>1, FollowMoves
  <2>3. UNCHANGED <<nodes, event>>
    BY DEF Op!Follow
  <2>4. IInv'
    BY <1>1, <2>2, <2>3, FollowIInv DEF WholeInv
  <2>5. Halves'
    BY <1>3, <2>1, FollowHalves
  <2> QED BY <2>2, <2>4, <2>5 DEF WholeInv, Moves
<1> QED BY <1>2, <1>3

\* A scheduler writes its own half: the node and the rationale.
LEMMA WorksHalves ==
    ASSUME WholeInv, IInv', UNCHANGED objects, NEW s \in Schedulers, Works(s)
    PROVE  Halves'
<1>1. Objects'
  BY DEF WholeInv, Halves, Objects, Shaped
<1>2. CASE UNCHANGED pods
  BY <1>1, <1>2 DEF WholeInv, Halves, Op!InStep
<1>3. ASSUME NEW q \in Pods,
             pods[q] \in PodObjects, pods'[q] \in PodObjects,
             pods'[q].phase = pods[q].phase,
             pods[q].node # None => pods'[q].node # None,
             \A p \in Pods : p # q => pods'[p] = pods[p]
      PROVE  Halves'
  <2>1. pods[q] # None /\ pods'[q] # None
    BY <1>3, AbsenceAssumption
  <2>2. Op!InStep(q)'
    BY <1>3, <2>1 DEF WholeInv, Halves, Op!InStep
  <2>3. \A p \in Pods : p # q => Op!InStep(p)'
    BY <1>3 DEF WholeInv, Halves, Op!InStep
  <2> QED BY <1>1, <2>2, <2>3 DEF Halves
<1>4. CASE Binds(s)
  <2>1. /\ Head(s).name \in Pods /\ pods[Head(s).name] \in PodObjects
        /\ pods[Head(s).name].node = None /\ job[s].node \in Nodes
        /\ pods' = [pods EXCEPT ![Head(s).name].node = job[s].node]
    BY <1>4, BindsFacts DEF WholeInv
  <2>2. pods'[Head(s).name] = [pods[Head(s).name] EXCEPT !.node = job[s].node]
    BY <2>1 DEF WholeInv, IInv, TypeOK
  <2>3. /\ pods'[Head(s).name] \in PodObjects
        /\ pods'[Head(s).name].phase = pods[Head(s).name].phase
    BY <2>1, <2>2 DEF PodObjects
  <2>4. \A p \in Pods : p # Head(s).name => pods'[p] = pods[p]
    BY <2>1 DEF WholeInv, IInv, TypeOK
  <2> QED BY <1>3, <2>1, <2>3, <2>4
<1>5. CASE Annotates(s)
  <2> DEFINE ann == [uid |-> Head(s).uid, node |-> job[s].node]
  <2>1. /\ Head(s).name \in Pods /\ pods[Head(s).name] \in PodObjects
        /\ pods' = [pods EXCEPT ![Head(s).name].ann = ann]
    BY <1>5, AnnotatesFacts DEF WholeInv
  <2>0. ann \in Annotations
    BY <1>5, AnnotatesFacts, HeadInBatch DEF WholeInv, IInv, TypeOK, Jobs, Annotations
  <2> HIDE DEF ann
  <2>2. pods'[Head(s).name] = [pods[Head(s).name] EXCEPT !.ann = ann]
    BY <2>1 DEF WholeInv, IInv, TypeOK
  <2>3. /\ pods'[Head(s).name].phase = pods[Head(s).name].phase
        /\ pods'[Head(s).name].node = pods[Head(s).name].node
    BY <2>1, <2>2 DEF PodObjects
  <2>4. \A p \in Pods : p # Head(s).name => pods'[p] = pods[p]
    BY <2>1 DEF WholeInv, IInv, TypeOK
  <2>5. pods'[Head(s).name] \in PodObjects
    BY <2>0, <2>1, <2>2 DEF PodObjects
  <2> QED BY <1>3, <2>1, <2>3, <2>4, <2>5
<1> QED BY <1>2, <1>4, <1>5
        DEF Works, GoesOn, Reads, Starts, Looks, Decide, Leaves, Ends, ClusterUnchanged

\* A process with a scheduler ends, or one without.
LEMMA DiesStep ==
    ASSUME WholeInv, UNCHANGED objects, NEW o, Op!SchedulerDies(o)
    PROVE  WholeInv' /\ Moves
<1>1. UNCHANGED <<pods, nodes, event, spent>>
  BY DEF Op!SchedulerDies
<1>2. CASE o \notin Schedulers
  BY <1>1, <1>2, QuietStep DEF Op!SchedulerDies, WholeInv, IInv, TypeOK
<1>3. CASE o \in Schedulers
  <2>1. Return(o)
    BY <1>3, SameReturn DEF Op!SchedulerDies
  <2>2. TypeOK'
    BY <1>1, <1>3, <2>1, ReturnTypeOK DEF WholeInv, IInv, TypeOK
  <2>3. ~job'[o].fresh
    BY <1>3, <2>1 DEF Return, NoJob, WholeInv, IInv, TypeOK
  <2>4. \A t \in Schedulers : t # o => job'[t] = job[t] /\ pc'[t] = pc[t]
    BY <1>3, <2>1 DEF Return, Goto, WholeInv, IInv, TypeOK
  <2>5. FreshIsCurrent'
    BY <1>1, <1>3, <2>3, <2>4, Unwritten DEF WholeInv
  <2>6. Works(o)
    BY <1>1, <2>1 DEF Works, Ends
  <2> QED BY <1>3, <2>2, <2>5, <2>6, WorksHalves DEF WholeInv, IInv, Moves
<1> QED BY <1>2, <1>3

\* A scheduler works, or a node joins or leaves.
LEMMA SchedulerStep ==
    ASSUME WholeInv, UNCHANGED objects,
           \/ \E s \in Schedulers : Step(s) \/ Fault(s)
           \/ \E d \in Nodes : NodeChange(d)
    PROVE  WholeInv' /\ Moves
<1>1. Next
  BY DEF Next, Environment
<1>2. IInv' /\ Moves
  BY <1>1, NextIInv, StepMoves DEF WholeInv
<1>3. CASE UNCHANGED pods
  <2>1. Halves'
    BY <1>3 DEF WholeInv, Halves, Objects, Shaped, Op!InStep
  <2> QED BY <1>2, <2>1 DEF WholeInv
<1>4. ASSUME NEW s \in Schedulers, Works(s) PROVE Halves'
  BY <1>2, <1>4, WorksHalves
<1> QED BY <1>2, <1>3, <1>4, StepWorks DEF WholeInv, NodeChange

LEMMA WholeStep ==
    ASSUME WholeInv, [Op!Next]_(Op!vars)
    PROVE  WholeInv' /\ Moves
<1>0. Objects
  BY DEF WholeInv, Halves
<1>1. ASSUME NEW o \in Controllers, Op!ControllerCalls(o) \/ Op!ControllerFails(o)
      PROVE  WholeInv' /\ Moves
  <2>1. (Op!C!Call(o) \/ Op!C!CallFails(o)) /\ Op!Follow
    BY <1>1 DEF Op!ControllerCalls, Op!ControllerFails
  <2> QED BY <1>0, <2>1, ControllerWrites, FollowStep
<1>2. ASSUME NEW o \in Controllers, Op!Panic(o)
      PROVE  WholeInv' /\ Moves
  BY <1>2, DiesStep DEF Op!Panic, Op!C!Panic, Op!C!Restart
<1>3. ASSUME NEW o \in Schedulers, Op!SchedulerCalls(o) \/ Op!SchedulerFails(o)
      PROVE  WholeInv' /\ Moves
  <2>1. UNCHANGED objects
    BY <1>3 DEF Op!SchedulerCalls, Op!SchedulerFails, Op!controllerVars
  <2>2. Step(o) \/ Fault(o)
    BY <1>3, SameStep DEF Op!SchedulerCalls, Op!SchedulerFails
  <2> QED BY <2>1, <2>2, SchedulerStep
<1>4. ASSUME NEW o \in Controllers \cup Schedulers, Op!Crash(o)
      PROVE  WholeInv' /\ Moves
  <2>1. UNCHANGED objects /\ Op!SchedulerDies(o)
    BY <1>4 DEF Op!Crash, Op!C!Restart
  <2> QED BY <2>1, DiesStep
<1>5. CASE Op!User
  <2>1. UNCHANGED objects
    BY <1>5 DEF Op!User, Op!C!User, Op!C!CreateSet, Op!C!EditSpec, Op!C!DeleteSet
  <2>2. UNCHANGED <<pods, nodes, pc, job, event, spent>>
    BY <1>5 DEF Op!User, Op!schedulerVars
  <2> QED BY <2>1, <2>2, QuietStep DEF WholeInv, IInv, TypeOK
<1>6. CASE Op!Kubernetes
  <2>1. ASSUME NEW p \in Pods,
               \/ Op!Removal(p) \/ Op!Collection(p) \/ Op!Starts(p)
               \/ Op!Disruption(p) \/ Op!Lost(p)
        PROVE  WholeInv' /\ Moves
    BY <1>0, <2>1, ClusterWrites, FollowStep
  <2>2. ASSUME NEW d \in Nodes, Op!NodeChange(d) PROVE WholeInv' /\ Moves
    BY <2>2, SameNodeChange, SchedulerStep DEF Op!NodeChange, Op!controllerVars
  <2> QED BY <1>6, <2>1, <2>2 DEF Op!Kubernetes
<1>7. CASE UNCHANGED Op!vars
  BY <1>7, QuietStep
     DEF Op!vars, Op!schedulerVars, Op!controllerVars, WholeInv, IInv, TypeOK
<1> QED BY <1>1, <1>2, <1>3, <1>4, <1>5, <1>6, <1>7 DEF Op!Next

LEMMA InitWhole == Op!Init => Init /\ WholeInv
<1> SUFFICES ASSUME Op!Init PROVE Init /\ WholeInv
  OBVIOUS
<1>1. Init /\ objects = [p \in Pods |-> None]
  BY SameInit
<1>2. Halves
  BY <1>1 DEF Init, Halves, Objects, Shaped, Op!InStep
<1> QED BY <1>1, <1>2, InitIInv DEF WholeInv

LEMMA AlwaysWhole == Op!Spec => []WholeInv
<1>1. WholeInv /\ [Op!Next]_(Op!vars) => WholeInv'
  BY WholeStep
<1> QED BY <1>1, InitWhole, PTL DEF Op!Spec

-----------------------------------------------------------------------------
(***************************************************************************)
(* The theorems.                                                           *)
(***************************************************************************)
\* The schedulers' half of the state keeps its shape, whatever the controllers
\* do to the pods of a batch between two calls of ScheduleNext.
THEOREM SchedulersTyped == Op!Spec => []TypeOK
<1>1. WholeInv => TypeOK
  BY DEF WholeInv, IInv
<1> QED BY <1>1, AlwaysWhole, PTL

\* A pod is one object: both programs see it from its creation to its removal
\* and agree on its phase, and it runs only once it has a node.
LEMMA HalvesInStep == Op!Spec => [](\A p \in Pods : Op!InStep(p))
<1>1. WholeInv => \A p \in Pods : Op!InStep(p)
  BY DEF WholeInv, Halves
<1> QED BY <1>1, AlwaysWhole, PTL

\* The type invariant of the whole.  That the controllers' half keeps its
\* types is ControllersTyped of OperatorController.tla; the other two parts
\* are the theorems above.
THEOREM WholeTyped == Op!Spec /\ []Op!C!TypeOK => []Op!TypeOK
<1>1. Op!C!TypeOK /\ Op!S!TypeOK /\ (\A p \in Pods : Op!InStep(p)) => Op!TypeOK
  BY DEF Op!TypeOK
<1>2. TypeOK => Op!S!TypeOK
  BY SameTypes
<1> QED BY <1>1, <1>2, SchedulersTyped, HalvesInStep, PTL

LEMMA AlwaysWholePlaced == ASSUME AnswersNamed PROVE Op!Spec => []PlacedInv
<1>1. WholeInv /\ PlacedInv /\ [Op!Next]_(Op!vars) => PlacedInv'
  BY WholeStep, NextPlaced DEF WholeInv
<1> QED BY <1>1, InitWhole, InitPlaced, AlwaysWhole, PTL DEF Op!Spec

\* The rationale on a pod explains the node it is on, also when the pod was
\* made, deleted and replaced by a controller while it was being placed.
THEOREM RationaleFollowsWhole ==
    ASSUME AnswersNamed PROVE Op!Spec => []RationaleMatchesNode
<1>1. PlacedInv => RationaleMatchesNode
  BY DEF PlacedInv
<1> QED BY <1>1, AlwaysWholePlaced, PTL

\* The processes together implement Placement.tla: for the rest of the cluster
\* a pod is placed once and explained only where it is.
THEOREM WholeImplementsPlacement ==
    ASSUME AnswersNamed PROVE Op!Spec => ImplementsPlacement
<1>1. Op!Init => Abstract!Init
  BY InitWhole, InitPlacement
<1>2. WholeInv /\ WholeInv' /\ PlacedInv /\ [Op!Next]_(Op!vars)
        => [Abstract!Next]_placed
  BY WholeStep, StepPlacement DEF WholeInv
<1> QED BY <1>1, <1>2, AlwaysWhole, AlwaysWholePlaced, PTL
           DEF Op!Spec, ImplementsPlacement, Abstract!Spec, placed

LEMMA AlwaysWholeSnapshot == ASSUME Alone PROVE Op!Spec => []SnapshotInv
<1>1. WholeInv /\ SnapshotInv /\ [Op!Next]_(Op!vars) => SnapshotInv'
  BY WholeStep, WaitingKept, ShownKept, CountsKept DEF WholeInv, SnapshotInv, Counts
<1> QED BY <1>1, InitWhole, InitSnapshot, AlwaysWhole, PTL DEF Op!Spec

\* The snapshot that the one scheduler of an installation shows the model has
\* every pod on a candidate, whatever the controllers make and delete meanwhile.
THEOREM WholeSnapshotComplete ==
    ASSUME Alone PROVE Op!Spec => []SnapshotComplete
<1>1. SnapshotInv => SnapshotComplete
  BY DEF SnapshotInv, Shown, SnapshotComplete, Informed, Tried
<1> QED BY <1>1, AlwaysWholeSnapshot, PTL

\* ... and counts no pod twice.
THEOREM WholeCountedOnce == ASSUME Alone PROVE Op!Spec => []CountedOnce
<1>1. WholeInv /\ SnapshotInv => CountedOnce
  BY DEF SnapshotInv, Once, CountedOnce, WholeInv, IInv, TypeOK, Jobs
<1> QED BY <1>1, AlwaysWhole, AlwaysWholeSnapshot, PTL

\* The rationale on a pod was given for that pod, not for the one a controller
\* made and deleted before under the same name.
THEOREM WholeRationaleIsOwn == ASSUME Alone PROVE Op!Spec => []RationaleIsOwn
<1>1. Init => RationaleIsOwn
  BY DEF Init, RationaleIsOwn
<1>2. WholeInv /\ SnapshotInv /\ RationaleIsOwn /\ [Op!Next]_(Op!vars)
        => RationaleIsOwn'
  BY WholeStep, OwnKept DEF WholeInv, SnapshotInv
<1> QED BY <1>1, <1>2, InitWhole, AlwaysWhole, AlwaysWholeSnapshot, PTL
           DEF Op!Spec
=============================================================================
