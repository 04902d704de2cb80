-------------------------- MODULE SchedulerProofs --------------------------
(***************************************************************************)
(* Theorems about Scheduler.tla, for any number of schedulers, pods,       *)
(* nodes, stray answers and disturbances.                                  *)
(***************************************************************************)
EXTENDS Scheduler, FiniteSetTheorems, TLAPS

-----------------------------------------------------------------------------
(***************************************************************************)
(* The order of a batch.                                                   *)
(***************************************************************************)
\* A non-empty set of numbers has a least one: of the initial segments they
\* end, which are finite, one is included in every other.
LEMMA LeastNumber ==
    ASSUME NEW T \in SUBSET Nat, T # {}
    PROVE  \E x \in T : \A y \in T : x <= y
<1> DEFINE Segments == {0 .. x : x \in T}
<1>1. \A x \in T : IsFiniteSet(0 .. x) /\ 0 .. x \in SUBSET Nat
  BY FS_Interval
<1>2. Segments \subseteq FiniteSubsetsOf(Nat) /\ Segments # {}
  BY <1>1 DEF FiniteSubsetsOf
<1> HIDE DEF Segments
<1>3. PICK D \in Segments :
        \A E \in Segments : <<E, D>> \notin StrictSubsetOrdering(Nat)
  BY <1>2, FS_StrictSubsetOrderingWellFounded, WFMin
<1>4. PICK x \in T : D = 0 .. x
  BY DEF Segments
<1>5. ASSUME NEW y \in T, y < x PROVE FALSE
  <2>1. x \in 0 .. x /\ x \notin 0 .. y /\ 0 .. y \subseteq 0 .. x
    BY <1>5
  <2>2. <<0 .. y, 0 .. x>> \in StrictSubsetOrdering(Nat)
    BY <2>1, <1>1 DEF StrictSubsetOrdering
  <2> QED BY <2>2, <1>3, <1>4 DEF Segments
<1>6. ASSUME NEW y \in T PROVE x <= y
  <2>1. x \in Nat /\ y \in Nat /\ ~(y < x)
    BY <1>5
  <2> QED BY <2>1
<1> QED BY <1>6

\* A batch that is not empty has a first pod.
LEMMA FirstInBatch ==
    ASSUME NEW batch \in SUBSET Items, batch # {}
    PROVE  First(batch) \in batch
<1> DEFINE names == {item.name : item \in batch}
<1>1. \A item \in batch : item.name \in Nat
  BY PodNamesAssumption DEF Items
<1>2. PICK x \in names : \A y \in names : x <= y
  <2>1. names \in SUBSET Nat /\ names # {}
    BY <1>1
  <2> HIDE DEF names
  <2> QED BY <2>1, LeastNumber
<1>3. \E item \in batch : \A other \in batch : item.name <= other.name
  BY <1>2
<1> HIDE DEF names
<1> QED BY <1>3, Zenon DEF First

LEMMA HeadInBatch ==
    ASSUME TypeOK, NEW s \in Schedulers, job[s].batch # {}
    PROVE  /\ Head(s) \in job[s].batch
           /\ Head(s) \in Items /\ Head(s).name \in Pods /\ Head(s).uid \in Nat
<1>1. job[s].batch \in SUBSET Items
  BY DEF TypeOK, Jobs
<1>2. Head(s) \in job[s].batch
  BY <1>1, FirstInBatch DEF Head
<1> QED BY <1>1, <1>2 DEF Items

-----------------------------------------------------------------------------
(***************************************************************************)
(* Type correctness.                                                       *)
(***************************************************************************)
\* A resource version that is known to be current: the pod is there, and on
\* the node it had when it was read.  TypeOK needs it, as the rationale is
\* written into the pod that the job read.
FreshIsCurrent ==
    \A s \in Schedulers :
        job[s].fresh => /\ pc[s] \in {"update", "event"}
                        /\ pods[Head(s).name] # None
                        /\ pods[Head(s).name].node = job[s].read

IInv == TypeOK /\ FreshIsCurrent

LEMMA NoJobType == NoJob \in Jobs /\ NoJob.batch = {}
BY DEF NoJob, Jobs, NoView, Views

LEMMA InitIInv == Init => IInv
<1>1. Init => TypeOK
  BY NoJobType DEF Init, TypeOK, LocalsOK, Steps
<1>2. Init => FreshIsCurrent
  BY DEF Init, FreshIsCurrent, NoJob
<1> QED BY <1>1, <1>2 DEF IInv

LEMMA SpendTypeOK ==
    ASSUME TypeOK, NEW k \in Kinds, Spend(k)
    PROVE  spent' \in [Kinds -> Nat]
BY LimitAssumption DEF TypeOK, Spend

\* A scheduler's next step and the locals it has there.
LEMMA JobReplaced ==
    ASSUME TypeOK, NEW s \in Schedulers, NEW j \in Jobs, NEW step \in Steps,
           job' = [job EXCEPT ![s] = j], Goto(s, step),
           \A i, k \in j.batch : i.name = k.name => i = k,
           step # "idle" => j.batch # {},
           step \in {"decide", "bind", "get", "update", "event"} => j.seen # {}
    PROVE  /\ job' \in [Schedulers -> Jobs]
           /\ pc' \in [Schedulers -> Steps]
           /\ \A t \in Schedulers : LocalsOK(t)'
<1>1. job' \in [Schedulers -> Jobs] /\ pc' \in [Schedulers -> Steps]
  BY DEF TypeOK, Goto
<1>2. LocalsOK(s)'
  <2>1. job'[s] = j /\ pc'[s] = step
    BY DEF TypeOK, Goto
  <2> QED BY <2>1, Zenon DEF LocalsOK
<1>3. ASSUME NEW t \in Schedulers, t # s
      PROVE  LocalsOK(t)'
  <2>1. job'[t] = job[t] /\ pc'[t] = pc[t]
    BY <1>3 DEF TypeOK, Goto
  <2>2. LocalsOK(t)
    BY DEF TypeOK
  <2> QED BY <2>1, <2>2, Zenon DEF LocalsOK
<1> QED BY <1>1, <1>2, <1>3

\* ScheduleNext returns.
LEMMA ReturnTypeOK ==
    ASSUME TypeOK, NEW s \in Schedulers, Return(s)
    PROVE  /\ job' \in [Schedulers -> Jobs]
           /\ pc' \in [Schedulers -> Steps]
           /\ \A t \in Schedulers : LocalsOK(t)'
BY NoJobType, JobReplaced DEF Return, Steps

LEMMA ListPendingTypeOK ==
    ASSUME TypeOK, NEW s \in Schedulers, ListPending(s)
    PROVE  TypeOK'
<1> DEFINE pending == {p \in Pods : Pending(p)}
           batch == {[name |-> p, uid |-> pods[p].uid] : p \in pending}
           j == [job[s] EXCEPT !.batch = batch]
<1>1. CASE pending = {}
  BY <1>1 DEF TypeOK, LocalsOK, ListPending, ClusterUnchanged
<1>2. CASE pending # {}
  <2>1. \A p \in pending : pods[p].uid \in Nat
    BY DEF TypeOK, PodObjects, Pending
  <2>2. batch \in SUBSET Items /\ batch # {}
    <3>1. \A p \in pending : [name |-> p, uid |-> pods[p].uid] \in Items
      BY <2>1 DEF Items
    <3> QED BY <1>2, <3>1
  <2>3. \A i, k \in batch : i.name = k.name => i = k
    OBVIOUS
  <2>4. job' = [job EXCEPT ![s] = j] /\ Goto(s, "nodes")
    BY <1>2 DEF ListPending
  <2> HIDE DEF batch
  <2>5. j \in Jobs /\ j.batch = batch
    BY <2>2 DEF TypeOK, Jobs
  <2> HIDE DEF j
  <2> QED BY <2>2, <2>3, <2>4, <2>5, JobReplaced
             DEF TypeOK, ListPending, ClusterUnchanged, Steps
<1> QED BY <1>1, <1>2

LEMMA ListNodesTypeOK ==
    ASSUME TypeOK, NEW s \in Schedulers, ListNodes(s)
    PROVE  TypeOK'
BY DEF TypeOK, LocalsOK, ListNodes, Goto, ClusterUnchanged, Jobs, Steps

LEMMA TakeSnapshotTypeOK ==
    ASSUME TypeOK, NEW s \in Schedulers, pc[s] = "telemetry",
           job[s].seen # {}, TakeSnapshot(s)
    PROVE  /\ job' \in [Schedulers -> Jobs]
           /\ pc' \in [Schedulers -> Steps]
           /\ \A t \in Schedulers : LocalsOK(t)'
<1> DEFINE view == [d \in Nodes |-> [p \in Pods |->
                      IF d \in job[s].seen /\ Occupies(p, d) THEN 1 ELSE 0]]
           j == [job[s] EXCEPT !.view = view]
<1>1. view \in Views
  BY DEF Views
<1>2. job' = [job EXCEPT ![s] = j] /\ Goto(s, "decide")
  BY DEF TakeSnapshot
<1> HIDE DEF view
<1>3. j \in Jobs /\ j.batch = job[s].batch /\ j.seen = job[s].seen
  BY <1>1 DEF TypeOK, Jobs
<1> HIDE DEF j
<1> QED BY <1>2, <1>3, JobReplaced DEF TypeOK, LocalsOK, Steps

LEMMA ListTelemetryPodsTypeOK ==
    ASSUME TypeOK, NEW s \in Schedulers, ListTelemetryPods(s)
    PROVE  TypeOK'
BY ReturnTypeOK, TakeSnapshotTypeOK
   DEF TypeOK, ListTelemetryPods, ClusterUnchanged

LEMMA ListFailsTypeOK ==
    ASSUME TypeOK, NEW s \in Schedulers, ListFails(s)
    PROVE  TypeOK'
BY ReturnTypeOK, SpendTypeOK DEF TypeOK, ListFails, ClusterUnchanged, Kinds

\* The rest of a batch is a batch.
LEMMA NextPodTypeOK ==
    ASSUME TypeOK, NEW s \in Schedulers, NEW view \in Views, NextPod(s, view),
           pc[s] \in {"decide", "event"}
    PROVE  /\ job' \in [Schedulers -> Jobs]
           /\ pc' \in [Schedulers -> Steps]
           /\ \A t \in Schedulers : LocalsOK(t)'
<1> DEFINE rest == job[s].batch \ {Head(s)}
           j == [NoJob EXCEPT !.batch = rest, !.seen = job[s].seen, !.view = view]
<1>1. CASE rest = {}
  BY <1>1, ReturnTypeOK DEF NextPod
<1>2. CASE rest # {}
  <2>1. j \in Jobs /\ j.batch = rest /\ j.seen = job[s].seen
    BY DEF TypeOK, Jobs, NoJob
  <2>2. job' = [job EXCEPT ![s] = j] /\ Goto(s, "decide")
    BY <1>2 DEF NextPod
  <2> HIDE DEF j
  <2> QED BY <1>2, <2>1, <2>2, JobReplaced DEF TypeOK, LocalsOK, Steps
<1> QED BY <1>1, <1>2

LEMMA EmitTypeOK ==
    ASSUME TypeOK, NEW s \in Schedulers, pc[s] # "idle",
           NEW reason \in {"ScheduledByGeminiFlash", "FailedScheduling"},
           Emit(s, reason)
    PROVE  event' \in [reason : {"ScheduledByGeminiFlash", "FailedScheduling"},
                       uid : Nat, node : Nodes \cup {None}]
<1>1. Head(s).uid \in Nat /\ job[s].node \in Nodes \cup {None}
  BY HeadInBatch DEF TypeOK, LocalsOK, Jobs
<1> QED BY <1>1 DEF Emit

LEMMA DecideTypeOK ==
    ASSUME TypeOK, NEW s \in Schedulers, Decide(s)
    PROVE  TypeOK'
BY StraysAssumption
   DEF TypeOK, LocalsOK, Decide, Goto, ClusterUnchanged, Jobs, Steps

LEMMA DecideFailsTypeOK ==
    ASSUME TypeOK, NEW s \in Schedulers, DecideFails(s)
    PROVE  TypeOK'
<1>1. job[s].view \in Views
  BY DEF TypeOK, Jobs
<1>2. event' = event \/ Emit(s, "FailedScheduling")
  BY DEF DecideFails
<1>3. spent' \in [Kinds -> Nat]
  BY SpendTypeOK DEF DecideFails, Kinds
<1> QED BY <1>1, <1>2, <1>3, NextPodTypeOK, EmitTypeOK DEF TypeOK, DecideFails

\* A version that moves on changes no more than what is known to be fresh.
LEMMA OutdatedTypeOK ==
    ASSUME TypeOK, NEW p, job' = Outdated(p)
    PROVE  /\ job' \in [Schedulers -> Jobs]
           /\ \A t \in Schedulers :
                /\ job'[t] = [job[t] EXCEPT !.fresh = job'[t].fresh]
                /\ job'[t].batch = job[t].batch /\ job'[t].seen = job[t].seen
                /\ job'[t].node = job[t].node /\ job'[t].view = job[t].view
                /\ job'[t].read = job[t].read
                /\ job'[t].fresh =>
                     job[t].fresh /\ (job[t].batch = {} \/ Head(t).name # p)
                /\ Head(t)' = Head(t)
<1>1. ASSUME NEW t \in Schedulers
      PROVE  /\ job'[t] \in Jobs
             /\ job'[t] = [job[t] EXCEPT !.fresh = job'[t].fresh]
             /\ job'[t].batch = job[t].batch /\ job'[t].seen = job[t].seen
             /\ job'[t].node = job[t].node /\ job'[t].view = job[t].view
             /\ job'[t].read = job[t].read
             /\ job'[t].fresh =>
                  job[t].fresh /\ (job[t].batch = {} \/ Head(t).name # p)
  <2>1. job[t] \in Jobs
    BY DEF TypeOK
  <2>2. job'[t] = IF job[t].batch # {} /\ Head(t).name = p
                  THEN [job[t] EXCEPT !.fresh = FALSE] ELSE job[t]
    BY DEF Outdated
  <2> QED BY <2>1, <2>2 DEF Jobs
<1>2. \A t \in Schedulers : Head(t)' = Head(t)
  BY <1>1 DEF Head
<1>3. job' \in [Schedulers -> Jobs]
  BY <1>1 DEF Outdated
<1> QED BY <1>1, <1>2, <1>3

LEMMA BindToTypeOK ==
    ASSUME TypeOK, NEW s \in Schedulers, Bindable(Binding(s)), BindTo(s),
           pc[s] = "bind"
    PROVE  /\ pods' \in [Pods -> PodObjects \cup {None}]
           /\ job' \in [Schedulers -> Jobs]
<1>1. Head(s).name \in Pods /\ pods[Head(s).name] \in PodObjects
  BY HeadInBatch DEF TypeOK, LocalsOK, Bindable, Binding
<1>2. job[s].node \in Nodes \cup {None}
  BY DEF TypeOK, Jobs
<1>3. [pods[Head(s).name] EXCEPT !.node = job[s].node] \in PodObjects
  BY <1>1, <1>2 DEF PodObjects
<1> QED BY <1>1, <1>3, OutdatedTypeOK DEF TypeOK, BindTo

LEMMA AnnotateTypeOK ==
    ASSUME TypeOK, NEW s \in Schedulers, Annotate(s), pc[s] = "update",
           pods[Head(s).name] # None
    PROVE  /\ pods' \in [Pods -> PodObjects \cup {None}]
           /\ job' \in [Schedulers -> Jobs]
<1>1. /\ Head(s).name \in Pods /\ pods[Head(s).name] \in PodObjects
      /\ Head(s).uid \in Nat
  BY HeadInBatch DEF TypeOK, LocalsOK
<1>2. job[s].node \in Nodes \cup {None}
  BY DEF TypeOK, Jobs
<1>3. [pods[Head(s).name] EXCEPT !.ann = [uid |-> Head(s).uid, node |-> job[s].node]]
        \in PodObjects
  BY <1>1, <1>2 DEF PodObjects, Annotations
<1> QED BY <1>1, <1>3, OutdatedTypeOK DEF TypeOK, Annotate

\* From one call about a pod to the next the batch and the candidates stay.
LEMMA LocalsKept ==
    ASSUME TypeOK, NEW t \in Schedulers,
           job'[t].batch = job[t].batch, job'[t].seen = job[t].seen,
           pc'[t] = pc[t] \/ pc[t] \in {"decide", "bind", "get", "update", "event"}
    PROVE  LocalsOK(t)'
BY DEF TypeOK, LocalsOK

\* What a step may do with a version a scheduler knows: keep it or forget it.
LEMMA FreshKept ==
    ASSUME IInv,
           \A t \in Schedulers :
             job'[t].fresh => /\ job[t].fresh
                              /\ pc'[t] \in {"update", "event"}
                              /\ job'[t].batch = job[t].batch
                              /\ job'[t].read = job[t].read
                              /\ pods'[Head(t).name] = pods[Head(t).name]
    PROVE  FreshIsCurrent'
<1> SUFFICES ASSUME NEW t \in Schedulers, job'[t].fresh
             PROVE  /\ pc'[t] \in {"update", "event"}
                    /\ pods'[Head(t)'.name] # None
                    /\ pods'[Head(t)'.name].node = job'[t].read
  BY DEF FreshIsCurrent
<1>1. Head(t)' = Head(t)
  BY DEF Head
<1> QED BY <1>1 DEF IInv, FreshIsCurrent

\* A write of pod p by anybody.
LEMMA PodWritten ==
    ASSUME IInv, NEW p, job' = Outdated(p),
           \A q \in Pods : q # p => pods'[q] = pods[q],
           \A t \in Schedulers : job[t].fresh => pc'[t] \in {"update", "event"}
    PROVE  FreshIsCurrent'
<1> SUFFICES ASSUME NEW t \in Schedulers, job'[t].fresh
             PROVE  /\ job[t].fresh
                    /\ pc'[t] \in {"update", "event"}
                    /\ job'[t].batch = job[t].batch
                    /\ job'[t].read = job[t].read
                    /\ pods'[Head(t).name] = pods[Head(t).name]
  BY FreshKept
<1>1. /\ job[t].fresh
      /\ job'[t].batch = job[t].batch /\ job'[t].read = job[t].read
      /\ job[t].batch = {} \/ Head(t).name # p
  BY OutdatedTypeOK DEF IInv
<1>2. job[t].batch # {}
  BY <1>1 DEF IInv, FreshIsCurrent, TypeOK, LocalsOK
<1>3. Head(t).name \in Pods
  BY <1>2, HeadInBatch DEF IInv
<1> QED BY <1>1, <1>2, <1>3

\* A step of scheduler s that forgets the version, or had none.
LEMMA Unwritten ==
    ASSUME IInv, NEW s \in Schedulers, UNCHANGED pods,
           \A t \in Schedulers : t # s => job'[t] = job[t] /\ pc'[t] = pc[t],
           ~job'[s].fresh
    PROVE  FreshIsCurrent'
BY FreshKept DEF IInv, FreshIsCurrent

-----------------------------------------------------------------------------
(***************************************************************************)
(* Every step keeps the invariant.                                         *)
(***************************************************************************)
LEMMA ListsIInv ==
    ASSUME IInv, NEW s \in Schedulers,
           ListPending(s) \/ ListNodes(s) \/ ListTelemetryPods(s) \/ ListFails(s)
    PROVE  IInv'
<1>1. TypeOK'
  BY ListPendingTypeOK, ListNodesTypeOK, ListTelemetryPodsTypeOK, ListFailsTypeOK
     DEF IInv
<1>2. ~job[s].fresh
  BY DEF IInv, FreshIsCurrent, ListPending, ListNodes, ListTelemetryPods, ListFails
<1>3. UNCHANGED pods
  BY DEF ListPending, ListNodes, ListTelemetryPods, ListFails, ClusterUnchanged
<1>4. ~job'[s].fresh
  <2>1. job[s] \in Jobs
    BY DEF IInv, TypeOK
  <2>2. CASE ListPending(s)
    BY <1>2, <2>1, <2>2 DEF IInv, TypeOK, Jobs, ListPending
  <2>3. CASE ListNodes(s)
    BY <1>2, <2>1, <2>3 DEF IInv, TypeOK, Jobs, ListNodes
  <2>4. CASE ListTelemetryPods(s)
    BY <1>2, <2>1, <2>4 DEF IInv, TypeOK, Jobs, ListTelemetryPods, TakeSnapshot,
                            Return, NoJob
  <2>5. CASE ListFails(s)
    BY <2>5 DEF IInv, TypeOK, ListFails, Return, NoJob
  <2> QED BY <2>2, <2>3, <2>4, <2>5
<1>5. \A t \in Schedulers : t # s => job'[t] = job[t] /\ pc'[t] = pc[t]
  BY DEF IInv, TypeOK, ListPending, ListNodes, ListTelemetryPods, ListFails,
         TakeSnapshot, Return, Goto
<1> QED BY <1>1, <1>3, <1>4, <1>5, Unwritten DEF IInv

LEMMA NextPodIInv ==
    ASSUME IInv, NEW s \in Schedulers, NEW view \in Views, NextPod(s, view),
           pc[s] \in {"decide", "event"}, UNCHANGED <<pods, nodes>>,
           spent' \in [Kinds -> Nat],
           \/ UNCHANGED event
           \/ \E reason \in {"ScheduledByGeminiFlash", "FailedScheduling"} :
                Emit(s, reason)
    PROVE  IInv'
<1>1. TypeOK'
  BY NextPodTypeOK, EmitTypeOK DEF IInv, TypeOK
<1>2. ~job'[s].fresh
  <2>1. ~[NoJob EXCEPT !.batch = job[s].batch \ {Head(s)}, !.seen = job[s].seen,
                       !.view = view].fresh
    BY DEF NoJob
  <2>2. ~NoJob.fresh
    BY DEF NoJob
  <2> QED BY <2>1, <2>2 DEF IInv, TypeOK, NextPod, Return
<1>3. \A t \in Schedulers : t # s => job'[t] = job[t] /\ pc'[t] = pc[t]
  BY DEF IInv, TypeOK, NextPod, Return, Goto
<1> QED BY <1>1, <1>2, <1>3, Unwritten DEF IInv

\* A decided node is a name or none.
LEMMA CountedType ==
    ASSUME TypeOK, NEW s \in Schedulers, pc[s] # "idle"
    PROVE  Counted(s) \in Views
<1>1. job[s].view \in Views /\ job[s].seen \in SUBSET Nodes
  BY DEF TypeOK, Jobs
<1>2. Head(s).name \in Pods
  BY HeadInBatch DEF TypeOK, LocalsOK
<1> QED BY <1>1, <1>2 DEF Counted, Views

LEMMA DecideIInv ==
    ASSUME IInv, NEW s \in Schedulers, Decide(s)
    PROVE  IInv'
<1>1. TypeOK'
  BY DecideTypeOK DEF IInv
<1>2. ~job[s].fresh
  BY DEF IInv, FreshIsCurrent, Decide
<1>3. ~job'[s].fresh
  BY <1>2 DEF IInv, TypeOK, Jobs, Decide
<1> QED BY <1>1, <1>3, Unwritten
           DEF IInv, TypeOK, Decide, Goto, ClusterUnchanged

LEMMA PodDoneIInv ==
    ASSUME IInv, NEW s \in Schedulers,
           DecideFails(s) \/ EmitSuccess(s) \/ EmitFails(s)
    PROVE  IInv'
<1>1. CASE DecideFails(s)
  <2>1. job[s].view \in Views
    BY DEF IInv, TypeOK, Jobs
  <2>2. spent' \in [Kinds -> Nat]
    BY <1>1, SpendTypeOK DEF DecideFails, IInv, Kinds
  <2> QED BY <1>1, <2>1, <2>2, NextPodIInv DEF DecideFails
<1>2. CASE EmitSuccess(s) \/ EmitFails(s)
  <2>1. Counted(s) \in Views
    BY <1>2, CountedType DEF IInv, EmitSuccess, EmitFails
  <2>2. spent' \in [Kinds -> Nat]
    BY <1>2, SpendTypeOK DEF EmitSuccess, EmitFails, IInv, Kinds, TypeOK
  <2> QED BY <1>2, <2>1, <2>2, NextPodIInv
             DEF EmitSuccess, EmitFails, ClusterUnchanged
<1> QED BY <1>1, <1>2

LEMMA BindingsIInv ==
    ASSUME IInv, NEW s \in Schedulers,
           Bind(s) \/ BindRefused(s) \/ BindFails(s)
    PROVE  IInv'
<1>1. pc[s] = "bind" /\ Goto(s, "get") /\ UNCHANGED <<nodes, event>>
  BY DEF Bind, BindRefused, BindFails, ClusterUnchanged
<1>2. ~job[s].fresh
  BY <1>1 DEF IInv, FreshIsCurrent
<1>3. spent' \in [Kinds -> Nat]
  BY SpendTypeOK DEF Bind, BindRefused, BindFails, IInv, TypeOK, Kinds
<1>4. pc' \in [Schedulers -> Steps] /\ pc'[s] = "get"
        /\ \A t \in Schedulers : t # s => pc'[t] = pc[t]
  BY <1>1 DEF IInv, TypeOK, Goto, Steps
<1>5. CASE UNCHANGED <<pods, job>>
  <2>1. \A t \in Schedulers : LocalsOK(t)'
    BY <1>1, <1>4, <1>5 DEF IInv, TypeOK, LocalsOK
  <2>2. TypeOK'
    BY <1>1, <1>3, <1>4, <1>5, <2>1 DEF IInv, TypeOK
  <2>3. FreshIsCurrent'
    BY <1>2, <1>4, <1>5, Unwritten
  <2> QED BY <2>2, <2>3 DEF IInv
<1>6. CASE Bindable(Binding(s)) /\ BindTo(s)
  <2>1. pods' \in [Pods -> PodObjects \cup {None}] /\ job' \in [Schedulers -> Jobs]
    BY <1>1, <1>6, BindToTypeOK DEF IInv
  <2>2. job' = Outdated(Head(s).name)
    BY <1>6 DEF BindTo
  <2>3. \A t \in Schedulers : LocalsOK(t)'
    BY <1>1, <1>4, <2>2, OutdatedTypeOK, LocalsKept DEF IInv
  <2>4. TypeOK'
    BY <1>1, <1>3, <1>4, <2>1, <2>3 DEF IInv, TypeOK
  <2>5. \A t \in Schedulers : job[t].fresh => pc'[t] \in {"update", "event"}
    BY <1>2, <1>4 DEF IInv, FreshIsCurrent
  <2>6. \A q \in Pods : q # Head(s).name => pods'[q] = pods[q]
    BY <1>6 DEF BindTo, IInv, TypeOK
  <2>7. FreshIsCurrent'
    BY <2>2, <2>5, <2>6, PodWritten
  <2> QED BY <2>4, <2>7 DEF IInv
<1> QED BY <1>5, <1>6 DEF Bind, BindRefused, BindFails, ClusterUnchanged

LEMMA ReadBackIInv ==
    ASSUME IInv, NEW s \in Schedulers, ReadBack(s)
    PROVE  IInv'
<1> DEFINE p == Head(s).name
<1>1. p \in Pods
  BY HeadInBatch DEF IInv, TypeOK, LocalsOK, ReadBack
<1>2. UNCHANGED <<pods, nodes, event, spent>> /\ pc[s] = "get"
  BY DEF ReadBack, ClusterUnchanged
<1>3. ~job[s].fresh
  BY <1>2 DEF IInv, FreshIsCurrent
<1>4. CASE pods[p] = None
  <2>1. UNCHANGED job /\ Goto(s, "event")
    BY <1>4 DEF ReadBack
  <2>2. TypeOK'
    BY <1>2, <2>1 DEF IInv, TypeOK, LocalsOK, Goto, Steps
  <2>3. FreshIsCurrent'
    BY <1>2, <1>3, <2>1, Unwritten DEF IInv, TypeOK, Goto
  <2> QED BY <2>2, <2>3 DEF IInv
<1>5. CASE pods[p] # None
  <2> DEFINE j == [job[s] EXCEPT !.read = pods[p].node, !.fresh = TRUE]
  <2>1. pods[p].node \in Nodes \cup {None}
    BY <1>1, <1>5 DEF IInv, TypeOK, PodObjects
  <2>2. /\ j \in Jobs /\ j.batch = job[s].batch /\ j.seen = job[s].seen
        /\ j.read = pods[p].node
    BY <2>1 DEF IInv, TypeOK, Jobs
  <2>3. job' = [job EXCEPT ![s] = j] /\ Goto(s, "update")
    BY <1>5 DEF ReadBack
  <2> HIDE DEF j
  <2>4. TypeOK'
    <3>1. LocalsOK(s)
      BY DEF IInv, TypeOK
    <3>2. /\ job' \in [Schedulers -> Jobs] /\ pc' \in [Schedulers -> Steps]
          /\ \A t \in Schedulers : LocalsOK(t)'
      BY <1>2, <2>2, <2>3, <3>1, JobReplaced DEF IInv, LocalsOK, Steps
    <3> QED BY <1>2, <3>2 DEF IInv, TypeOK
  <2>5. job'[s] = j /\ pc'[s] = "update"
          /\ \A t \in Schedulers : t # s => job'[t] = job[t] /\ pc'[t] = pc[t]
    BY <2>3 DEF IInv, TypeOK, Goto
  <2>6. \A t \in Schedulers : Head(t)' = Head(t)
    BY <2>2, <2>5 DEF Head
  <2>7. FreshIsCurrent'
    BY <1>2, <1>5, <2>2, <2>5, <2>6 DEF IInv, FreshIsCurrent
  <2> QED BY <2>4, <2>7 DEF IInv
<1> QED BY <1>4, <1>5

LEMMA ReadBackFailsIInv ==
    ASSUME IInv, NEW s \in Schedulers, ReadBackFails(s)
    PROVE  IInv'
<1>1. ~job[s].fresh
  BY DEF IInv, FreshIsCurrent, ReadBackFails
<1>2. spent' \in [Kinds -> Nat]
  BY SpendTypeOK DEF ReadBackFails, IInv, Kinds
<1>3. TypeOK'
  BY <1>2 DEF IInv, TypeOK, LocalsOK, ReadBackFails, Goto, ClusterUnchanged, Steps
<1>4. FreshIsCurrent'
  BY <1>1, Unwritten DEF IInv, TypeOK, ReadBackFails, Goto, ClusterUnchanged
<1> QED BY <1>3, <1>4 DEF IInv

LEMMA UpdatesIInv ==
    ASSUME IInv, NEW s \in Schedulers,
           Update(s) \/ UpdateRefused(s) \/ UpdateFails(s)
    PROVE  IInv'
<1>1. pc[s] = "update" /\ Goto(s, "event") /\ UNCHANGED <<nodes, event>>
  BY DEF Update, UpdateRefused, UpdateFails, ClusterUnchanged
<1>2. spent' \in [Kinds -> Nat]
  BY SpendTypeOK DEF Update, UpdateRefused, UpdateFails, IInv, TypeOK, Kinds
<1>3. pc' \in [Schedulers -> Steps] /\ pc'[s] = "event"
        /\ \A t \in Schedulers : t # s => pc'[t] = pc[t]
  BY <1>1 DEF IInv, TypeOK, Goto, Steps
<1>4. \A t \in Schedulers : job[t].fresh => pc'[t] \in {"update", "event"}
  BY <1>3 DEF IInv, FreshIsCurrent
<1>5. CASE UNCHANGED <<pods, job>>
  <2>1. \A t \in Schedulers : LocalsOK(t)'
    BY <1>1, <1>3, <1>5, LocalsKept DEF IInv
  <2>2. TypeOK'
    BY <1>1, <1>2, <1>3, <1>5, <2>1 DEF IInv, TypeOK
  <2>3. FreshIsCurrent'
    BY <1>4, <1>5, FreshKept
  <2> QED BY <2>2, <2>3 DEF IInv
<1>6. CASE Updatable(s) /\ Annotate(s)
  <2>1. pods[Head(s).name] # None
    BY <1>6 DEF Updatable, IInv, FreshIsCurrent
  <2>2. pods' \in [Pods -> PodObjects \cup {None}] /\ job' \in [Schedulers -> Jobs]
    BY <1>1, <1>6, <2>1, AnnotateTypeOK DEF IInv
  <2>3. job' = Outdated(Head(s).name)
    BY <1>6 DEF Annotate
  <2>4. \A t \in Schedulers : LocalsOK(t)'
    BY <1>1, <1>3, <2>3, OutdatedTypeOK, LocalsKept DEF IInv
  <2>5. TypeOK'
    BY <1>1, <1>2, <1>3, <2>2, <2>4 DEF IInv, TypeOK
  <2>6. \A q \in Pods : q # Head(s).name => pods'[q] = pods[q]
    BY <1>6 DEF Annotate, IInv, TypeOK
  <2>7. FreshIsCurrent'
    BY <1>4, <2>3, <2>6, PodWritten
  <2> QED BY <2>5, <2>7 DEF IInv
<1> QED BY <1>5, <1>6 DEF Update, UpdateRefused, UpdateFails, ClusterUnchanged

LEMMA CrashIInv ==
    ASSUME IInv, NEW s \in Schedulers, Crash(s)
    PROVE  IInv'
<1>1. spent' \in [Kinds -> Nat]
  BY SpendTypeOK DEF Crash, IInv, Kinds
<1>2. TypeOK'
  BY <1>1, ReturnTypeOK DEF Crash, IInv, TypeOK, ClusterUnchanged
<1>3. FreshIsCurrent'
  BY Unwritten DEF Crash, IInv, TypeOK, Return, Goto, NoJob, ClusterUnchanged
<1> QED BY <1>2, <1>3 DEF IInv

\* A write of the environment into one pod.
LEMMA PodWriteIInv ==
    ASSUME IInv, NEW p \in Pods, NEW pod \in PodObjects \cup {None},
           pods' = [pods EXCEPT ![p] = pod], job' = Outdated(p),
           UNCHANGED <<nodes, pc, event>>, spent' \in [Kinds -> Nat]
    PROVE  IInv'
<1>1. job' \in [Schedulers -> Jobs] /\ \A t \in Schedulers : LocalsOK(t)'
  BY OutdatedTypeOK, LocalsKept DEF IInv
<1>2. TypeOK'
  BY <1>1 DEF IInv, TypeOK
<1>3. \A t \in Schedulers : job[t].fresh => pc'[t] \in {"update", "event"}
  BY DEF IInv, FreshIsCurrent
<1>4. FreshIsCurrent'
  BY <1>3, PodWritten DEF IInv, TypeOK
<1> QED BY <1>2, <1>4 DEF IInv

LEMMA EnvironmentIInv ==
    ASSUME IInv, Environment
    PROVE  IInv'
<1>1. ASSUME NEW k \in Kinds, Spend(k) PROVE spent' \in [Kinds -> Nat]
  BY <1>1, SpendTypeOK DEF IInv
<1>2. \A p \in Pods, phase \in {"Active", "Done", "Terminating"} :
        pods[p] # None => [pods[p] EXCEPT !.phase = phase] \in PodObjects
  BY DEF IInv, TypeOK, PodObjects
<1>3. ASSUME NEW p \in Pods, CreatePod(p) PROVE IInv'
  <2> DEFINE pod == [uid |-> spent["create"] + 1, node |-> None,
                     phase |-> "Active", ann |-> None]
  <2>1. spent["create"] + 1 \in Nat
    BY DEF IInv, TypeOK, Kinds
  <2>2. pod \in PodObjects
    BY <2>1 DEF PodObjects
  <2>3. spent' \in [Kinds -> Nat]
    BY <1>1, <1>3 DEF CreatePod, Kinds
  <2>4. pods' = [pods EXCEPT ![p] = pod]
    BY <1>3 DEF CreatePod
  <2> HIDE DEF pod
  <2>5. TypeOK'
    BY <1>3, <2>2, <2>3, <2>4, LocalsKept DEF IInv, TypeOK, CreatePod
  <2>6. FreshIsCurrent'
    BY <1>3, <2>4, FreshKept DEF IInv, TypeOK, FreshIsCurrent, CreatePod
  <2> QED BY <2>5, <2>6 DEF IInv
<1>4. ASSUME NEW p \in Pods, DeletePod(p) PROVE IInv'
  <2>1. spent' \in [Kinds -> Nat]
    BY <1>1, <1>4 DEF DeletePod, Kinds
  <2>2. CASE Remove(p)
    BY <1>4, <2>1, <2>2, PodWriteIInv DEF DeletePod, Remove
  <2>3. CASE SetPhase(p, "Terminating")
    BY <1>2, <1>4, <2>1, <2>3, PodWriteIInv DEF DeletePod, SetPhase
  <2> QED BY <1>4, <2>2, <2>3 DEF DeletePod
<1>5. ASSUME NEW p \in Pods, PodGone(p) PROVE IInv'
  BY <1>5, PodWriteIInv DEF PodGone, Remove, IInv, TypeOK
<1>6. ASSUME NEW p \in Pods, Finish(p) PROVE IInv'
  <2>1. spent' \in [Kinds -> Nat]
    BY <1>1, <1>6 DEF Finish, Kinds
  <2> QED BY <1>2, <1>6, <2>1, PodWriteIInv DEF Finish, SetPhase
<1>7. ASSUME NEW p \in Pods, KubeletReport(p) PROVE IInv'
  <2>1. spent' \in [Kinds -> Nat]
    BY <1>1, <1>7 DEF KubeletReport, Kinds
  <2>2. pods' = [pods EXCEPT ![p] = pods[p]] /\ pods[p] \in PodObjects
    BY <1>7 DEF KubeletReport, IInv, TypeOK
  <2> QED BY <1>7, <2>1, <2>2, PodWriteIInv DEF KubeletReport
<1>8. ASSUME NEW d \in Nodes, NodeChange(d) PROVE IInv'
  <2>1. spent' \in [Kinds -> Nat]
    BY <1>1, <1>8 DEF NodeChange, Kinds
  <2>2. TypeOK'
    BY <1>8, <2>1, LocalsKept DEF IInv, TypeOK, NodeChange
  <2>3. FreshIsCurrent'
    BY <1>8, FreshKept DEF IInv, FreshIsCurrent, NodeChange
  <2> QED BY <2>2, <2>3 DEF IInv
<1> QED BY <1>3, <1>4, <1>5, <1>6, <1>7, <1>8 DEF Environment

LEMMA NextIInv == IInv /\ [Next]_vars => IInv'
<1> SUFFICES ASSUME IInv, [Next]_vars
             PROVE  IInv'
  OBVIOUS
<1>1. ASSUME NEW s \in Schedulers, Step(s) PROVE IInv'
  BY <1>1, ListsIInv, DecideIInv, PodDoneIInv, BindingsIInv, ReadBackIInv,
     UpdatesIInv DEF Step
<1>2. ASSUME NEW s \in Schedulers, Fault(s) PROVE IInv'
  BY <1>2, ListsIInv, PodDoneIInv, BindingsIInv, ReadBackFailsIInv, UpdatesIInv,
     CrashIInv DEF Fault, CallFails
<1>3. CASE UNCHANGED vars
  <2>1. TypeOK'
    BY <1>3, LocalsKept DEF IInv, TypeOK, vars
  <2>2. FreshIsCurrent'
    BY <1>3, FreshKept DEF IInv, FreshIsCurrent, vars
  <2> QED BY <2>1, <2>2 DEF IInv
<1> QED BY <1>1, <1>2, <1>3, EnvironmentIInv DEF Next

THEOREM Inductive == Spec => []IInv
BY InitIInv, NextIInv, PTL DEF Spec

\* The state of the schedulers always has the shape the code gives it: no
\* step of ScheduleNext dereferences a pod, a batch or a list of candidates
\* that is not there, whatever the cluster does between two calls.
THEOREM TypeCorrect == Spec => []TypeOK
<1>1. IInv => TypeOK
  BY DEF IInv
<1> QED BY <1>1, Inductive, PTL
-----------------------------------------------------------------------------
(***************************************************************************)
(* What a step does to the pods and to the schedulers' locals.             *)
(***************************************************************************)
\* A pod is created.
Arrives(p) ==
    /\ pods[p] = None
    /\ \E uid \in Nat : pods' = [pods EXCEPT ![p] = [uid |-> uid, node |-> None,
                                              phase |-> "Active", ann |-> None]]
    /\ UNCHANGED <<pc, job>>

\* A pod is written by the cluster: it goes, or its phase changes (a finished
\* one stays finished), or something nobody looks at.
Rewritten(p) ==
    /\ pods[p] # None
    /\ job' = Outdated(p)
    /\ UNCHANGED pc
    /\ \/ UNCHANGED pods
       \/ pods' = [pods EXCEPT ![p] = None]
       \/ \E phase \in {"Done", "Terminating"} :
            /\ phase = "Done" \/ pods[p].phase # "Done"
            /\ pods' = [pods EXCEPT ![p].phase = phase]

Binds(s) ==
    /\ pc[s] = "bind"
    /\ Bindable(Binding(s)) /\ BindTo(s)
    /\ Goto(s, "get")

Annotates(s) ==
    /\ pc[s] = "update"
    /\ Updatable(s) /\ Annotate(s)
    /\ Goto(s, "event")

\* The code goes on with nothing changed.
GoesOn(s) ==
    /\ \/ pc[s] = "bind" /\ Goto(s, "get")
       \/ pc[s] \in {"get", "update"} /\ Goto(s, "event")
    /\ UNCHANGED <<pods, job>>

Reads(s) ==
    /\ pc[s] = "get"
    /\ pods[Head(s).name] # None
    /\ job' = [job EXCEPT ![s].read = pods[Head(s).name].node, ![s].fresh = TRUE]
    /\ Goto(s, "update")
    /\ UNCHANGED pods

\* The batch is drawn up.
Starts(s) ==
    /\ pc[s] = "idle"
    /\ job' = [job EXCEPT ![s].batch =
                 {[name |-> p, uid |-> pods[p].uid] : p \in {q \in Pods : Pending(q)}}]
    /\ Goto(s, "nodes")
    /\ UNCHANGED pods

Looks(s) ==
    /\ \/ pc[s] = "nodes" /\ job' = [job EXCEPT ![s].seen = nodes] /\ Goto(s, "telemetry")
       \/ pc[s] = "telemetry" /\ TakeSnapshot(s)
    /\ UNCHANGED pods

\* The pod is dealt with, without or with a decision.
Leaves(s) ==
    /\ \/ pc[s] = "decide" /\ NextPod(s, job[s].view)
       \/ pc[s] = "event" /\ NextPod(s, Counted(s))
    /\ UNCHANGED pods

Ends(s) == Return(s) /\ UNCHANGED pods

Works(s) ==
    \/ Binds(s) \/ Annotates(s) \/ GoesOn(s) \/ Reads(s)
    \/ Starts(s) \/ Looks(s) \/ Decide(s) \/ Leaves(s) \/ Ends(s)

\* All that the proofs below use of a step.
Moves ==
    \/ UNCHANGED <<pods, pc, job>>
    \/ \E p \in Pods : Arrives(p) \/ Rewritten(p)
    \/ \E s \in Schedulers : Works(s)

\* What a scheduler does by itself, or what goes wrong for it.
LEMMA StepWorks ==
    ASSUME NEW s \in Schedulers, Step(s) \/ Fault(s)
    PROVE  Works(s) \/ UNCHANGED <<pods, pc, job>>
<1>1. CASE Step(s)
  <2>1. CASE ListPending(s)
    BY <2>1 DEF ListPending, Works, Starts, ClusterUnchanged
  <2>2. CASE ListNodes(s)
    BY <2>2 DEF ListNodes, Works, Looks, ClusterUnchanged
  <2>3. CASE ListTelemetryPods(s)
    BY <2>3 DEF ListTelemetryPods, Works, Looks, Ends, ClusterUnchanged
  <2>4. CASE Bind(s) \/ BindRefused(s)
    BY <2>4 DEF Bind, BindRefused, Works, Binds, GoesOn, ClusterUnchanged
  <2>5. CASE ReadBack(s)
    BY <2>5 DEF ReadBack, Works, Reads, GoesOn, ClusterUnchanged
  <2>6. CASE Update(s) \/ UpdateRefused(s)
    BY <2>6 DEF Update, UpdateRefused, Works, Annotates, GoesOn, ClusterUnchanged
  <2>7. CASE EmitSuccess(s)
    BY <2>7 DEF EmitSuccess, Works, Leaves
  <2> QED BY <1>1, <2>1, <2>2, <2>3, <2>4, <2>5, <2>6, <2>7 DEF Step, Works
<1>2. CASE Fault(s)
  <2>1. CASE ListFails(s) \/ Crash(s)
    BY <2>1 DEF ListFails, Crash, Works, Ends, ClusterUnchanged
  <2>2. CASE DecideFails(s) \/ EmitFails(s)
    BY <2>2 DEF DecideFails, EmitFails, Works, Leaves, ClusterUnchanged
  <2>3. CASE BindFails(s)
    BY <2>3 DEF BindFails, Works, Binds, GoesOn
  <2>4. CASE ReadBackFails(s)
    BY <2>4 DEF ReadBackFails, Works, GoesOn, ClusterUnchanged
  <2>5. CASE UpdateFails(s)
    BY <2>5 DEF UpdateFails, Works, Annotates, GoesOn
  <2> QED BY <1>2, <2>1, <2>2, <2>3, <2>4, <2>5 DEF Fault, CallFails
<1> QED BY <1>1, <1>2

LEMMA StepMoves == ASSUME IInv, [Next]_vars PROVE Moves
<1>1. ASSUME NEW p \in Pods, CreatePod(p) PROVE Arrives(p)
  <2>1. spent["create"] + 1 \in Nat
    BY DEF IInv, TypeOK, Kinds
  <2> QED BY <1>1, <2>1 DEF CreatePod, Arrives
<1>2. ASSUME NEW p \in Pods, DeletePod(p) \/ PodGone(p) PROVE Rewritten(p)
  BY <1>2 DEF DeletePod, PodGone, Remove, SetPhase, Rewritten
<1>3. ASSUME NEW p \in Pods, Finish(p) \/ KubeletReport(p) PROVE Rewritten(p)
  BY <1>3 DEF Finish, KubeletReport, SetPhase, Rewritten
<1>4. CASE Environment
  BY <1>1, <1>2, <1>3, <1>4 DEF Environment, NodeChange, Moves
<1>5. CASE UNCHANGED vars
  BY <1>5 DEF vars, Moves
<1> QED BY StepWorks, <1>4, <1>5 DEF Next, Moves

-----------------------------------------------------------------------------
(***************************************************************************)
(* However many schedulers: a rationale explains the node the pod is on,   *)
(* as long as the model's answers name a node.                             *)
(***************************************************************************)
AnswersNamed == None \notin Strays

\* A decision is carried from call to call.
DecisionNamed ==
    \A s \in Schedulers :
        pc[s] \in {"bind", "get", "update", "event"} => job[s].node # None

\* Only a pod on a node is explained: RationaleMatchesNode alone would allow
\* an unbound pod with a rationale, which the next binding makes wrong.
OnlyBoundExplained ==
    \A p \in Pods :
        pods[p] # None /\ pods[p].ann # None => pods[p].node # None

PlacedInv == DecisionNamed /\ OnlyBoundExplained /\ RationaleMatchesNode

LEMMA InitPlaced == Init => PlacedInv
BY DEF Init, PlacedInv, DecisionNamed, OnlyBoundExplained, RationaleMatchesNode

LEMMA DecisionKept ==
    ASSUME AnswersNamed, IInv, DecisionNamed, Moves
    PROVE  DecisionNamed'
<1>1. ASSUME NEW p, Rewritten(p) PROVE DecisionNamed'
  BY <1>1, OutdatedTypeOK DEF Rewritten, IInv, DecisionNamed
<1>2. ASSUME NEW s \in Schedulers, Binds(s) \/ Annotates(s) PROVE DecisionNamed'
  <2>1. \A t \in Schedulers : job'[t].node = job[t].node
    BY <1>2, OutdatedTypeOK DEF Binds, Annotates, BindTo, Annotate, IInv
  <2> QED BY <1>2, <2>1 DEF Binds, Annotates, Goto, DecisionNamed, IInv, TypeOK
<1>3. ASSUME NEW s \in Schedulers, GoesOn(s) PROVE DecisionNamed'
  BY <1>3 DEF GoesOn, Goto, DecisionNamed, IInv, TypeOK
<1>4. ASSUME NEW s \in Schedulers, Reads(s) PROVE DecisionNamed'
  <2>1. \A t \in Schedulers : job'[t].node = job[t].node
    BY <1>4 DEF Reads, IInv, TypeOK, Jobs
  <2> QED BY <1>4, <2>1 DEF Reads, Goto, DecisionNamed, IInv, TypeOK
<1>5. ASSUME NEW s \in Schedulers, Starts(s) \/ Looks(s) \/ Leaves(s) \/ Ends(s)
      PROVE  DecisionNamed'
  BY <1>5 DEF Starts, Looks, TakeSnapshot, Leaves, NextPod, Ends, Return, Goto,
              DecisionNamed, IInv, TypeOK
<1>6. ASSUME NEW s \in Schedulers, Decide(s) PROVE DecisionNamed'
  <2>1. \A d \in job[s].seen \cup Strays : d # None
    BY StraysAssumption DEF AnswersNamed, IInv, TypeOK, Jobs
  <2>2. job'[s].node # None
    BY <1>6, <2>1 DEF Decide, IInv, TypeOK, Jobs
  <2> QED BY <1>6, <2>2 DEF Decide, Goto, DecisionNamed, IInv, TypeOK
<1> QED BY <1>1, <1>2, <1>3, <1>4, <1>5, <1>6
           DEF Moves, Works, Arrives, DecisionNamed

\* Everything but a binding, a rationale and the cluster leaves the pods alone.
LEMMA PodCases ==
    ASSUME IInv, Moves
    PROVE  \/ UNCHANGED pods
           \/ \E p \in Pods : Arrives(p) \/ Rewritten(p)
           \/ \E s \in Schedulers : Binds(s) \/ Annotates(s)
BY DEF Moves, Works, GoesOn, Reads, Starts, Looks, Decide, Leaves, Ends,
       ClusterUnchanged

\* The pod a scheduler is at, where it binds it and where it explains it.
LEMMA BindsFacts ==
    ASSUME IInv, NEW s \in Schedulers, Binds(s)
    PROVE  /\ Head(s) \in job[s].batch /\ Head(s).name \in Pods
           /\ pods[Head(s).name] \in PodObjects
           /\ pods[Head(s).name].node = None
           /\ job[s].node \in Nodes
           /\ pods' = [pods EXCEPT ![Head(s).name].node = job[s].node]
<1>1. job[s].batch # {}
  BY DEF IInv, TypeOK, LocalsOK, Binds
<1>2. job[s].node \in Nodes \cup {None}
  BY DEF IInv, TypeOK, Jobs
<1> QED BY <1>1, <1>2, HeadInBatch DEF IInv, TypeOK, Binds, Bindable, Binding, BindTo

LEMMA AnnotatesFacts ==
    ASSUME IInv, NEW s \in Schedulers, Annotates(s)
    PROVE  /\ Head(s) \in job[s].batch /\ Head(s).name \in Pods
           /\ pods[Head(s).name] \in PodObjects
           /\ pods[Head(s).name].node = job[s].node
           /\ pods' = [pods EXCEPT ![Head(s).name].ann =
                         [uid |-> Head(s).uid, node |-> job[s].node]]
<1>1. job[s].batch # {}
  BY DEF IInv, TypeOK, LocalsOK, Annotates
<1> QED BY <1>1, HeadInBatch
           DEF IInv, TypeOK, FreshIsCurrent, Annotates, Updatable, Annotate

\* What a pod says after it was written, and the other pods.
LEMMA PlacedKept ==
    ASSUME AnswersNamed, IInv, PlacedInv, Moves
    PROVE  OnlyBoundExplained' /\ RationaleMatchesNode'
<1> SUFFICES ASSUME NEW q \in Pods, pods'[q] # None, pods'[q].ann # None
             PROVE  /\ pods'[q].node # None
                    /\ pods'[q].ann.node = pods'[q].node
  BY DEF OnlyBoundExplained, RationaleMatchesNode
<1>1. pods[q] # None => pods[q] \in PodObjects
  BY DEF IInv, TypeOK
<1>2. pods[q] # None /\ pods[q].ann # None =>
        pods[q].node # None /\ pods[q].ann.node = pods[q].node
  BY DEF PlacedInv, OnlyBoundExplained, RationaleMatchesNode
<1>3. ASSUME NEW p \in Pods, Arrives(p)
      PROVE  pods'[q].node # None /\ pods'[q].ann.node = pods'[q].node
  BY <1>2, <1>3 DEF Arrives, IInv, TypeOK
<1>4. ASSUME NEW p \in Pods, Rewritten(p)
      PROVE  pods'[q].node # None /\ pods'[q].ann.node = pods'[q].node
  <2>1. CASE pods'[q] = pods[q]
    BY <1>2, <2>1
  <2>2. CASE pods'[q] # pods[q]
    <3>1. PICK phase : pods' = [pods EXCEPT ![p].phase = phase]
      BY <1>4, <2>2 DEF Rewritten, IInv, TypeOK
    <3>2. p = q /\ pods[q] # None
      BY <1>4, <2>2, <3>1 DEF Rewritten, IInv, TypeOK
    <3>3. pods'[q] = [pods[q] EXCEPT !.phase = phase]
      BY <3>1, <3>2 DEF IInv, TypeOK
    <3>4. pods'[q].node = pods[q].node /\ pods'[q].ann = pods[q].ann
      BY <1>1, <3>2, <3>3 DEF PodObjects
    <3> QED BY <1>2, <3>2, <3>4
  <2> QED BY <2>1, <2>2
<1>5. ASSUME NEW s \in Schedulers, Binds(s)
      PROVE  pods'[q].node # None /\ pods'[q].ann.node = pods'[q].node
  <2>1. CASE q # Head(s).name
    BY <1>2, <1>5, <2>1, BindsFacts DEF IInv, TypeOK
  <2>2. CASE q = Head(s).name
    <3>1. pods[q] \in PodObjects /\ pods[q].node = None
            /\ pods'[q] = [pods[q] EXCEPT !.node = job[s].node]
      BY <1>5, <2>2, BindsFacts DEF IInv, TypeOK
    <3>2. pods[q] # None /\ pods'[q].ann = pods[q].ann
      BY <3>1, AbsenceAssumption DEF PodObjects
    <3> QED BY <1>2, <3>1, <3>2
  <2> QED BY <2>1, <2>2
<1>6. ASSUME NEW s \in Schedulers, Annotates(s)
      PROVE  pods'[q].node # None /\ pods'[q].ann.node = pods'[q].node
  <2>1. CASE q # Head(s).name
    BY <1>2, <1>6, <2>1, AnnotatesFacts DEF IInv, TypeOK
  <2>2. CASE q = Head(s).name
    <3>1. job[s].node # None
      BY <1>6 DEF Annotates, PlacedInv, DecisionNamed
    <3>2. /\ pods[q] \in PodObjects /\ pods[q].node = job[s].node
          /\ pods'[q] = [pods[q] EXCEPT !.ann =
                           [uid |-> Head(s).uid, node |-> job[s].node]]
      BY <1>6, <2>2, AnnotatesFacts DEF IInv, TypeOK
    <3>3. pods'[q].node = job[s].node /\ pods'[q].ann.node = job[s].node
      BY <3>2 DEF PodObjects
    <3> QED BY <3>1, <3>3
  <2> QED BY <2>1, <2>2
<1>7. CASE UNCHANGED pods
  BY <1>2, <1>7
<1> QED BY <1>3, <1>4, <1>5, <1>6, <1>7, PodCases

LEMMA NextPlaced == AnswersNamed /\ IInv /\ PlacedInv /\ Moves => PlacedInv'
BY DecisionKept, PlacedKept DEF PlacedInv

LEMMA AlwaysPlaced == ASSUME AnswersNamed PROVE Spec => []PlacedInv
<1>1. IInv /\ PlacedInv /\ [Next]_vars => PlacedInv'
  BY StepMoves, NextPlaced
<1> QED BY <1>1, InitPlaced, Inductive, PTL DEF Spec

\* The rationale on a pod explains the node the pod is on: the update carries
\* the node, so the loser of two schedulers that decide differently about a pod
\* never writes its rationale over the winner's.  Answers without a node are
\* excluded: they are carried through all calls, and an update without a node
\* is accepted for a pod that has none yet.
THEOREM RationaleFollows ==
    ASSUME AnswersNamed PROVE Spec => []RationaleMatchesNode
<1>1. PlacedInv => RationaleMatchesNode
  BY DEF PlacedInv
<1> QED BY <1>1, AlwaysPlaced, PTL

-----------------------------------------------------------------------------
(***************************************************************************)
(* ... and so the schedulers implement Placement.tla.                      *)
(***************************************************************************)
placed == [p \in Pods |-> Placed(p)]

LEMMA PlacedType ==
    ASSUME TypeOK, NEW p \in Pods
    PROVE  placed[p] # None <=> pods[p] # None
<1>1. CASE pods[p] # None
  <2>1. pods[p] \in PodObjects
    BY <1>1 DEF TypeOK
  <2>2. placed[p] \in PlacedPods
    BY <1>1, <2>1 DEF placed, Placed, PodObjects, Annotations, PlacedPods
  <2> QED BY <1>1, <2>2, AbsenceAssumption
<1> QED BY <1>1 DEF placed, Placed

LEMMA InitPlacement == Init => Abstract!Init
BY DEF Init, Abstract!Init, Placed

LEMMA StepPlacement ==
    ASSUME AnswersNamed, IInv, IInv', PlacedInv, Moves
    PROVE  [Abstract!Next]_placed
<1> USE DEF placed
<1>1. ASSUME NEW p \in Pods, Arrives(p) PROVE Abstract!Appear(p)
  <2>1. pods'[p] \in PodObjects /\ pods'[p].node = None /\ pods'[p].ann = None
    BY <1>1 DEF Arrives, IInv, TypeOK, PodObjects
  <2>2. Placed(p) = None /\ Placed(p)' = [node |-> None, why |-> None]
    BY <1>1, <2>1, AbsenceAssumption DEF Arrives, Placed
  <2>3. \A q \in Pods : q # p => Placed(q)' = Placed(q)
    BY <1>1 DEF Arrives, Placed, IInv, TypeOK
  <2>4. placed' = [placed EXCEPT ![p] = [node |-> None, why |-> None]]
    BY <2>2, <2>3
  <2> QED BY <2>2, <2>4 DEF Abstract!Appear
<1>2. ASSUME NEW p \in Pods, Rewritten(p) PROVE Abstract!Leave(p) \/ placed' = placed
  <2>1. CASE pods' = [pods EXCEPT ![p] = None]
    BY <1>2, <2>1, PlacedType DEF Rewritten, Abstract!Leave, Placed, IInv, TypeOK
  <2>2. ASSUME NEW phase \in {"Done", "Terminating"},
               pods' = [pods EXCEPT ![p].phase = phase]
        PROVE  placed' = placed
    <3>1. pods[p] \in PodObjects /\ pods'[p] = [pods[p] EXCEPT !.phase = phase]
      BY <1>2, <2>2 DEF Rewritten, IInv, TypeOK
    <3>2. pods'[p] \in PodObjects
      BY <3>1 DEF PodObjects
    <3>3. Placed(p)' = Placed(p)
      BY <1>2, <3>1, <3>2, AbsenceAssumption DEF Rewritten, Placed, PodObjects
    <3>4. \A q \in Pods : q # p => Placed(q)' = Placed(q)
      BY <2>2 DEF Placed, IInv, TypeOK
    <3> QED BY <3>3, <3>4
  <2> QED BY <1>2, <2>1, <2>2 DEF Rewritten, Placed
<1>3. ASSUME NEW s \in Schedulers, Binds(s)
      PROVE  Abstract!Place(Head(s).name, job[s].node)
  <2>1. PICK p \in Pods :
          /\ p = Head(s).name /\ pods[p] \in PodObjects /\ pods[p].node = None
          /\ job[s].node \in Nodes
          /\ pods' = [pods EXCEPT ![p].node = job[s].node]
    BY <1>3, BindsFacts
  <2>2. pods[p] # None /\ pods[p].ann = None
    BY <2>1, AbsenceAssumption DEF PlacedInv, OnlyBoundExplained
  <2>3. pods'[p] = [pods[p] EXCEPT !.node = job[s].node] /\ pods'[p] \in PodObjects
    BY <2>1 DEF IInv, TypeOK, PodObjects
  <2>4. pods'[p] # None /\ pods'[p].node = job[s].node /\ pods'[p].ann = None
    BY <2>1, <2>2, <2>3, AbsenceAssumption DEF PodObjects
  <2>5. /\ Placed(p) = [node |-> None, why |-> None]
        /\ Placed(p)' = [node |-> job[s].node, why |-> None]
    BY <2>1, <2>2, <2>4 DEF Placed
  <2>6. \A q \in Pods : q # p => Placed(q)' = Placed(q)
    BY <2>1 DEF Placed, IInv, TypeOK
  <2>7. placed' = [placed EXCEPT ![p].node = job[s].node]
    BY <2>1, <2>5, <2>6
  <2> QED BY <2>1, <2>5, <2>7 DEF Abstract!Place
<1>4. ASSUME NEW s \in Schedulers, Annotates(s)
      PROVE  Abstract!Explain(Head(s).name)
  <2>1. PICK p \in Pods :
          /\ p = Head(s).name /\ pods[p] \in PodObjects
          /\ pods[p].node = job[s].node
          /\ pods' = [pods EXCEPT ![p].ann =
                        [uid |-> Head(s).uid, node |-> job[s].node]]
    BY <1>4, AnnotatesFacts
  <2>2. job[s].node # None
    BY <1>4 DEF Annotates, PlacedInv, DecisionNamed
  <2> DEFINE ann == [uid |-> Head(s).uid, node |-> job[s].node]
  <2>3. ann \in Annotations /\ ann.node = job[s].node
    BY <1>4, AnnotatesFacts, HeadInBatch DEF IInv, TypeOK, Jobs, Annotations
  <2> HIDE DEF ann
  <2>4. pods'[p] = [pods[p] EXCEPT !.ann = ann]
    BY <2>1 DEF IInv, TypeOK, ann
  <2>5. /\ pods'[p] \in PodObjects /\ pods'[p].node = job[s].node
        /\ pods'[p].ann = ann
    BY <2>1, <2>3, <2>4 DEF PodObjects
  <2>6. ann # None
    BY <2>3, AbsenceAssumption
  <2>7. /\ Placed(p).node = job[s].node /\ pods[p] # None
        /\ Placed(p)' = [Placed(p) EXCEPT !.why = job[s].node]
    <3>1. pods[p] # None /\ pods'[p] # None
      BY <2>1, <2>5, AbsenceAssumption
    <3>2. Placed(p)' = [node |-> job[s].node, why |-> job[s].node]
      BY <2>3, <2>5, <2>6, <3>1 DEF Placed
    <3> QED BY <2>1, <3>1, <3>2 DEF Placed
  <2>8. \A q \in Pods : q # p => Placed(q)' = Placed(q)
    BY <2>1 DEF Placed, IInv, TypeOK
  <2>9. placed' = [placed EXCEPT ![p].why = placed[p].node]
    BY <2>1, <2>7, <2>8
  <2> QED BY <2>1, <2>2, <2>7, <2>9, PlacedType DEF Abstract!Explain, IInv
<1>5. CASE UNCHANGED pods
  BY <1>5 DEF Placed
<1>6. \A s \in Schedulers : Binds(s) \/ Annotates(s) => Head(s).name \in Pods
  BY BindsFacts, AnnotatesFacts
<1>7. \A s \in Schedulers : Binds(s) => job[s].node \in Nodes
  BY BindsFacts
<1> HIDE DEF placed
<1> QED BY <1>1, <1>2, <1>3, <1>4, <1>5, <1>6, <1>7, PodCases DEF Abstract!Next

\* A pod is placed once and stays where it is for its life, and it is explained
\* only there, however many schedulers decide about it at the same time and
\* whichever of their calls fail: scheduler.go implements Placement.tla.
THEOREM PlacementImplemented ==
    ASSUME AnswersNamed PROVE Spec => ImplementsPlacement
<1>1. Init => Abstract!Init
  BY InitPlacement
<1>2. IInv /\ IInv' /\ PlacedInv /\ [Next]_vars => [Abstract!Next]_placed
  BY StepMoves, StepPlacement
<1> QED BY <1>1, <1>2, Inductive, AlwaysPlaced, PTL
           DEF Spec, ImplementsPlacement, Abstract!Spec, placed

-----------------------------------------------------------------------------
(***************************************************************************)
(* A single scheduler, as cmd/gemini-scheduler is deployed: what a second  *)
(* one breaks is that pods bind only by the batch at hand.                 *)
(***************************************************************************)
Alone == \A s, t \in Schedulers : s = t

Bound(p) == pods[p] # None /\ pods[p].node # None

\* The steps with a snapshot, and those after the binding was tried.
Informed == {"decide", "bind", "get", "update", "event"}
Tried == {"get", "update", "event"}

\* The pods of the batch wait, but for the first one, which may have been
\* bound: by this scheduler, so it is the pod of the List and on the node
\* decided for it.
Waiting ==
    \A s \in Schedulers : \A item \in job[s].batch :
        Bound(item.name) =>
            /\ item = Head(s)
            /\ pc[s] \in Tried
            /\ pods[item.name].uid = item.uid
            /\ pods[item.name].node = job[s].node

\* What occupies a candidate is in the snapshot, or is the pod that was just
\* bound and not yet counted.
Shown ==
    \A s \in Schedulers :
        pc[s] \in Informed =>
            \A d \in job[s].seen, p \in Pods :
                Occupies(p, d) =>
                    \/ job[s].view[d][p] > 0
                    \/ pc[s] \in Tried /\ p = Head(s).name /\ d = job[s].node

\* Nothing is counted before the snapshot is taken, ...
NotYet ==
    \A s \in Schedulers :
        pc[s] \notin Informed => \A d \in Nodes, p \in Pods : job[s].view[d][p] = 0

\* ... nor a pod of the batch before it is dealt with, ...
Uncounted ==
    \A s \in Schedulers :
        \A item \in job[s].batch, d \in Nodes : job[s].view[d][item.name] = 0

\* ... nor any pod twice.
Once ==
    \A s \in Schedulers : \A d, e \in Nodes, p \in Pods :
        /\ job[s].view[d][p] <= 1
        /\ job[s].view[d][p] > 0 /\ job[s].view[e][p] > 0 => d = e

SnapshotInv == Waiting /\ Shown /\ NotYet /\ Uncounted /\ Once

LEMMA InitSnapshot == Init => SnapshotInv
BY DEF Init, SnapshotInv, Waiting, Shown, NotYet, Uncounted, Once, NoJob, NoView,
       Informed

-----------------------------------------------------------------------------
(***************************************************************************)
(* What the steps have in common.                                          *)
(***************************************************************************)
\* The steps that leave a batch, its snapshot and the decision as they are.
Carries(s) == Binds(s) \/ Annotates(s) \/ GoesOn(s) \/ Reads(s)

SameWork ==
    \A t \in Schedulers :
        /\ job'[t].batch = job[t].batch /\ job'[t].seen = job[t].seen
        /\ job'[t].view = job[t].view /\ job'[t].node = job[t].node
        /\ Head(t)' = Head(t)

LEMMA WorkCarried ==
    ASSUME IInv,
           \/ UNCHANGED job
           \/ \E p \in Pods : Arrives(p) \/ Rewritten(p)
           \/ \E s \in Schedulers : Carries(s)
    PROVE  SameWork
<1>1. ASSUME UNCHANGED job PROVE SameWork
  BY <1>1 DEF SameWork, Head
<1>2. ASSUME NEW p, job' = Outdated(p) PROVE SameWork
  BY <1>2, OutdatedTypeOK DEF SameWork, IInv
<1>3. ASSUME NEW s \in Schedulers, Reads(s) PROVE SameWork
  <2>1. \A t \in Schedulers :
          /\ job'[t].batch = job[t].batch /\ job'[t].seen = job[t].seen
          /\ job'[t].view = job[t].view /\ job'[t].node = job[t].node
    BY <1>3 DEF Reads, IInv, TypeOK, Jobs
  <2> QED BY <2>1 DEF SameWork, Head
<1> QED BY <1>1, <1>2, <1>3
           DEF Arrives, Rewritten, Carries, Binds, BindTo, Annotates, Annotate, GoesOn

\* But for a binding, a pod that has a node had it before, and the uid; and a
\* finished one stays finished.
LEMMA BoundBefore ==
    ASSUME IInv, NEW q \in Pods, Bound(q)',
           \/ UNCHANGED pods
           \/ \E p \in Pods : Arrives(p) \/ Rewritten(p)
           \/ \E s \in Schedulers : Annotates(s)
    PROVE  /\ Bound(q)
           /\ pods'[q].uid = pods[q].uid /\ pods'[q].node = pods[q].node
           /\ pods'[q].phase # "Done" => pods[q].phase # "Done"
<1> DEFINE Before == /\ Bound(q)
                     /\ pods'[q].uid = pods[q].uid /\ pods'[q].node = pods[q].node
                     /\ pods'[q].phase # "Done" => pods[q].phase # "Done"
<1>1. CASE pods'[q] = pods[q]
  BY <1>1 DEF Bound
<1>2. ASSUME NEW p \in Pods, Arrives(p), pods'[q] # pods[q] PROVE FALSE
  BY <1>2 DEF Arrives, Bound, IInv, TypeOK
<1>3. ASSUME NEW p \in Pods, Rewritten(p), pods'[q] # pods[q] PROVE Before
  <2>1. PICK phase \in {"Done", "Terminating"} :
                     /\ pods' = [pods EXCEPT ![p].phase = phase]
                     /\ phase = "Done" \/ pods[p].phase # "Done"
    <3>1. pods' # [pods EXCEPT ![p] = None]
      BY <1>3 DEF Bound, IInv, TypeOK
    <3>2. pods' # pods
      BY <1>3
    <3> QED BY <1>3, <3>1, <3>2 DEF Rewritten
  <2>2. p = q /\ pods[q] \in PodObjects /\ pods[q] # None
    BY <1>3, <2>1 DEF Rewritten, IInv, TypeOK
  <2>3. pods'[q] = [pods[q] EXCEPT !.phase = phase]
    BY <2>1, <2>2 DEF IInv, TypeOK
  <2>4. /\ pods'[q].uid = pods[q].uid /\ pods'[q].node = pods[q].node
        /\ pods'[q].phase = phase
    BY <2>2, <2>3 DEF PodObjects
  <2> QED BY <2>1, <2>2, <2>4 DEF Bound
<1>4. ASSUME NEW s \in Schedulers, Annotates(s), pods'[q] # pods[q] PROVE Before
  <2>1. /\ q = Head(s).name /\ pods[q] \in PodObjects
        /\ pods'[q] = [pods[q] EXCEPT !.ann =
                         [uid |-> Head(s).uid, node |-> job[s].node]]
    <3>1. /\ pods[Head(s).name] \in PodObjects
          /\ pods' = [pods EXCEPT ![Head(s).name].ann =
                        [uid |-> Head(s).uid, node |-> job[s].node]]
      BY <1>4, AnnotatesFacts
    <3>2. CASE q # Head(s).name
      BY <1>4, <3>1, <3>2 DEF IInv, TypeOK
    <3>3. CASE q = Head(s).name
      BY <3>1, <3>3 DEF IInv, TypeOK
    <3> QED BY <3>2, <3>3
  <2>2. /\ pods'[q].uid = pods[q].uid /\ pods'[q].node = pods[q].node
        /\ pods'[q].phase = pods[q].phase
    BY <2>1 DEF PodObjects
  <2> QED BY <2>1, <2>2, AbsenceAssumption DEF Bound
<1> QED BY <1>1, <1>2, <1>3, <1>4

\* A binding gives a node to one pod.
LEMMA BoundNow ==
    ASSUME IInv, NEW s \in Schedulers, Binds(s), NEW q \in Pods
    PROVE  /\ q # Head(s).name => pods'[q] = pods[q]
           /\ q = Head(s).name => /\ ~Bound(q)
                                  /\ pods'[q].uid = Head(s).uid
                                  /\ pods'[q].node = job[s].node
<1>1. CASE q # Head(s).name
  BY <1>1, BindsFacts DEF IInv, TypeOK
<1>2. CASE q = Head(s).name
  <2>1. /\ pods[q] \in PodObjects /\ pods[q].node = None
        /\ pods'[q] = [pods[q] EXCEPT !.node = job[s].node]
    BY <1>2, BindsFacts DEF IInv, TypeOK
  <2>2. Binding(s).name = q /\ Binding(s).uid = Head(s).uid
    BY <1>2 DEF Binding
  <2>3. Binding(s).uid \in {pods[q].uid, None}
    BY <2>2 DEF Binds, Bindable
  <2>4. Head(s).uid # None
    <3>1. Head(s) \in job[s].batch /\ job[s].batch \in SUBSET Items
      BY BindsFacts DEF IInv, TypeOK, Jobs
    <3> QED BY <3>1, AbsenceAssumption DEF Items
  <2> QED BY <1>2, <2>1, <2>2, <2>3, <2>4 DEF PodObjects, Bound
<1> QED BY <1>1, <1>2

\* A pod is dealt with: the rest of the batch is left, with what the snapshot
\* has become.
LEMMA LeavesFacts ==
    ASSUME IInv, NEW s \in Schedulers, Leaves(s) \/ Ends(s)
    PROVE  \/ job'[s] = NoJob /\ pc'[s] = "idle"
           \/ /\ Leaves(s) /\ pc'[s] = "decide"
              /\ job'[s].batch = job[s].batch \ {Head(s)}
              /\ job'[s].seen = job[s].seen
              /\ job'[s].view = IF pc[s] = "decide" THEN job[s].view ELSE Counted(s)
<1>1. ASSUME NEW view, NextPod(s, view)
      PROVE  \/ job'[s] = NoJob /\ pc'[s] = "idle"
             \/ /\ pc'[s] = "decide"
                /\ job'[s].batch = job[s].batch \ {Head(s)}
                /\ job'[s].seen = job[s].seen /\ job'[s].view = view
  <2> DEFINE j == [NoJob EXCEPT !.batch = job[s].batch \ {Head(s)},
                                !.seen = job[s].seen, !.view = view]
  <2>1. j.batch = job[s].batch \ {Head(s)} /\ j.seen = job[s].seen /\ j.view = view
    BY DEF NoJob
  <2> QED BY <1>1, <2>1 DEF NextPod, Return, Goto, IInv, TypeOK
<1>2. CASE Ends(s)
  BY <1>2 DEF Ends, Return, Goto, IInv, TypeOK
<1>3. CASE Leaves(s)
  BY <1>1, <1>3 DEF Leaves
<1> QED BY <1>2, <1>3

-----------------------------------------------------------------------------
(***************************************************************************)
(* Every step keeps the invariant.                                         *)
(***************************************************************************)
\* A step of the only scheduler, or of the cluster.
LEMMA WaitingKept ==
    ASSUME Alone, IInv, Waiting, Moves
    PROVE  Waiting'
<1>1. ASSUME NEW t \in Schedulers, SameWork,
             \/ UNCHANGED pods
             \/ \E p \in Pods : Arrives(p) \/ Rewritten(p)
             \/ \E s \in Schedulers : Annotates(s),
             pc[t] \in Tried => pc'[t] \in Tried,
             NEW item \in job'[t].batch, Bound(item.name)'
      PROVE  /\ item = Head(t)'
             /\ pc'[t] \in Tried
             /\ pods'[item.name].uid = item.uid
             /\ pods'[item.name].node = job'[t].node
  <2>1. item \in job[t].batch /\ item.name \in Pods
    BY <1>1 DEF SameWork, IInv, TypeOK, Jobs, Items
  <2>2. /\ Bound(item.name)
        /\ pods'[item.name].uid = pods[item.name].uid
        /\ pods'[item.name].node = pods[item.name].node
    BY <1>1, <2>1, BoundBefore
  <2>3. /\ item = Head(t) /\ pc[t] \in Tried
        /\ pods[item.name].uid = item.uid
        /\ pods[item.name].node = job[t].node
    BY <2>1, <2>2 DEF Waiting
  <2> QED BY <1>1, <2>2, <2>3 DEF SameWork
<1>2. CASE UNCHANGED <<pods, pc, job>>
  BY <1>1, <1>2, WorkCarried DEF Waiting
<1>3. ASSUME NEW p \in Pods, Arrives(p) \/ Rewritten(p) PROVE Waiting'
  <2>1. SameWork /\ UNCHANGED pc
    BY <1>3, WorkCarried DEF Arrives, Rewritten
  <2> QED BY <1>1, <1>3, <2>1 DEF Waiting
<1>4. ASSUME NEW s \in Schedulers, Annotates(s) PROVE Waiting'
  <2>1. SameWork
    BY <1>4, WorkCarried DEF Carries
  <2>2. \A t \in Schedulers : pc[t] \in Tried => pc'[t] \in Tried
    BY <1>4 DEF Annotates, Goto, IInv, TypeOK, Tried
  <2> QED BY <1>1, <1>4, <2>1, <2>2 DEF Waiting
<1>5. ASSUME NEW s \in Schedulers, GoesOn(s) \/ Reads(s) PROVE Waiting'
  <2>1. SameWork
    BY <1>5, WorkCarried DEF Carries
  <2>2. \A t \in Schedulers : pc[t] \in Tried => pc'[t] \in Tried
    BY <1>5 DEF GoesOn, Reads, Goto, IInv, TypeOK, Tried
  <2>3. UNCHANGED pods
    BY <1>5 DEF GoesOn, Reads
  <2> QED BY <1>1, <2>1, <2>2, <2>3 DEF Waiting
<1>6. ASSUME NEW s \in Schedulers, Binds(s) PROVE Waiting'
  <2>1. SameWork
    BY <1>6, WorkCarried DEF Carries
  <2> SUFFICES ASSUME NEW item \in job'[s].batch, Bound(item.name)'
               PROVE  /\ item = Head(s)'
                      /\ pc'[s] \in Tried
                      /\ pods'[item.name].uid = item.uid
                      /\ pods'[item.name].node = job'[s].node
    BY DEF Alone, Waiting
  <2>2. item \in job[s].batch /\ item.name \in Pods
    BY <2>1 DEF SameWork, IInv, TypeOK, Jobs, Items
  <2>3. pc[s] = "bind" /\ pc'[s] = "get"
    BY <1>6 DEF Binds, Goto, IInv, TypeOK
  <2>4. item.name = Head(s).name
    <3>1. SUFFICES ASSUME item.name # Head(s).name PROVE FALSE
      OBVIOUS
    <3>2. Bound(item.name)
      BY <1>6, <2>2, <3>1, BoundNow DEF Bound
    <3> QED BY <2>2, <2>3, <3>2 DEF Waiting, Tried
  <2>5. item = Head(s)
    BY <1>6, <2>2, <2>4, BindsFacts DEF IInv, TypeOK, LocalsOK
  <2> QED BY <1>6, <2>1, <2>2, <2>3, <2>5, BoundNow DEF SameWork, Tried
<1>7. ASSUME NEW s \in Schedulers, Starts(s) PROVE Waiting'
  <2>1. \A item \in job'[s].batch : item.name \in Pods /\ Pending(item.name)
    BY <1>7 DEF Starts, IInv, TypeOK, Jobs
  <2>2. \A item \in job'[s].batch : ~Bound(item.name)'
    BY <1>7, <2>1 DEF Starts, Pending, Bound
  <2> QED BY <2>2 DEF Alone, Waiting
<1>8. ASSUME NEW s \in Schedulers, Looks(s) \/ Decide(s) PROVE Waiting'
  <2>1. pc[s] \notin Tried /\ job'[s].batch = job[s].batch /\ UNCHANGED pods
    BY <1>8 DEF Looks, Decide, TakeSnapshot, ClusterUnchanged, Tried, IInv, TypeOK, Jobs
  <2> QED BY <2>1 DEF Alone, Waiting, Bound
<1>9. ASSUME NEW s \in Schedulers, Leaves(s) \/ Ends(s) PROVE Waiting'
  <2>1. job'[s].batch \subseteq job[s].batch \ {Head(s)} /\ UNCHANGED pods
    BY <1>9, LeavesFacts DEF NoJob, Leaves, Ends
  <2> QED BY <2>1 DEF Alone, Waiting, Bound
<1> QED BY <1>2, <1>3, <1>4, <1>5, <1>6, <1>7, <1>8, <1>9 DEF Moves, Works

\* Each step of another kind moves pc past no point that the claim is about.
LEMMA ShownKept ==
    ASSUME Alone, IInv, Waiting, Shown, Moves
    PROVE  Shown'
<1>1. ASSUME SameWork,
             \/ UNCHANGED pods
             \/ \E p \in Pods : Arrives(p) \/ Rewritten(p)
             \/ \E s \in Schedulers : Annotates(s),
             \A t \in Schedulers : /\ pc'[t] \in Informed => pc[t] \in Informed
                                   /\ pc[t] \in Tried => pc'[t] \in Tried
      PROVE  Shown'
  <2> SUFFICES ASSUME NEW t \in Schedulers, pc'[t] \in Informed,
                      NEW d \in job[t].seen, NEW p \in Pods, Occupies(p, d)'
               PROVE  \/ job'[t].view[d][p] > 0
                      \/ pc'[t] \in Tried /\ p = Head(t)'.name /\ d = job'[t].node
    BY <1>1 DEF Shown, SameWork
  <2>1. d \in Nodes /\ d # None
    BY StraysAssumption DEF IInv, TypeOK, Jobs
  <2>2. Bound(p)'
    BY <2>1 DEF Bound, Occupies
  <2>3. Occupies(p, d)
    BY <1>1, <2>2, BoundBefore DEF Bound, Occupies
  <2>4. pc[t] \in Informed /\ (pc[t] \in Tried => pc'[t] \in Tried)
    BY <1>1
  <2>5. job[t].view[d][p] > 0 \/ (pc[t] \in Tried /\ p = Head(t).name /\ d = job[t].node)
    BY <2>3, <2>4 DEF Shown
  <2>6. job'[t].view = job[t].view /\ job'[t].node = job[t].node /\ Head(t)' = Head(t)
    BY <1>1 DEF SameWork
  <2> QED BY <2>4, <2>5, <2>6
<1>2. CASE UNCHANGED <<pods, pc, job>>
  BY <1>1, <1>2, WorkCarried
<1>3. ASSUME NEW p \in Pods, Arrives(p) \/ Rewritten(p) PROVE Shown'
  <2>1. SameWork /\ UNCHANGED pc
    BY <1>3, WorkCarried DEF Arrives, Rewritten
  <2> QED BY <1>1, <1>3, <2>1
<1>4. ASSUME NEW s \in Schedulers, Annotates(s) \/ GoesOn(s) \/ Reads(s) PROVE Shown'
  <2>1. SameWork
    BY <1>4, WorkCarried DEF Carries
  <2>2. \A t \in Schedulers : /\ pc'[t] \in Informed => pc[t] \in Informed
                              /\ pc[t] \in Tried => pc'[t] \in Tried
    BY <1>4 DEF Annotates, GoesOn, Reads, Goto, IInv, TypeOK, Tried, Informed
  <2>3. Annotates(s) \/ UNCHANGED pods
    BY <1>4 DEF GoesOn, Reads
  <2> QED BY <1>1, <2>1, <2>2, <2>3
<1>5. ASSUME NEW s \in Schedulers, Binds(s) PROVE Shown'
  <2>1. SameWork
    BY <1>5, WorkCarried DEF Carries
  <2>2. pc[s] = "bind" /\ pc'[s] = "get"
    BY <1>5 DEF Binds, Goto, IInv, TypeOK
  <2> SUFFICES ASSUME NEW d \in job[s].seen, NEW p \in Pods, Occupies(p, d)'
               PROVE  job[s].view[d][p] > 0 \/ (p = Head(s).name /\ d = job[s].node)
    BY <2>1, <2>2 DEF Alone, Shown, SameWork, Tried
  <2>3. CASE p = Head(s).name
    BY <1>5, <2>3, BoundNow DEF Occupies
  <2>4. CASE p # Head(s).name
    <3>1. Occupies(p, d)
      BY <1>5, <2>4, BoundNow DEF Occupies
    <3> QED BY <2>2, <3>1 DEF Shown, Informed, Tried
  <2> QED BY <2>3, <2>4
<1>6. ASSUME NEW s \in Schedulers, Starts(s) PROVE Shown'
  <2>1. pc'[s] = "nodes"
    BY <1>6 DEF Starts, Goto, IInv, TypeOK
  <2> QED BY <2>1 DEF Alone, Shown, Informed
<1>7. ASSUME NEW s \in Schedulers, Looks(s) PROVE Shown'
  <2>1. CASE TakeSnapshot(s)
    <3> DEFINE view == [d \in Nodes |-> [p \in Pods |->
                          IF d \in job[s].seen /\ Occupies(p, d) THEN 1 ELSE 0]]
    <3>1. job' = [job EXCEPT ![s].view = view] /\ UNCHANGED pods
      BY <1>7, <2>1 DEF TakeSnapshot, Looks
    <3>2. \A d \in job[s].seen, p \in Pods :
            d \in Nodes /\ (Occupies(p, d) => view[d][p] > 0)
      BY DEF IInv, TypeOK, Jobs
    <3> HIDE DEF view
    <3>3. job'[s].view = view /\ job'[s].seen = job[s].seen
      BY <3>1 DEF IInv, TypeOK, Jobs
    <3> QED BY <3>1, <3>2, <3>3 DEF Alone, Shown, Occupies
  <2>2. CASE pc'[s] = "telemetry"
    BY <2>2 DEF Alone, Shown, Informed
  <2> QED BY <1>7, <2>1, <2>2 DEF Looks, Goto, IInv, TypeOK
<1>8. ASSUME NEW s \in Schedulers, Decide(s) PROVE Shown'
  <2>1. /\ job'[s].seen = job[s].seen /\ job'[s].view = job[s].view
        /\ UNCHANGED pods /\ pc[s] = "decide"
    BY <1>8 DEF Decide, ClusterUnchanged, IInv, TypeOK, Jobs
  <2> QED BY <2>1 DEF Alone, Shown, Informed, Tried, Occupies
<1>9. ASSUME NEW s \in Schedulers, Leaves(s) \/ Ends(s) PROVE Shown'
  <2>1. UNCHANGED pods
    BY <1>9 DEF Leaves, Ends
  <2>2. CASE pc'[s] = "idle"
    BY <2>2 DEF Alone, Shown, Informed
  <2>3. CASE pc[s] = "decide" /\ job'[s].view = job[s].view /\ job'[s].seen = job[s].seen
    BY <2>1, <2>3 DEF Alone, Shown, Informed, Tried, Occupies
  <2>4. CASE pc[s] = "event" /\ job'[s].view = Counted(s) /\ job'[s].seen = job[s].seen
    <3>1. \A d \in job[s].seen, p \in Pods :
            /\ job[s].view[d][p] \in Nat /\ Counted(s)[d][p] >= job[s].view[d][p]
            /\ p = Head(s).name /\ d = job[s].node => Counted(s)[d][p] > 0
      BY DEF Counted, IInv, TypeOK, Jobs, Views
    <3>2. \A d \in job[s].seen, p \in Pods :
            Occupies(p, d) => Counted(s)[d][p] > 0
      <4> SUFFICES ASSUME NEW d \in job[s].seen, NEW p \in Pods, Occupies(p, d)
                   PROVE  Counted(s)[d][p] > 0
        OBVIOUS
      <4>1. \/ job[s].view[d][p] > 0
            \/ p = Head(s).name /\ d = job[s].node
        BY <2>4 DEF Shown, Informed
      <4>2. Counted(s)[d][p] \in Nat
        <5>1. Counted(s) \in Views /\ d \in Nodes
          BY <2>4, CountedType DEF IInv, TypeOK, Jobs
        <5> QED BY <5>1 DEF Views
      <4> QED BY <3>1, <4>1, <4>2
    <3> QED BY <2>1, <2>4, <3>2 DEF Alone, Shown, Occupies
  <2> QED BY <1>9, <2>2, <2>3, <2>4, LeavesFacts DEF Leaves
<1> QED BY <1>2, <1>3, <1>4, <1>5, <1>6, <1>7, <1>8, <1>9 DEF Moves, Works

Counts == NotYet /\ Uncounted /\ Once

LEMMA CountsKept ==
    ASSUME Alone, IInv, Waiting, Counts, Moves
    PROVE  Counts'
<1>1. ASSUME \A t \in Schedulers : /\ job'[t].batch = job[t].batch
                                   /\ job'[t].view = job[t].view
                                   /\ pc[t] \in Informed => pc'[t] \in Informed
      PROVE  Counts'
  <2>1. NotYet'
    BY <1>1 DEF Counts, NotYet
  <2>2. Uncounted'
    BY <1>1 DEF Counts, Uncounted
  <2>3. Once'
    BY <1>1 DEF Counts, Once
  <2> QED BY <2>1, <2>2, <2>3 DEF Counts
<1>2. CASE UNCHANGED <<pods, pc, job>>
  BY <1>1, <1>2
<1>3. ASSUME NEW p \in Pods, Arrives(p) \/ Rewritten(p) PROVE Counts'
  <2>1. SameWork /\ UNCHANGED pc
    BY <1>3, WorkCarried DEF Arrives, Rewritten
  <2> QED BY <1>1, <2>1 DEF SameWork
<1>4. ASSUME NEW s \in Schedulers, Carries(s) PROVE Counts'
  <2>1. SameWork
    BY <1>4, WorkCarried
  <2>2. \A t \in Schedulers : pc[t] \in Informed => pc'[t] \in Informed
    BY <1>4 DEF Carries, Binds, Annotates, GoesOn, Reads, Goto, IInv, TypeOK, Informed
  <2> QED BY <1>1, <2>1, <2>2 DEF SameWork
<1>5. ASSUME NEW s \in Schedulers, Starts(s) PROVE Counts'
  <2>1. /\ pc[s] \notin Informed /\ job'[s].view = job[s].view
        /\ job'[s].batch \subseteq Items
    BY <1>5 DEF Starts, Informed, IInv, TypeOK, Jobs, Items, Pending, PodObjects
  <2>2. \A d \in Nodes, p \in Pods : job'[s].view[d][p] = 0
    BY <2>1 DEF Counts, NotYet
  <2>3. \A item \in job'[s].batch : item.name \in Pods
    BY <2>1 DEF Items
  <2> QED BY <2>2, <2>3 DEF Alone, Counts, NotYet, Uncounted, Once
<1>6. ASSUME NEW s \in Schedulers, Looks(s) PROVE Counts'
  <2>1. CASE TakeSnapshot(s) /\ pc[s] = "telemetry"
    <3> DEFINE view == [d \in Nodes |-> [p \in Pods |->
                          IF d \in job[s].seen /\ Occupies(p, d) THEN 1 ELSE 0]]
    <3>1. job' = [job EXCEPT ![s].view = view] /\ pc'[s] = "decide"
      BY <2>1 DEF TakeSnapshot, Goto, IInv, TypeOK
    <3>2. \A d \in Nodes, p \in Pods : view[d][p] > 0 => Occupies(p, d)
      OBVIOUS
    <3>3. \A d \in Nodes, p \in Pods : view[d][p] \in 0 .. 1
      OBVIOUS
    <3> HIDE DEF view
    <3>4. job'[s].view = view /\ job'[s].batch = job[s].batch
      BY <3>1 DEF IInv, TypeOK, Jobs
    <3>5. \A item \in job[s].batch : item.name \in Pods /\ ~Bound(item.name)
      BY <2>1 DEF Waiting, Tried, IInv, TypeOK, Jobs, Items
    <3>6. \A d \in Nodes, p \in Pods : Occupies(p, d) => Bound(p)
      BY StraysAssumption DEF Occupies, Bound
    <3>7. \A d, e \in Nodes, p \in Pods : Occupies(p, d) /\ Occupies(p, e) => d = e
      BY DEF Occupies
    <3>8. Uncounted'
      BY <3>2, <3>3, <3>4, <3>5, <3>6 DEF Alone, Uncounted
    <3>9. Once'
      BY <3>2, <3>3, <3>4, <3>7 DEF Alone, Once
    <3> QED BY <3>1, <3>8, <3>9 DEF Alone, Counts, NotYet, Informed
  <2>2. CASE pc[s] = "nodes" /\ job' = [job EXCEPT ![s].seen = nodes]
    <3>1. job'[s].view = job[s].view /\ job'[s].batch = job[s].batch
      BY <2>2 DEF IInv, TypeOK, Jobs
    <3> QED BY <1>1, <2>2, <3>1 DEF Alone, Informed
  <2> QED BY <1>6, <2>1, <2>2 DEF Looks
<1>7. ASSUME NEW s \in Schedulers, Decide(s) PROVE Counts'
  <2>1. /\ job'[s].view = job[s].view /\ job'[s].batch = job[s].batch
        /\ pc'[s] = "bind"
    BY <1>7 DEF Decide, Goto, IInv, TypeOK, Jobs
  <2> QED BY <1>1, <2>1 DEF Alone, Informed
<1>8. ASSUME NEW s \in Schedulers, Leaves(s) \/ Ends(s) PROVE Counts'
  <2>1. CASE job'[s] = NoJob
    BY <2>1 DEF Alone, Counts, NotYet, Uncounted, Once, NoJob, NoView
  <2>2. CASE /\ pc'[s] = "decide" /\ job'[s].batch = job[s].batch \ {Head(s)}
             /\ job'[s].view = job[s].view
    BY <2>2 DEF Alone, Counts, NotYet, Uncounted, Once, Informed
  <2>3. CASE /\ pc[s] = "event" /\ pc'[s] = "decide"
             /\ job'[s].batch = job[s].batch \ {Head(s)}
             /\ job'[s].view = Counted(s)
    <3>1. Head(s) \in job[s].batch /\ Head(s).name \in Pods
      BY <2>3, HeadInBatch DEF IInv, TypeOK, LocalsOK
    <3>2. job[s].view \in Views
      BY DEF IInv, TypeOK, Jobs
    <3>3. \A d \in Nodes, p \in Pods :
            /\ p # Head(s).name => Counted(s)[d][p] = job[s].view[d][p]
            /\ p = Head(s).name => Counted(s)[d][p] \in 0 .. 1
            /\ p = Head(s).name /\ d # job[s].node => Counted(s)[d][p] = 0
      BY <3>1, <3>2 DEF Counted, Counts, Uncounted, Views
    <3>4. \A item \in job'[s].batch :
            item \in job[s].batch /\ item.name \in Pods /\ item.name # Head(s).name
      BY <2>3, <3>1 DEF IInv, TypeOK, LocalsOK, Jobs, Items
    <3>5. Uncounted'
      BY <2>3, <3>3, <3>4 DEF Alone, Counts, Uncounted
    <3>6. \A d, e \in Nodes, p \in Pods :
            /\ Counted(s)[d][p] <= 1
            /\ Counted(s)[d][p] > 0 /\ Counted(s)[e][p] > 0 => d = e
      BY <3>3 DEF Counts, Once
    <3> QED BY <2>3, <3>5, <3>6 DEF Alone, Counts, NotYet, Once, Informed
  <2> QED BY <1>8, <2>1, <2>2, <2>3, LeavesFacts DEF Leaves
<1> QED BY <1>2, <1>3, <1>4, <1>5, <1>6, <1>7, <1>8 DEF Moves, Works, Carries

LEMMA AlwaysSnapshot == ASSUME Alone PROVE Spec => []SnapshotInv
<1>1. IInv /\ SnapshotInv /\ [Next]_vars => SnapshotInv'
  BY StepMoves, WaitingKept, ShownKept, CountsKept DEF SnapshotInv, Counts
<1> QED BY <1>1, InitSnapshot, Inductive, PTL DEF Spec

-----------------------------------------------------------------------------
(***************************************************************************)
(* What the model is shown, and what a pod says.                           *)
(***************************************************************************)
\* When the only scheduler asks the model, the snapshot it shows has every pod
\* on a candidate, the ones it bound since the List included: the code adds
\* them whatever came of the binding, the update and the event.
THEOREM SnapshotIsComplete == ASSUME Alone PROVE Spec => []SnapshotComplete
<1>1. SnapshotInv => SnapshotComplete
  BY DEF SnapshotInv, Shown, SnapshotComplete, Informed, Tried
<1> QED BY <1>1, AlwaysSnapshot, PTL

\* ... and counts no pod twice: a pod of the batch was not on a node when the
\* snapshot was taken, and is added once.
THEOREM NothingCountedTwice == ASSUME Alone PROVE Spec => []CountedOnce
<1>1. IInv /\ SnapshotInv => CountedOnce
  BY DEF SnapshotInv, Once, CountedOnce, IInv, TypeOK, Jobs
<1> QED BY <1>1, AlwaysSnapshot, Inductive, PTL

LEMMA OwnKept ==
    ASSUME IInv, Waiting, RationaleIsOwn, Moves
    PROVE  RationaleIsOwn'
<1> SUFFICES ASSUME NEW q \in Pods, pods'[q] # None, pods'[q].ann # None,
                    pods'[q].ann.node # None
             PROVE  /\ pods'[q].ann.uid = pods'[q].uid
                    /\ pods'[q].ann.node = pods'[q].node
  BY DEF RationaleIsOwn
<1> DEFINE Own == /\ pods'[q].ann.uid = pods'[q].uid
                  /\ pods'[q].ann.node = pods'[q].node
<1>1. ASSUME pods[q] # None, pods'[q].ann = pods[q].ann,
             pods'[q].uid = pods[q].uid, pods'[q].node = pods[q].node
      PROVE  Own
  BY <1>1 DEF RationaleIsOwn
<1>2. ASSUME NEW p \in Pods, Arrives(p) PROVE Own
  BY <1>1, <1>2 DEF Arrives, IInv, TypeOK
<1>3. ASSUME NEW p \in Pods, Rewritten(p) PROVE Own
  <2>1. CASE pods'[q] = pods[q]
    BY <1>1, <2>1
  <2>2. CASE pods'[q] # pods[q]
    <3>1. PICK phase : pods' = [pods EXCEPT ![p].phase = phase]
      BY <1>3, <2>2 DEF Rewritten, IInv, TypeOK
    <3>2. p = q /\ pods[q] # None /\ pods[q] \in PodObjects
      BY <1>3, <2>2, <3>1 DEF Rewritten, IInv, TypeOK
    <3>3. pods'[q] = [pods[q] EXCEPT !.phase = phase]
      BY <3>1, <3>2 DEF IInv, TypeOK
    <3> QED BY <1>1, <3>2, <3>3 DEF PodObjects
  <2> QED BY <2>1, <2>2
<1>4. ASSUME NEW s \in Schedulers, Binds(s) PROVE Own
  <2>1. CASE q # Head(s).name
    BY <1>1, <1>4, <2>1, BindsFacts DEF IInv, TypeOK
  <2>2. CASE q = Head(s).name
    <3>1. /\ pods[q] \in PodObjects /\ pods[q].node = None
          /\ pods'[q] = [pods[q] EXCEPT !.node = job[s].node]
      BY <1>4, <2>2, BindsFacts DEF IInv, TypeOK
    <3>2. pods[q] # None /\ pods'[q].ann = pods[q].ann
      BY <3>1, AbsenceAssumption DEF PodObjects
    <3> QED BY <3>1, <3>2 DEF RationaleIsOwn
  <2> QED BY <2>1, <2>2
<1>5. ASSUME NEW s \in Schedulers, Annotates(s) PROVE Own
  <2>1. CASE q # Head(s).name
    BY <1>1, <1>5, <2>1, AnnotatesFacts DEF IInv, TypeOK
  <2>2. CASE q = Head(s).name
    <3>1. /\ pods[q] \in PodObjects /\ pods[q].node = job[s].node
          /\ pods'[q] = [pods[q] EXCEPT !.ann =
                           [uid |-> Head(s).uid, node |-> job[s].node]]
      BY <1>5, <2>2, AnnotatesFacts DEF IInv, TypeOK
    <3>2. /\ pods'[q].uid = pods[q].uid /\ pods'[q].node = pods[q].node
          /\ pods'[q].ann.uid = Head(s).uid /\ pods'[q].ann.node = job[s].node
      BY <3>1 DEF PodObjects
    <3>3. Bound(q)
      BY <3>1, <3>2, AbsenceAssumption DEF Bound
    <3>4. pods[q].uid = Head(s).uid
      BY <1>5, <2>2, <3>3, AnnotatesFacts DEF Waiting
    <3> QED BY <3>1, <3>2, <3>4
  <2> QED BY <2>1, <2>2
<1>6. CASE UNCHANGED pods
  BY <1>1, <1>6
<1> QED BY <1>2, <1>3, <1>4, <1>5, <1>6, PodCases

\* With a single scheduler the rationale on a pod was given for that pod, and
\* the pod is on the node it speaks of: a pod deleted after the List and
\* created again under its name is not bound, so the update, which goes by
\* name, is refused for its node.
THEOREM RationaleForOwnPod == ASSUME Alone PROVE Spec => []RationaleIsOwn
<1>1. Init => RationaleIsOwn
  BY DEF Init, RationaleIsOwn
<1>2. IInv /\ SnapshotInv /\ RationaleIsOwn /\ [Next]_vars => RationaleIsOwn'
  BY StepMoves, OwnKept DEF SnapshotInv
<1> QED BY <1>1, <1>2, AlwaysSnapshot, Inductive, PTL DEF Spec
=============================================================================
