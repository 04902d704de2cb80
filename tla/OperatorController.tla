------------------------- MODULE OperatorController -------------------------
(***************************************************************************)
(* What the controllers keep doing right in Operator.tla, where processes  *)
(* carry a controller, a scheduler or both, and nodes and kubelets decide  *)
(* what becomes of the pods: the theorems about Controller.tla, now about  *)
(* the specification of the whole.                                         *)
(*                                                                         *)
(* The names of Controller.tla are Operator's own for its half of the      *)
(* state, so they are used as they are; Op is Operator, and Op!C the copy  *)
(* of Controller in it.                                                    *)
(***************************************************************************)
EXTENDS ControllerAsks

CONSTANTS Schedulers, Nodes, Strays, SchedulerLimit, MaxDisturbances

VARIABLES placed, nodes, spc, sjob, event, sspent

Op == INSTANCE Operator

-----------------------------------------------------------------------------
(***************************************************************************)
(* The copy of Controller in Operator is Controller.                       *)
(***************************************************************************)
\* The state at the start.
LEMMA SameInit == Op!Init => Init
BY DEF Op!Init, Op!C!Init, Init, Op!C!NoJob, NoJob, Op!C!Kinds, Kinds

\* The fingerprint of a specification.
LEMMA SameHash ==
    ASSUME NEW spec
    PROVE  Op!C!SpecHash(spec) = SpecHash(spec)
<1>1. ASSUME NEW seqs PROVE Op!C!FlattenSeq(seqs) = FlattenSeq(seqs)
  BY DEF Op!C!FlattenSeq, FlattenSeq
<1> QED BY <1>1 DEF Op!C!SpecHash, SpecHash

\* The pods of a set.
LEMMA SameManaged ==
    ASSUME NEW n
    PROVE  Op!C!Managed(n) = Managed(n)
BY DEF Op!C!Managed, Managed, Op!C!Active, Active, Op!C!ActivePhases, ActivePhases

\* The types.
LEMMA SameTypes == Op!C!TypeOK <=> TypeOK
<1>1. Op!C!Workloads = Workloads
  BY DEF Op!C!Workloads, Workloads, Op!C!CompiledFor, CompiledFor, Op!C!IsExplicit, IsExplicit, Op!C!ExplicitWorkload,
     ExplicitWorkload, Op!C!SynthesizedWorkload, SynthesizedWorkload,
     Op!C!DefaultReplicas, DefaultReplicas, Op!C!DefaultImage, DefaultImage
<1>2. Op!C!Sets = Sets
  BY DEF Op!C!Sets, Sets, Op!C!Statuses, Statuses, Op!C!Conditions, Conditions
<1>3. Op!C!Entries = Entries
  <2>1. {Op!C!SpecHash(spec) : spec \in Specs} = {SpecHash(spec) : spec \in Specs}
    BY SameHash
  <2> QED BY <1>1, <2>1 DEF Op!C!Entries, Entries
<1>4. Op!C!PodObjects = PodObjects
  BY <1>1 DEF Op!C!PodObjects, PodObjects, Op!C!Phases, Phases, Op!C!ActivePhases,
     ActivePhases
<1>5. Op!C!Jobs = Jobs
  BY <1>1, <1>2 DEF Op!C!Jobs, Jobs
<1>6. \A c \in Controllers : Op!C!LocalsOK(c) <=> LocalsOK(c)
  BY DEF Op!C!LocalsOK, LocalsOK
<1> QED BY <1>2, <1>3, <1>4, <1>5, <1>6 DEF Op!C!TypeOK, TypeOK, Op!C!Kinds, Kinds

\* The calls of a round.
LEMMA SameRound ==
    ASSUME NEW c \in Controllers
    PROVE  /\ Op!C!Tick(c) => Tick(c)
           /\ \A n \in Names : Op!C!Get(c, n) => Get(c, n)
           /\ \A n \in Names : Op!C!GetMissing(c, n) => GetMissing(c, n)
           /\ \A n \in Names : Op!C!GetFails(c, n) => GetFails(c, n)
BY DEF Op!C!Tick, Tick, Op!C!Get, Get, Op!C!GetMissing, GetMissing, Op!C!GetFails,
        GetFails, Op!C!TakeFromWork, TakeFromWork, Op!C!ListedSets, ListedSets,
        Op!C!Converts, Converts, Op!C!NoJob, NoJob, Op!C!Spend, Spend

\* Compiling.
LEMMA SameCompile ==
    ASSUME NEW c \in Controllers
    PROVE  /\ Op!C!CacheHit(c) => CacheHit(c)
           /\ Op!C!CompileExplicit(c) => CompileExplicit(c)
           /\ Op!C!Synthesize(c) => Synthesize(c)
           /\ Op!C!SynthesizeFails(c) => SynthesizeFails(c)
BY SameHash
   DEF Op!C!CacheHit, CacheHit, Op!C!CompileExplicit, CompileExplicit,
        Op!C!Synthesize, Synthesize, Op!C!SynthesizeFails, SynthesizeFails, Op!C!Hit, Hit,
        Op!C!Compiled, Compiled, Op!C!Store, Store, Op!C!NeedsModel, NeedsModel,
        Op!C!Request, Request, Op!C!IsExplicit, IsExplicit, Op!C!ExplicitWorkload,
        ExplicitWorkload, Op!C!SynthesizedWorkload, SynthesizedWorkload,
        Op!C!DefaultReplicas, DefaultReplicas, Op!C!DefaultImage, DefaultImage,
        Op!C!Spend, Spend

\* Listing pods.
LEMMA SameList ==
    ASSUME NEW c \in Controllers
    PROVE  /\ Op!C!ListPods(c) => ListPods(c)
           /\ Op!C!ListPodsFails(c) => ListPodsFails(c)
<1>1. \A live, d : Op!C!Excess(live, d) = Excess(live, d)
  BY DEF Op!C!Excess, Excess, Op!C!Cardinality, Cardinality
<1>2. \A S : Op!C!Cardinality(S) = Cardinality(S)
  BY DEF Op!C!Cardinality, Cardinality
<1>3. Op!C!ListPods(c) => ListPods(c)
  BY <1>1, <1>2, SameManaged
     DEF Op!C!ListPods, ListPods, Op!C!IsPodReady, IsPodReady
<1>4. Op!C!ListPodsFails(c) => ListPodsFails(c)
  BY DEF Op!C!ListPodsFails, ListPodsFails, Op!C!Return, Return, Op!C!NoJob, NoJob,
          Op!C!Spend, Spend
<1> QED BY <1>3, <1>4

\* Creating pods.
LEMMA SameCreate ==
    ASSUME NEW c \in Controllers
    PROVE  /\ \A p \in Pods : Op!C!CreatePod(c, p) => CreatePod(c, p)
           /\ Op!C!CreateFails(c) => CreateFails(c)
BY DEF Op!C!CreatePod, CreatePod, Op!C!CreateFails, CreateFails, Op!C!FreeNames,
        FreeNames, Op!C!NewPod, NewPod, Op!C!Return, Return, Op!C!NoJob, NoJob,
        Op!C!Spend, Spend

\* Deleting pods, and the end of the process.
LEMMA SameDeletions ==
    ASSUME NEW c \in Controllers
    PROVE  /\ \A p \in Pods : Op!C!DeletePod(c, p) => DeletePod(c, p)
           /\ \A p \in Pods : Op!C!DeleteFails(c, p) => DeleteFails(c, p)
           /\ Op!C!Panic(c) => Panic(c)
           /\ Op!C!Restart(c) => Restart(c)
BY DEF Op!C!DeletePod, DeletePod, Op!C!DeleteFails, DeleteFails, Op!C!Panic, Panic,
        Op!C!Restart, Restart, Op!C!IsNextVictim, IsNextVictim, Op!C!PastVictim,
        PastVictim, Op!C!SetPhase, SetPhase, Op!C!Return, Return, Op!C!NoJob, NoJob,
        Op!C!Spend, Spend

\* Writing the status.
LEMMA SameReports ==
    ASSUME NEW c \in Controllers
    PROVE  /\ Op!C!ReportFailure(c) => ReportFailure(c)
           /\ Op!C!Report(c) => Report(c)
           /\ Op!C!ReportConflict(c) => ReportConflict(c)
           /\ Op!C!ReportFails(c) => ReportFails(c)
BY DEF Op!C!ReportFailure, ReportFailure, Op!C!Report, Report, Op!C!ReportConflict,
        ReportConflict, Op!C!ReportFails, ReportFails, Op!C!WriteStatus, WriteStatus,
        Op!C!Outdated, Outdated, Op!C!Condition, Condition, Op!C!Return, Return,
        Op!C!NoJob, NoJob, Op!C!Spend, Spend

\* Users.
LEMMA SameUser == Op!C!User => User
BY DEF Op!C!User, User, Op!C!CreateSet, CreateSet, Op!C!EditSpec, EditSpec,
        Op!C!DeleteSet, DeleteSet, Op!C!Outdated, Outdated, Op!C!NoStatus, NoStatus,
        Op!C!Spend, Spend

\* The cluster.
LEMMA SameCluster ==
    ASSUME NEW p \in Pods
    PROVE  /\ Op!C!Removal(p) => Removal(p)
           /\ Op!C!Collection(p) => Collection(p)
           /\ Op!C!Disruption(p) => Disruption(p)
           /\ Op!C!PodStarts(p) => PodStarts(p)
           /\ Op!C!ControllerUnchanged => ControllerUnchanged
BY DEF Op!C!Removal, Removal, Op!C!Collection, Collection, Op!C!Disruption,
        Disruption, Op!C!PodStarts, PodStarts, Op!C!PodRemoved, PodRemoved,
        Op!C!GarbageCollect, GarbageCollect, Op!C!OwnerExists, OwnerExists,
        Op!C!Disrupted, Disrupted, Op!C!Active, Active, Op!C!ActivePhases, ActivePhases,
        Op!C!SetPhase, SetPhase, Op!C!ControllerUnchanged, ControllerUnchanged,
        Op!C!Spend, Spend

-----------------------------------------------------------------------------
(***************************************************************************)
(* Every step of the whole is, for the controllers, a step of Controller,  *)
(* or one of the following, which only takes pods away or starts them.     *)
(***************************************************************************)
\* A pod starts as soon as its node runs it, or disappears with its node or
\* for having finished; a process without a controller crashes.
Beside ==
    /\ ControllerUnchanged
    /\ \/ /\ UNCHANGED spent
          /\ \E p \in Pods : PodStarts(p) \/ pods' = [pods EXCEPT ![p] = None]
       \/ UNCHANGED pods /\ Spend("crash")

\* A controller of the whole does what Controller says.
LEMMA ProcessSteps ==
    ASSUME NEW c \in Controllers,
           Op!ControllerCalls(c) \/ Op!ControllerFails(c) \/ Op!Panic(c)
    PROVE  Step(c) \/ Fault(c)
<1>1. CASE Op!ControllerCalls(c)
  <2>1. Op!C!Call(c)
    BY <1>1 DEF Op!ControllerCalls
  <2>2. CASE Op!C!Tick(c) \/ \E n \in Names : Op!C!Get(c, n) \/ Op!C!GetMissing(c, n)
    <3>1. Tick(c) \/ \E n \in Names : Get(c, n) \/ GetMissing(c, n)
      BY <2>2, SameRound
    <3> QED BY <3>1 DEF Step, Call
  <2>3. CASE Op!C!CacheHit(c) \/ Op!C!CompileExplicit(c) \/ Op!C!Synthesize(c)
    BY <2>3, SameCompile DEF Step, Call
  <2>4. CASE Op!C!ListPods(c)
    BY <2>4, SameList DEF Step, Call
  <2>5. CASE \E p \in Pods : Op!C!CreatePod(c, p) \/ Op!C!DeletePod(c, p)
    BY <2>5, SameCreate, SameDeletions DEF Step, Call
  <2>6. CASE Op!C!ReportFailure(c) \/ Op!C!Report(c) \/ Op!C!ReportConflict(c)
    BY <2>6, SameReports DEF Step, Call
  <2> QED BY <2>1, <2>2, <2>3, <2>4, <2>5, <2>6 DEF Op!C!Call
<1>2. CASE Op!ControllerFails(c)
  <2>1. Op!C!CallFails(c)
    BY <1>2 DEF Op!ControllerFails
  <2>2. CASE \E n \in Names : Op!C!GetFails(c, n)
    BY <2>2, SameRound DEF Fault, CallFails
  <2>3. CASE Op!C!SynthesizeFails(c) \/ Op!C!ListPodsFails(c) \/ Op!C!CreateFails(c)
    BY <2>3, SameCompile, SameList, SameCreate DEF Fault, CallFails
  <2>4. CASE (\E p \in Pods : Op!C!DeleteFails(c, p)) \/ Op!C!ReportFails(c)
    BY <2>4, SameDeletions, SameReports DEF Fault, CallFails
  <2> QED BY <2>1, <2>2, <2>3, <2>4 DEF Op!C!CallFails
<1>3. CASE Op!Panic(c)
  BY <1>3, SameDeletions DEF Op!Panic, Step
<1> QED BY <1>1, <1>2, <1>3

\* The crash of a process.
LEMMA CrashSteps ==
    ASSUME NEW o \in Controllers \cup Schedulers, Op!Crash(o)
    PROVE  (\E c \in Controllers : Fault(c)) \/ Beside
<1>1. Spend("crash")
  BY DEF Op!Crash, Op!C!Spend, Spend
<1>2. CASE o \in Controllers
  <2>1. Restart(o)
    BY <1>2, SameDeletions DEF Op!Crash
  <2> QED BY <1>1, <1>2, <2>1 DEF Crash, Fault
<1>3. CASE o \notin Controllers
  <2>1. UNCHANGED <<sets, pods, pc, work, job, cache, asked>>
    BY <1>3 DEF Op!Crash
  <2> QED BY <1>1, <2>1 DEF Beside, ControllerUnchanged
<1> QED BY <1>2, <1>3

\* The cluster of the whole.
LEMMA ClusterSteps ==
    ASSUME Op!Kubernetes
    PROVE  Kubernetes \/ Beside \/ UNCHANGED vars
<1>1. ASSUME NEW p \in Pods, Op!Removal(p) \/ Op!Collection(p) \/ Op!Disruption(p)
      PROVE  Kubernetes
  BY <1>1, SameCluster DEF Op!Removal, Op!Collection, Op!Disruption, Kubernetes
<1>2. ASSUME NEW p \in Pods, Op!Starts(p) PROVE Beside
  BY <1>2, SameCluster DEF Op!Starts, Beside
<1>3. ASSUME NEW p \in Pods, Op!Lost(p) PROVE Beside
  BY <1>3, SameCluster DEF Op!Lost, Beside
<1>4. ASSUME NEW d \in Nodes, Op!NodeChange(d) PROVE UNCHANGED vars
  BY <1>4 DEF Op!NodeChange, Op!controllerVars, vars
<1> QED BY <1>1, <1>2, <1>3, <1>4 DEF Op!Kubernetes

\* Every step of the whole.
LEMMA Steps ==
    ASSUME [Op!Next]_(Op!vars)
    PROVE  [Next]_vars \/ Beside
<1>1. ASSUME NEW c \in Controllers,
             Op!ControllerCalls(c) \/ Op!ControllerFails(c) \/ Op!Panic(c)
      PROVE  Next
  BY <1>1, ProcessSteps DEF Next
<1>2. ASSUME NEW o \in Schedulers, Op!SchedulerCalls(o) \/ Op!SchedulerFails(o)
      PROVE  UNCHANGED vars
  BY <1>2 DEF Op!SchedulerCalls, Op!SchedulerFails, Op!controllerVars, vars
<1>3. ASSUME NEW o \in Controllers \cup Schedulers, Op!Crash(o)
      PROVE  Next \/ Beside
  BY <1>3, CrashSteps DEF Next
<1>4. CASE Op!User
  BY <1>4, SameUser DEF Op!User, Next
<1>5. CASE Op!Kubernetes
  BY <1>5, ClusterSteps DEF Next
<1>6. CASE UNCHANGED Op!vars
  BY <1>6 DEF Op!vars, Op!controllerVars, vars
<1> QED BY <1>1, <1>2, <1>3, <1>4, <1>5, <1>6 DEF Op!Next

-----------------------------------------------------------------------------
(***************************************************************************)
(* What is beside Controller disturbs none of its invariants.              *)
(***************************************************************************)
\* It makes no pod and begins no creation.
LEMMA BesideQuiet == ASSUME IInv, Beside PROVE Quiet
<1>1. UNCHANGED <<pc, job>>
  BY DEF Beside, ControllerUnchanged
<1>2. ASSUME NEW p \in Pods, PodStarts(p) PROVE PodsShrink
  BY <1>2, SetPhaseShrinks DEF PodStarts, Active, Phases, ActivePhases
<1>3. ASSUME NEW p \in Pods, pods' = [pods EXCEPT ![p] = None] PROVE PodsShrink
  <2>1. \A q \in Pods : pods'[q] = None \/ pods'[q] = pods[q]
    BY <1>3 DEF IInv, TypeOK
  <2> QED BY <2>1 DEF PodsShrink, Active
<1>4. PodsShrink
  BY <1>2, <1>3, SamePodsShrink DEF Beside
<1> QED BY <1>1, <1>4 DEF Quiet

\* It keeps the types.
LEMMA BesideIInv == ASSUME IInv, Beside PROVE IInv'
<1>1. ASSUME NEW p \in Pods, PodStarts(p)
      PROVE  pods' \in [Pods -> PodObjects \cup {None}]
  BY <1>1, SetPhaseType DEF PodStarts, Phases, ActivePhases
<1>2. ASSUME NEW p \in Pods, pods' = [pods EXCEPT ![p] = None]
      PROVE  pods' \in [Pods -> PodObjects \cup {None}]
  BY <1>2 DEF IInv, TypeOK
<1>3. pods' \in [Pods -> PodObjects \cup {None}]
  BY <1>1, <1>2 DEF Beside, IInv, TypeOK
<1>4. spent' \in [Kinds -> Nat]
  BY SpendType DEF Beside, Kinds, IInv, TypeOK
<1> QED BY <1>3, <1>4, PodsOnlyIInv DEF Beside

\* It keeps the sets, the jobs, the caches and the versions.
LEMMA BesideKeeps ==
    ASSUME IInv, Beside
    PROVE  /\ UNCHANGED <<sets, pc, job, cache, asked>>
           /\ VersionsStay /\ VictimsStay
<1>1. UNCHANGED <<sets, pc, job, cache, asked>>
  BY DEF Beside, ControllerUnchanged
<1>2. spent'["edit"] = spent["edit"]
  BY SpendOther DEF Beside
<1> QED BY <1>1, <1>2 DEF VersionsStay, JobsStay, SetsStay, VictimsStay

\* The invariant of Controller is one of the whole.
LEMMA WholeIInv ==
    ASSUME IInv, [Op!Next]_(Op!vars)
    PROVE  IInv'
BY Steps, NextIInv, BesideIInv

-----------------------------------------------------------------------------
(***************************************************************************)
(* The theorems.                                                           *)
(***************************************************************************)
\* The controllers' half of the state keeps its shape: whatever schedulers,
\* nodes and other processes do, Reconcile has the set and the compilation it
\* dereferences.  (Stated in the names of this module and in Operator's.)
THEOREM ControllersTyped == Op!Spec => [](TypeOK /\ Op!C!TypeOK)
<1>1. Op!Init => IInv
  BY SameInit, InitIInv
<1>2. IInv /\ [Op!Next]_(Op!vars) => IInv'
  BY WholeIInv
<1>3. IInv => TypeOK /\ Op!C!TypeOK
  BY SameTypes DEF IInv
<1> QED BY <1>1, <1>2, <1>3, PTL DEF Op!Spec

\* However many processes there are and however their nodes fail, each
\* controller contributes at most one scale of active pods to a set.
THEOREM EachProcessWithinScale == Op!Spec => []ContributionBounded
<1>1. Op!Init => IInv /\ ContributionBounded
  BY SameInit, InitIInv, InitContribution
<1>2. IInv /\ ContributionBounded /\ [Op!Next]_(Op!vars)
        => (IInv /\ ContributionBounded)'
  BY WholeIInv, Steps, NextContribution, BesideQuiet, QuietKeeps
<1> QED BY <1>1, <1>2, PTL DEF Op!Spec

\* The one controller of an installation never has more pods in the making
\* than it compiled, also when nodes leave and processes die meanwhile.
THEOREM ProcessNeverOvershoots ==
    ASSUME Alone
    PROVE  Op!Spec => []NoOvershoot
<1>1. Op!Init => IInv /\ AllScaled
  BY SameInit, InitIInv DEF Init, AllScaled, Scaled
<1>2. IInv /\ AllScaled /\ [Op!Next]_(Op!vars) => (IInv /\ AllScaled)'
  BY WholeIInv, Steps, NextScaled, BesideQuiet, QuietKeepsScale
<1>3. IInv /\ AllScaled => NoOvershoot
  BY ScaledSuffices
<1> QED BY <1>1, <1>2, <1>3, PTL DEF Op!Spec

\* A status that claims the current generation reports its scale, as long as
\* the fingerprint tells scales apart.
THEOREM ProcessReportsApplied ==
    ASSUME HashSeparates
    PROVE  Op!Spec => []ObservedMeansApplied
<1>1. Op!Init => IInv /\ AppliedInv
  BY SameInit, InitIInv, InitApplied
<1>2. IInv /\ AppliedInv /\ [Op!Next]_(Op!vars) => (IInv /\ AppliedInv)'
  <2>1. IInv /\ AppliedInv /\ [Next]_vars => AppliedInv'
    BY JobsAppliedNext, CacheAppliedNext, SetsAppliedNext DEF AppliedInv
  <2>2. IInv /\ AppliedInv /\ Beside => AppliedInv'
    BY BesideKeeps DEF AppliedInv, CacheApplied, JobsApplied, SetsApplied, EntryApplied
  <2> QED BY <2>1, <2>2, WholeIInv, Steps
<1>3. AppliedInv => ObservedMeansApplied
  BY DEF AppliedInv, SetsApplied, SetApplied, ObservedMeansApplied
<1> QED BY <1>1, <1>2, <1>3, PTL DEF Op!Spec

\* A negative scale is never reported on: the process has died before.
THEOREM ProcessDiesUnreported == Op!Spec => []NegativeNeverReported
<1>1. Op!Init => IInv /\ NegativeInv
  BY SameInit, InitIInv, InitNegative
<1>2. IInv /\ NegativeInv /\ [Op!Next]_(Op!vars) => (IInv /\ NegativeInv)'
  <2>1. IInv /\ NegativeInv /\ [Next]_vars => NegativeInv'
    BY NextReportedScales, NextNegative DEF NegativeInv
  <2>2. IInv /\ NegativeInv /\ Beside => NegativeInv'
    BY BesideKeeps DEF NegativeInv, ReportedScales, NegativeNeverReported
  <2> QED BY <2>1, <2>2, WholeIInv, Steps
<1> QED BY <1>1, <1>2, PTL DEF Op!Spec, NegativeInv

\* What an active pod runs was compiled for its set, whatever becomes of the
\* nodes and the processes and whatever labels the answers bring along.
THEOREM ProcessWorkloadsOwn == Op!Spec => []OwnWorkload
<1>1. Op!Init => IInv /\ OwnInv
  BY SameInit, InitIInv, InitOwn
<1>2. IInv /\ OwnInv /\ [Op!Next]_(Op!vars) => (IInv /\ OwnInv)'
  <2>1. IInv /\ OwnInv /\ [Next]_vars => OwnInv'
    BY CacheOwnNext, JobsOwnNext, PodsOwnNext DEF OwnInv
  <2>2. IInv /\ OwnInv /\ Beside => OwnInv'
    BY BesideKeeps, BesideQuiet
       DEF OwnInv, CacheOwn, JobsOwn, PodsOwn, Quiet, PodsShrink
  <2> QED BY <2>1, <2>2, WholeIInv, Steps
<1>3. OwnInv => OwnWorkload
  BY DEF OwnInv, PodsOwn, OwnWorkload
<1> QED BY <1>1, <1>2, <1>3, PTL DEF Op!Spec

\* A process asks the model once per version of a set until it is restarted,
\* whatever becomes of the nodes and however many other processes there are.
THEOREM ProcessAsksOnce == Op!Spec => AskOncePerVersion
<1>1. Op!Init => IInv /\ AskInv
  BY SameInit, InitIInv, InitAsk
<1>2. IInv /\ AskInv /\ [Op!Next]_(Op!vars) => (IInv /\ AskInv)'
  BY WholeIInv, Steps, NextVersions, BesideKeeps, VersionsStayInv
<1>3. IInv /\ AskInv
        => \A c \in Controllers : Synthesize(c) => Request(c) \notin asked[c]
  BY AskedIsCached
<1> QED BY <1>1, <1>2, <1>3, PTL DEF Op!Spec, AskOncePerVersion
=============================================================================
