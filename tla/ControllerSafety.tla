-------------------------- MODULE ControllerSafety --------------------------
(***************************************************************************)
(* The safety properties of Controller.tla that hold for any number of     *)
(* controllers, on top of the type correctness of ControllerProofs.tla,    *)
(* and at the end what holds of one that is alone.                         *)
(***************************************************************************)
EXTENDS ControllerProofs

-----------------------------------------------------------------------------
(***************************************************************************)
(* ContributionBounded is inductive by itself.  Only two kinds of step     *)
(* could raise a contribution: a List, which sets what is still to create  *)
(* to the scale less what was listed, and c's own pods are among those;    *)
(* and a creation, which takes one off what is still to create.            *)
(***************************************************************************)
Contribution(c, n) == Cardinality(Made(c, n)) + Todo(c, n)

\* The managed pods are finitely many.
LEMMA ManagedFinite ==
    ASSUME NEW n
    PROVE  /\ IsFiniteSet(Managed(n)) /\ Cardinality(Managed(n)) \in Nat
           /\ IsFiniteSet(Managed(n)') /\ Cardinality(Managed(n)') \in Nat
<1>1. Managed(n) \in SUBSET Pods /\ Managed(n)' \in SUBSET Pods
  BY DEF Managed
<1> QED BY <1>1, PodSetsFinite

\* The pods a controller made for a set are finitely many.
LEMMA MadeFinite ==
    ASSUME NEW c, NEW n
    PROVE  Made(c, n) \in SUBSET Pods /\ IsFiniteSet(Made(c, n))
             /\ Cardinality(Made(c, n)) \in Nat
<1>1. Made(c, n) \in SUBSET Pods
  BY DEF Made, Managed
<1> QED BY <1>1, PodSetsFinite

\* ... in the next state, too.
LEMMA MadeFiniteNext ==
    ASSUME NEW c, NEW n
    PROVE  Made(c, n)' \in SUBSET Pods /\ IsFiniteSet(Made(c, n)')
             /\ Cardinality(Made(c, n)') \in Nat
<1>1. Made(c, n)' \in SUBSET Pods
  BY DEF Made, Managed
<1> QED BY <1>1, PodSetsFinite

\* A contribution is a number.
LEMMA ContributionNat ==
    ASSUME IInv, NEW c \in Controllers, NEW n \in Names
    PROVE  Todo(c, n) \in Nat /\ Contribution(c, n) \in Nat
<1>1. Todo(c, n) \in Nat
  BY DEF Todo, IInv, TypeOK, Jobs
<1> QED BY <1>1, MadeFinite DEF Contribution

\* ... in the next state, too.
LEMMA ContributionNatNext ==
    ASSUME IInv', NEW c \in Controllers, NEW n \in Names
    PROVE  Todo(c, n)' \in Nat /\ Contribution(c, n)' \in Nat
<1>1. Todo(c, n)' \in Nat
  BY DEF Todo, IInv, TypeOK, Jobs
<1> QED BY <1>1, MadeFiniteNext DEF Contribution

\* What is within the scale stays so when it shrinks.
LEMMA WithinScaleShrinks ==
    ASSUME NEW k \in Nat, NEW m \in Nat, m <= k, WithinScale(k)
    PROVE  WithinScale(m)
<1>1. CASE k = 0
  BY <1>1 DEF WithinScale
<1>2. CASE \E d \in Scales : k <= d
  <2>1. PICK d \in Scales : k <= d
    BY <1>2
  <2>2. d \in Int
    BY ScalesAssumption
  <2>3. m <= d
    BY <2>1, <2>2
  <2> QED BY <2>3 DEF WithinScale
<1> QED BY <1>1, <1>2 DEF WithinScale

\* A step that raises no contribution of c and does not begin a creation.
LEMMA ContributionKept ==
    ASSUME IInv, IInv', NEW c \in Controllers, NEW n \in Names,
           ContributionBounded,
           Contribution(c, n)' <= Contribution(c, n),
           pc'[c] = "create" => /\ pc[c] = "create"
                                /\ job'[c].name = job[c].name
                                /\ job'[c].out = job[c].out
    PROVE  /\ WithinScale(Contribution(c, n))'
           /\ pc'[c] = "create" /\ job'[c].name = n
                => Contribution(c, n)' <= job'[c].out.replicas
<1>1. Contribution(c, n) \in Nat /\ Contribution(c, n)' \in Nat
  BY ContributionNat, ContributionNatNext
<1>2. /\ WithinScale(Contribution(c, n))
      /\ pc[c] = "create" /\ job[c].name = n
           => Contribution(c, n) <= job[c].out.replicas
  BY DEF ContributionBounded, Contribution
<1>3. WithinScale(Contribution(c, n)')
  BY <1>1, <1>2, WithinScaleShrinks
<1>4. ASSUME pc'[c] = "create", job'[c].name = n
      PROVE  Contribution(c, n)' <= job'[c].out.replicas
  <2>1. Contribution(c, n) <= job[c].out.replicas /\ job'[c].out = job[c].out
    BY <1>2, <1>4
  <2>2. job[c].out.replicas \in Int
    BY <1>4, DesiredInt DEF IInv, TypeOK, LocalsOK
  <2> QED BY <1>1, <2>1, <2>2
<1> QED BY <1>3, <1>4 DEF WithinScale

\* Fewer pods made, no more to create.
LEMMA ContributionShrinks ==
    ASSUME IInv, IInv', NEW c \in Controllers, NEW n \in Names,
           Made(c, n)' \subseteq Made(c, n), Todo(c, n)' <= Todo(c, n)
    PROVE  Contribution(c, n)' <= Contribution(c, n)
<1>1. Cardinality(Made(c, n)') <= Cardinality(Made(c, n))
  BY MadeFinite, FS_Subset
<1> QED BY <1>1, ContributionNat, ContributionNatNext, MadeFinite, MadeFiniteNext
        DEF Contribution

\* No pod becomes active or changes its identity.
PodsShrink ==
    \A p \in Pods :
        Active(p)' => /\ Active(p)
                      /\ pods'[p].pod = pods[p].pod
                      /\ pods'[p].owner = pods[p].owner
                      /\ pods'[p].by = pods[p].by

\* No pod is made and no creation begins.
Quiet ==
    /\ PodsShrink
    /\ \A c \in Controllers :
         pc'[c] = "create" => /\ pc[c] = "create"
                              /\ job'[c].name = job[c].name
                              /\ job'[c].out = job[c].out
                              /\ job'[c].todo = job[c].todo

\* A quiet step keeps every contribution bounded.
LEMMA QuietKeeps ==
    ASSUME IInv, IInv', ContributionBounded, Quiet
    PROVE  ContributionBounded'
<1> SUFFICES ASSUME NEW c \in Controllers, NEW n \in Names
             PROVE  /\ WithinScale(Contribution(c, n))'
                    /\ pc'[c] = "create" /\ job'[c].name = n
                         => Contribution(c, n)' <= job'[c].out.replicas
  BY DEF ContributionBounded, Contribution, WithinScale
<1>1. Made(c, n)' \subseteq Made(c, n)
  BY DEF Quiet, PodsShrink, Made, Managed
<1>2. Todo(c, n)' <= Todo(c, n)
  <2>1. Todo(c, n) \in Nat /\ Todo(c, n)' \in Nat
    BY ContributionNat, ContributionNatNext
  <2>2. Todo(c, n)' = Todo(c, n) \/ Todo(c, n)' = 0
    BY DEF Quiet, Todo
  <2> QED BY <2>1, <2>2
<1> QED BY <1>1, <1>2, ContributionShrinks, ContributionKept DEF Quiet

\* Leaving the pods alone makes none active.
LEMMA SamePodsShrink == ASSUME UNCHANGED pods PROVE PodsShrink
BY DEF PodsShrink, Active

\* An active pod that changes its phase, or any pod that is being deleted.
LEMMA SetPhaseShrinks ==
    ASSUME IInv, NEW p \in Pods, NEW phase \in Phases, SetPhase(p, phase),
           pods[p] # None, Active(p) \/ phase \notin ActivePhases
    PROVE  PodsShrink
<1> SUFFICES ASSUME NEW q \in Pods, Active(q)'
             PROVE  /\ Active(q)
                    /\ pods'[q].pod = pods[q].pod
                    /\ pods'[q].owner = pods[q].owner
                    /\ pods'[q].by = pods[q].by
  BY DEF PodsShrink
<1>1. CASE q = p
  <2>1. pods[p] \in PodObjects
    BY DEF IInv, TypeOK
  <2>2. pods'[p] = [pods[p] EXCEPT !.phase = phase]
    BY DEF SetPhase, IInv, TypeOK
  <2>3. pods'[p].phase = phase
    BY <2>1, <2>2 DEF PodObjects
  <2>4. Active(p)
    BY <1>1, <2>3 DEF Active
  <2> QED BY <1>1, <2>1, <2>2, <2>4 DEF PodObjects
<1>2. CASE q # p
  BY <1>2 DEF Active, SetPhase, IInv, TypeOK
<1> QED BY <1>1, <1>2

\* The cluster makes no pod by itself.
LEMMA KubernetesQuiet == ASSUME IInv, Kubernetes PROVE Quiet
<1>1. PICK p \in Pods :
        Removal(p) \/ Collection(p) \/ KubeletReport(p) \/ Disruption(p)
  BY DEF Kubernetes
<1>2. CASE Removal(p)
  <2>1. \A q \in Pods : pods'[q] = None \/ pods'[q] = pods[q]
    BY <1>2 DEF Removal, PodRemoved, IInv, TypeOK
  <2> QED BY <1>2, <2>1 DEF Quiet, PodsShrink, Active, Removal, ControllerUnchanged
<1>3. CASE Collection(p)
  <2>1. PodsShrink
    BY <1>3, SetPhaseShrinks
       DEF Collection, GarbageCollect, Phases, ActivePhases
  <2> QED BY <1>3, <2>1 DEF Quiet, Collection, ControllerUnchanged
<1>4. CASE KubeletReport(p)
  <2>1. PodsShrink
    BY <1>4, SetPhaseShrinks
       DEF KubeletReport, PodStarts, PodProbed, Active, Phases, ActivePhases
  <2> QED BY <1>4, <2>1 DEF Quiet, KubeletReport, ControllerUnchanged
<1>5. CASE Disruption(p)
  <2>1. PodsShrink
    BY <1>5, SetPhaseShrinks
       DEF Disruption, Disrupted, Active, Phases, ActivePhases
  <2> QED BY <1>5, <2>1 DEF Quiet, Disruption, ControllerUnchanged
<1> QED BY <1>1, <1>2, <1>3, <1>4, <1>5

\* Being outdated changes nothing else in a job.
LEMMA OutdatedFields ==
    ASSUME IInv, NEW n, NEW c \in Controllers
    PROVE  /\ Outdated(n)[c].name = job[c].name
           /\ Outdated(n)[c].set = job[c].set
           /\ Outdated(n)[c].out = job[c].out
           /\ Outdated(n)[c].todo = job[c].todo
           /\ Outdated(n)[c].victims = job[c].victims
<1>1. job[c] \in Jobs
  BY DEF IInv, TypeOK
<1>2. CASE job[c].name = n
  BY <1>1, <1>2 DEF Outdated, Jobs
<1>3. CASE job[c].name # n
  BY <1>1, <1>3 DEF Outdated
<1> QED BY <1>2, <1>3

\* A user makes no pod.
LEMMA UserQuiet == ASSUME IInv, User PROVE Quiet
<1>1. UNCHANGED <<pods, pc>> /\ (UNCHANGED job \/ \E n \in Names : job' = Outdated(n))
  BY DEF User, CreateSet, EditSpec, DeleteSet
<1>2. ASSUME NEW c \in Controllers
      PROVE  /\ job'[c].name = job[c].name
             /\ job'[c].out = job[c].out
             /\ job'[c].todo = job[c].todo
  BY <1>1, OutdatedFields
<1> QED BY <1>1, <1>2, SamePodsShrink DEF Quiet

\* The steps of a controller before and after it touches the pods.
LEMMA ReturnQuiet ==
    ASSUME IInv, NEW c \in Controllers, Return(c), UNCHANGED pods
    PROVE  Quiet
BY SamePodsShrink DEF Quiet, Return, IInv, TypeOK

\* A status write touches no pod and ends the reconcile.
LEMMA WriteStatusQuiet ==
    ASSUME IInv, NEW c \in Controllers, NEW status, WriteStatus(c, status)
    PROVE  Quiet
<1>1. ASSUME NEW d \in Controllers, d # c
      PROVE  /\ job'[d].name = job[d].name
             /\ job'[d].out = job[d].out
             /\ job'[d].todo = job[d].todo
             /\ pc'[d] = pc[d]
  BY <1>1, OutdatedFields DEF WriteStatus, IInv, TypeOK
<1>2. pc'[c] = "loop"
  BY DEF WriteStatus, IInv, TypeOK
<1> QED BY <1>1, <1>2, SamePodsShrink DEF Quiet, WriteStatus

\* Passing a victim begins no creation.
LEMMA PastVictimQuiet ==
    ASSUME IInv, NEW c \in Controllers, NEW p \in Pods,
           pc[c] = "delete", PastVictim(c, p), PodsShrink
    PROVE  Quiet
<1>1. pc'[c] # "create"
  BY DEF PastVictim, IInv, TypeOK
<1>2. \A d \in Controllers : d # c => pc'[d] = pc[d] /\ job'[d] = job[d]
  BY DEF PastVictim, IInv, TypeOK
<1> QED BY <1>1, <1>2 DEF Quiet

\* A compilation begins no creation.
LEMMA CompiledQuiet ==
    ASSUME IInv, NEW c \in Controllers, NEW out, Compiled(c, out), UNCHANGED pods
    PROVE  Quiet
<1>1. pc'[c] = "list"
  BY DEF Compiled, IInv, TypeOK
<1>2. \A d \in Controllers : d # c => pc'[d] = pc[d] /\ job'[d] = job[d]
  BY DEF Compiled, IInv, TypeOK
<1> QED BY <1>1, <1>2, SamePodsShrink DEF Quiet

\* ... whichever way it comes about.
LEMMA CompileQuiet ==
    ASSUME IInv, NEW c \in Controllers,
           CacheHit(c) \/ CompileExplicit(c) \/ Synthesize(c)
    PROVE  Quiet
BY CompiledQuiet DEF CacheHit, CompileExplicit, Synthesize

\* A deletion makes no pod active.
LEMMA DeletePodQuiet ==
    ASSUME IInv, NEW c \in Controllers, NEW p \in Pods, DeletePod(c, p)
    PROVE  Quiet
<1>1. PodsShrink
  BY SamePodsShrink, SetPhaseShrinks DEF DeletePod, Phases, ActivePhases
<1> QED BY <1>1, PastVictimQuiet DEF DeletePod, IsNextVictim

\* Of a controller's own steps only List and Create are not quiet.
LEMMA StepCases ==
    ASSUME IInv, NEW c \in Controllers, Step(c)
    PROVE  ListPods(c) \/ (\E p \in Pods : CreatePod(c, p)) \/ Quiet
<1>1. CASE Tick(c) \/ \E n \in Names : GetMissing(c, n)
  BY <1>1, SamePodsShrink DEF Quiet, Tick, GetMissing
<1>2. CASE \E n \in Names : Get(c, n)
  BY <1>2, SamePodsShrink DEF Quiet, Get, IInv, TypeOK
<1>3. CASE Panic(c) \/ ReportConflict(c)
  BY <1>3, ReturnQuiet DEF Panic, Restart, ReportConflict
<1>4. CASE ReportFailure(c) \/ Report(c)
  BY <1>4, WriteStatusQuiet DEF ReportFailure, Report
<1> QED BY <1>1, <1>2, <1>3, <1>4, CompileQuiet, DeletePodQuiet DEF Step, Call

\* Of the faults only a failed Create may leave a pod behind.
LEMMA FaultCases ==
    ASSUME IInv, NEW c \in Controllers, Fault(c)
    PROVE  CreateFails(c) \/ Quiet
<1>1. CASE \E n \in Names : GetFails(c, n)
  BY <1>1, SamePodsShrink DEF Quiet, GetFails
<1>2. CASE SynthesizeFails(c)
  BY <1>2, SamePodsShrink DEF Quiet, SynthesizeFails, IInv, TypeOK
<1>3. CASE ListPodsFails(c) \/ ReportFails(c) \/ Crash(c)
  BY <1>3, ReturnQuiet DEF ListPodsFails, ReportFails, Crash, Restart
<1>4. CASE \E p \in Pods : DeleteFails(c, p)
  BY <1>4, SamePodsShrink, PastVictimQuiet DEF DeleteFails, IsNextVictim
<1> QED BY <1>1, <1>2, <1>3, <1>4 DEF Fault, CallFails

\* A List: of c's own pods there are no more than were listed.
LEMMA ListPodsContribution ==
    ASSUME IInv, IInv', ContributionBounded, NEW c \in Controllers, ListPods(c)
    PROVE  ContributionBounded'
<1> SUFFICES ASSUME NEW d \in Controllers, NEW n \in Names
             PROVE  /\ WithinScale(Contribution(d, n))'
                    /\ pc'[d] = "create" /\ job'[d].name = n
                         => Contribution(d, n)' <= job'[d].out.replicas
  BY DEF ContributionBounded, Contribution, WithinScale
<1> DEFINE live == Managed(job[c].name)
           size == Cardinality(live)
           desired == job[c].out.replicas
           todo == IF size < desired THEN desired - size ELSE 0
<1>1. Made(d, n)' = Made(d, n)
  BY DEF ListPods, Made, Managed, Active
<1>2. /\ pc[c] = "list" /\ job[c].out # None
      /\ job[c].name \in Names
  BY DEF ListPods, IInv, TypeOK, LocalsOK, Jobs
<1>3. desired \in Int /\ desired \in Scales
  BY <1>2, DesiredInt DEF Scales
<1>4. live \in SUBSET Pods /\ IsFiniteSet(live) /\ size \in Nat
  BY PodSetsFinite DEF Managed
<1>5. /\ d # c => job'[d] = job[d] /\ pc'[d] = pc[d]
      /\ job'[c].name = job[c].name
      /\ job'[c].out = job[c].out
      /\ job'[c].todo = todo
      /\ pc'[c] = "create" => size < desired
  BY ListPodsFacts
<1> HIDE DEF live, size, desired
<1>6. CASE d # c
  <2>1. Contribution(d, n)' = Contribution(d, n)
    BY <1>1, <1>5, <1>6 DEF Contribution, Todo
  <2> QED BY <1>5, <1>6, <2>1, ContributionKept, ContributionNat
<1>7. CASE d = c /\ pc'[c] = "create" /\ n = job[c].name
  <2>1. Made(c, n) \subseteq live
    BY <1>7 DEF Made, live
  <2>2. Cardinality(Made(c, n)) <= size
    BY <1>4, <2>1, FS_Subset DEF size
  <2>3. Contribution(c, n)' = Cardinality(Made(c, n)) + (desired - size)
    BY <1>1, <1>5, <1>7 DEF Contribution, Todo
  <2>4. Contribution(c, n)' <= desired
    BY <1>3, <1>4, <2>2, <2>3, MadeFinite
  <2>5. WithinScale(Contribution(c, n)')
    BY <1>3, <2>4 DEF WithinScale
  <2> QED BY <1>5, <1>7, <2>4, <2>5 DEF desired, WithinScale
<1>8. CASE d = c /\ ~(pc'[c] = "create" /\ n = job[c].name)
  <2>1. Todo(c, n)' = 0
    BY <1>5, <1>8 DEF Todo
  <2>2. Contribution(c, n)' <= Contribution(c, n)
    BY <1>1, <1>8, <2>1, ContributionNat, ContributionNatNext, MadeFinite DEF Contribution
  <2>3. WithinScale(Contribution(c, n)')
    BY <2>2, WithinScaleShrinks, ContributionNat, ContributionNatNext
       DEF ContributionBounded, Contribution
  <2> QED BY <1>5, <1>8, <2>3 DEF WithinScale
<1> QED BY <1>6, <1>7, <1>8

\* The pod that a creation adds is one of c's own, for its own set.
LEMMA PodMade ==
    ASSUME IInv, NEW c \in Controllers, NEW p \in FreeNames(c),
           pods' = [pods EXCEPT ![p] = NewPod(c)],
           NEW d \in Controllers, NEW n \in Names
    PROVE  /\ d # c \/ n # job[c].name => Made(d, n)' = Made(d, n)
           /\ Cardinality(Made(d, n)') <= Cardinality(Made(d, n)) + 1
<1>1. p \in Pods /\ pods[p] = None
  BY DEF FreeNames
<1>2. \A q \in Pods : q # p => pods'[q] = pods[q]
  BY DEF IInv, TypeOK
<1>3. pods'[p].by = c /\ pods'[p].owner.name = job[c].name
  BY <1>1 DEF IInv, TypeOK, NewPod
<1>4. p \notin Made(d, n)
  BY <1>1 DEF Made, Managed, Active
<1>5. Made(d, n)' \subseteq Made(d, n) \cup {p}
  BY <1>2 DEF Made, Managed, Active
<1>6. ASSUME d # c \/ n # job[c].name PROVE Made(d, n)' = Made(d, n)
  <2>1. p \notin Made(d, n)'
    BY <1>3, <1>6 DEF Made
  <2>2. Made(d, n) \subseteq Made(d, n)'
    BY <1>2, <1>4 DEF Made, Managed, Active
  <2> QED BY <1>5, <2>1, <2>2
<1>7. Cardinality(Made(d, n)') <= Cardinality(Made(d, n)) + 1
  <2>1. /\ IsFiniteSet(Made(d, n) \cup {p})
        /\ Cardinality(Made(d, n) \cup {p}) = Cardinality(Made(d, n)) + 1
    BY <1>4, MadeFinite, FS_AddElement
  <2> QED BY <1>5, <2>1, FS_Subset
<1> QED BY <1>6, <1>7

\* A creation moves one pod from still-to-create to made.
LEMMA CreatePodContribution ==
    ASSUME IInv, IInv', ContributionBounded, NEW c \in Controllers,
           NEW p \in Pods, CreatePod(c, p)
    PROVE  ContributionBounded'
<1> SUFFICES ASSUME NEW d \in Controllers, NEW n \in Names
             PROVE  /\ WithinScale(Contribution(d, n))'
                    /\ pc'[d] = "create" /\ job'[d].name = n
                         => Contribution(d, n)' <= job'[d].out.replicas
  BY DEF ContributionBounded, Contribution, WithinScale
<1>1. /\ pc[c] = "create" /\ job[c].todo \in Nat
      /\ job'[c].todo = job[c].todo - 1
      /\ job'[c].name = job[c].name /\ job'[c].out = job[c].out
      /\ pc'[c] # "create" => job[c].todo = 1
      /\ d # c => job'[d] = job[d] /\ pc'[d] = pc[d]
  BY DEF CreatePod, IInv, TypeOK, Jobs
<1>2. /\ d # c \/ n # job[c].name => Made(d, n)' = Made(d, n)
      /\ Cardinality(Made(d, n)') <= Cardinality(Made(d, n)) + 1
  BY PodMade DEF CreatePod
<1>3. Contribution(d, n)' <= Contribution(d, n)
  <2>1. CASE d # c \/ n # job[c].name
    <3>1. Todo(d, n)' = Todo(d, n)
      BY <1>1, <2>1 DEF Todo
    <3> QED BY <1>2, <2>1, <3>1, ContributionNat DEF Contribution
  <2>2. CASE d = c /\ n = job[c].name
    <3>1. Todo(c, n) = job[c].todo /\ Todo(c, n)' = job[c].todo - 1
      BY <1>1, <2>2 DEF Todo
    <3> QED BY <1>1, <1>2, <2>2, <3>1, MadeFinite, MadeFiniteNext DEF Contribution
  <2> QED BY <2>1, <2>2
<1> QED BY <1>1, <1>3, ContributionKept

\* A failed creation that left its pod behind gives up the rest.
LEMMA CreateFailsContribution ==
    ASSUME IInv, IInv', ContributionBounded, NEW c \in Controllers, CreateFails(c)
    PROVE  ContributionBounded'
<1>1. CASE UNCHANGED pods
  BY <1>1, ReturnQuiet, QuietKeeps DEF CreateFails
<1>2. CASE \E p \in FreeNames(c) : pods' = [pods EXCEPT ![p] = NewPod(c)]
  <2> SUFFICES ASSUME NEW d \in Controllers, NEW n \in Names
               PROVE  /\ WithinScale(Contribution(d, n))'
                      /\ pc'[d] = "create" /\ job'[d].name = n
                           => Contribution(d, n)' <= job'[d].out.replicas
    BY DEF ContributionBounded, Contribution, WithinScale
  <2>1. /\ pc[c] = "create" /\ job[c].todo \in Nat /\ job[c].todo > 0
        /\ pc'[c] = "loop"
        /\ d # c => job'[d] = job[d] /\ pc'[d] = pc[d]
    BY DEF CreateFails, Return, IInv, TypeOK, LocalsOK, Jobs
  <2>2. /\ d # c \/ n # job[c].name => Made(d, n)' = Made(d, n)
        /\ Cardinality(Made(d, n)') <= Cardinality(Made(d, n)) + 1
    BY <1>2, PodMade
  <2>3. Contribution(d, n)' <= Contribution(d, n)
    <3>1. CASE d # c
      BY <2>1, <2>2, <3>1, ContributionNat DEF Contribution, Todo
    <3>2. CASE d = c /\ n # job[c].name
      BY <2>1, <2>2, <3>2, ContributionNat DEF Contribution, Todo
    <3>3. CASE d = c /\ n = job[c].name
      <4>1. Todo(c, n) = job[c].todo /\ Todo(c, n)' = 0
        BY <2>1, <3>3 DEF Todo
      <4> QED BY <2>1, <2>2, <3>3, <4>1, MadeFinite, MadeFiniteNext DEF Contribution
    <3> QED BY <3>1, <3>2, <3>3
  <2> QED BY <2>1, <2>3, ContributionKept
<1> QED BY <1>1, <1>2 DEF CreateFails

\* Every step keeps the contributions bounded.
LEMMA NextContribution ==
    ASSUME IInv, IInv', ContributionBounded, [Next]_vars
    PROVE  ContributionBounded'
<1>1. ASSUME NEW c \in Controllers, Step(c) PROVE ContributionBounded'
  <2>1. CASE ListPods(c)
    BY <2>1, ListPodsContribution
  <2>2. CASE \E p \in Pods : CreatePod(c, p)
    BY <2>2, CreatePodContribution
  <2>3. CASE Quiet
    BY <2>3, QuietKeeps
  <2>4. ListPods(c) \/ (\E p \in Pods : CreatePod(c, p)) \/ Quiet
    BY <1>1, StepCases
  <2> QED BY <2>1, <2>2, <2>3, <2>4
<1>2. ASSUME NEW c \in Controllers, Fault(c) PROVE ContributionBounded'
  <2>1. CASE CreateFails(c)
    BY <2>1, CreateFailsContribution
  <2>2. CASE Quiet
    BY <2>2, QuietKeeps
  <2>3. CreateFails(c) \/ Quiet
    BY <1>2, FaultCases
  <2> QED BY <2>1, <2>2, <2>3
<1>3. CASE User
  BY <1>3, UserQuiet, QuietKeeps
<1>4. CASE Kubernetes
  BY <1>4, KubernetesQuiet, QuietKeeps
<1>5. CASE UNCHANGED vars
  BY <1>5 DEF vars, ContributionBounded, Made, Todo, Managed, Active, WithinScale
<1> QED BY <1>1, <1>2, <1>3, <1>4, <1>5 DEF Next

\* Nothing is made and nobody creates at the start.
LEMMA InitContribution == Init => ContributionBounded
<1> SUFFICES ASSUME Init, NEW c \in Controllers, NEW n \in Names
             PROVE  /\ WithinScale(Contribution(c, n))
                    /\ pc[c] # "create"
  BY DEF ContributionBounded, Contribution
<1>1. Made(c, n) = {}
  BY DEF Init, Made, Managed, Active
<1>2. pc[c] = "loop"
  BY DEF Init
<1>3. Contribution(c, n) = 0
  BY <1>1, <1>2, FS_EmptySet DEF Contribution, Todo
<1> QED BY <1>2, <1>3 DEF WithinScale

\* However many controllers run at once, whatever they crash on and however
\* stale their lists are, none contributes more active pods to a set than a
\* scale that was asked for.
THEOREM EachWithinScale == Spec => []ContributionBounded
<1>1. Init => IInv /\ ContributionBounded
  BY InitIInv, InitContribution
<1>2. IInv /\ ContributionBounded /\ [Next]_vars => (IInv /\ ContributionBounded)'
  BY NextIInv, NextContribution
<1> QED BY <1>1, <1>2, PTL DEF Spec

-----------------------------------------------------------------------------
(***************************************************************************)
(* ObservedMeansApplied.  It rests on the hash: two specifications that    *)
(* ask for different scales must not hash alike (the run that lets them    *)
(* violates the property).  Inductively: what is cached under a hash has   *)
(* the scale of the specifications with that hash; what a job has compiled *)
(* has the scale of the set it read; no status is ahead of its set; and a  *)
(* status is written only into the very version the job read.              *)
(***************************************************************************)
HashSeparates ==
    \A s, t \in Specs : SpecHash(s) = SpecHash(t) => s.replicas = t.replicas

ScaleAsked(spec, out) == spec.replicas # None => out.replicas = spec.replicas

EntryApplied(entry) ==
    \E spec \in Specs : entry.hash = SpecHash(spec) /\ ScaleAsked(spec, entry.out)

CacheApplied ==
    \A c \in Controllers, n \in Names :
        cache[c][n] # None => EntryApplied(cache[c][n])

JobsApplied ==
    \A c \in Controllers :
        job[c].out # None => ScaleAsked(job[c].set.spec, job[c].out)

SetApplied(set) ==
    /\ set.status.observed <= set.gen
    /\ set.status.observed = set.gen /\ set.spec.replicas # None
         => set.status.replicas = set.spec.replicas

SetsApplied == \A n \in Names : sets[n] # None => SetApplied(sets[n])

AppliedInv == CacheApplied /\ JobsApplied /\ SetsApplied

\* At the start nothing is compiled, cached or reported.
LEMMA InitApplied == Init => AppliedInv
BY DEF Init, AppliedInv, CacheApplied, JobsApplied, SetsApplied, NoJob

\* Both ways of compiling keep the scale that is asked for.
LEMMA CompilingApplies ==
    ASSUME NEW n, NEW spec, NEW answer
    PROVE  /\ ScaleAsked(spec, ExplicitWorkload(n, spec))
           /\ ScaleAsked(spec, SynthesizedWorkload(n, spec, answer))
BY DEF ScaleAsked, ExplicitWorkload, SynthesizedWorkload

\* A hit is a compilation of a specification with the same scale.
LEMMA HitApplies ==
    ASSUME HashSeparates, IInv, CacheApplied, NEW c \in Controllers, CacheHit(c)
    PROVE  ScaleAsked(job[c].set.spec, cache[c][job[c].name].out)
<1>1. job[c].set \in Sets /\ job[c].name \in Names
  BY DEF IInv, TypeOK, LocalsOK, Jobs, CacheHit
<1>2. job[c].set.spec \in Specs
  BY <1>1 DEF Sets
<1>3. /\ cache[c][job[c].name] # None
      /\ cache[c][job[c].name].hash = SpecHash(job[c].set.spec)
  BY DEF CacheHit, Hit
<1>4. PICK spec \in Specs :
        /\ cache[c][job[c].name].hash = SpecHash(spec)
        /\ ScaleAsked(spec, cache[c][job[c].name].out)
  BY <1>1, <1>3 DEF CacheApplied, EntryApplied
<1>5. spec.replicas = job[c].set.spec.replicas
  BY <1>2, <1>3, <1>4 DEF HashSeparates
<1> QED BY <1>4, <1>5 DEF ScaleAsked

\* A job that gets a compilation of its own scale stays right.
LEMMA CompiledApplied ==
    ASSUME IInv, JobsApplied, NEW c \in Controllers, NEW out, Compiled(c, out),
           ScaleAsked(job[c].set.spec, out)
    PROVE  JobsApplied'
<1> SUFFICES ASSUME NEW d \in Controllers, job'[d].out # None
             PROVE  ScaleAsked(job'[d].set.spec, job'[d].out)
  BY DEF JobsApplied, ScaleAsked
<1>1. job[c] \in Jobs
  BY DEF IInv, TypeOK
<1>2. CASE d = c
  <2>1. job'[c].set = job[c].set /\ job'[c].out = out
    BY <1>1 DEF Compiled, IInv, TypeOK, Jobs
  <2> QED BY <1>2, <2>1
<1>3. CASE d # c
  BY <1>3 DEF Compiled, JobsApplied, IInv, TypeOK
<1> QED BY <1>2, <1>3

\* A cache that gets a compilation of the hashed scale stays right.
LEMMA StoreApplied ==
    ASSUME IInv, CacheApplied, NEW c \in Controllers, NEW out, Store(c, out),
           pc[c] = "compile", ScaleAsked(job[c].set.spec, out)
    PROVE  CacheApplied'
<1> DEFINE entry == [hash |-> SpecHash(job[c].set.spec), out |-> out]
<1>1. job[c].set \in Sets /\ job[c].name \in Names
  BY DEF IInv, TypeOK, LocalsOK, Jobs
<1>2. job[c].set.spec \in Specs
  BY <1>1 DEF Sets
<1>3. EntryApplied(entry)
  BY <1>2 DEF EntryApplied
<1>4. ASSUME NEW d \in Controllers, NEW n \in Names
      PROVE  cache'[d][n] = cache[d][n] \/ cache'[d][n] = entry
  BY <1>1 DEF Store, IInv, TypeOK
<1> HIDE DEF entry
<1> QED BY <1>3, <1>4 DEF CacheApplied, EntryApplied

\* A status of the scale that is asked for may be written.
LEMMA WriteStatusApplied ==
    ASSUME IInv, SetsApplied, NEW c \in Controllers, NEW status, pc[c] # "loop",
           WriteStatus(c, status),
           SetApplied(job[c].set) => SetApplied([job[c].set EXCEPT !.status = status])
    PROVE  SetsApplied'
<1>1. /\ job[c].name \in Names /\ job[c].set # None
      /\ sets[job[c].name] = job[c].set
  BY DEF WriteStatus, IInv, TypeOK, LocalsOK, FreshIsCurrent, Jobs
<1>2. SetApplied(job[c].set)
  BY <1>1 DEF SetsApplied
<1>3. sets' = [sets EXCEPT ![job[c].name] = [job[c].set EXCEPT !.status = status]]
  BY <1>1 DEF WriteStatus
<1>4. \A n \in Names : sets'[n] = sets[n] \/ sets'[n] = [job[c].set EXCEPT !.status = status]
  BY <1>3 DEF IInv, TypeOK
<1> QED BY <1>2, <1>4 DEF SetsApplied, SetApplied

\* What a step other than a compilation does to the jobs.
JobsKeep ==
    \A d \in Controllers :
        \/ job'[d].out = None
        \/ /\ job'[d].name = job[d].name
           /\ job'[d].set = job[d].set
           /\ job'[d].out = job[d].out

\* A job that ends holds nothing.
LEMMA ReturnKeeps == ASSUME IInv, NEW c \in Controllers, Return(c) PROVE JobsKeep
BY DEF JobsKeep, Return, NoJob, IInv, TypeOK

\* A status write ends one job and outdates the others.
LEMMA WriteStatusKeeps ==
    ASSUME IInv, NEW c \in Controllers, NEW status, WriteStatus(c, status)
    PROVE  JobsKeep
<1> SUFFICES ASSUME NEW d \in Controllers
             PROVE  \/ job'[d].out = None
                    \/ /\ job'[d].name = job[d].name
                       /\ job'[d].set = job[d].set
                       /\ job'[d].out = job[d].out
  BY DEF JobsKeep
<1>1. d = c => job'[d] = NoJob
  BY DEF WriteStatus, Outdated
<1>2. d # c => job'[d] = Outdated(job[c].name)[d]
  BY DEF WriteStatus, Outdated
<1> QED BY <1>1, <1>2, OutdatedFields DEF NoJob

\* A creation keeps the set and the compilation of the job.
LEMMA CreatePodKeeps ==
    ASSUME IInv, NEW c \in Controllers, NEW p \in Pods, CreatePod(c, p)
    PROVE  JobsKeep
BY DEF JobsKeep, CreatePod, IInv, TypeOK, Jobs

\* Passing a victim keeps them, too.
LEMMA PastVictimKeeps ==
    ASSUME IInv, NEW c \in Controllers, NEW p \in Pods, PastVictim(c, p)
    PROVE  JobsKeep
BY DEF JobsKeep, PastVictim, IInv, TypeOK, Jobs

\* A user's write keeps them in every job.
LEMMA UserKeeps == ASSUME IInv, User PROVE JobsKeep
<1>1. UNCHANGED job \/ \E n \in Names : job' = Outdated(n)
  BY DEF User, CreateSet, EditSpec, DeleteSet
<1> QED BY <1>1, OutdatedFields DEF JobsKeep

\* The ways a job gets a compilation.
Compilation(c) == CacheHit(c) \/ CompileExplicit(c) \/ Synthesize(c)

\* A controller's own step either keeps the jobs or compiles.
LEMMA StepKeeps ==
    ASSUME IInv, NEW c \in Controllers, Step(c)
    PROVE  JobsKeep \/ Compilation(c)
<1>1. CASE Tick(c) \/ \E n \in Names : GetMissing(c, n)
  BY <1>1 DEF JobsKeep, Tick, GetMissing
<1>2. CASE \E n \in Names : Get(c, n)
  BY <1>2 DEF JobsKeep, Get, NoJob, IInv, TypeOK
<1>3. CASE ListPods(c)
  BY <1>3, ListPodsFacts DEF JobsKeep
<1>4. CASE \E p \in Pods : CreatePod(c, p) \/ DeletePod(c, p)
  BY <1>4, CreatePodKeeps, PastVictimKeeps DEF DeletePod
<1>5. CASE Panic(c) \/ ReportConflict(c)
  BY <1>5, ReturnKeeps DEF Panic, Restart, ReportConflict
<1>6. CASE ReportFailure(c) \/ Report(c)
  BY <1>6, WriteStatusKeeps DEF ReportFailure, Report
<1> QED BY <1>1, <1>2, <1>3, <1>4, <1>5, <1>6 DEF Step, Call, Compilation

\* No fault compiles.
LEMMA FaultKeeps ==
    ASSUME IInv, NEW c \in Controllers, Fault(c)
    PROVE  JobsKeep
<1>1. CASE (\E n \in Names : GetFails(c, n)) \/ SynthesizeFails(c)
  BY <1>1 DEF JobsKeep, GetFails, SynthesizeFails
<1>2. CASE ListPodsFails(c) \/ CreateFails(c) \/ ReportFails(c) \/ Crash(c)
  BY <1>2, ReturnKeeps DEF ListPodsFails, CreateFails, ReportFails, Crash, Restart
<1>3. CASE \E p \in Pods : DeleteFails(c, p)
  BY <1>3, PastVictimKeeps DEF DeleteFails
<1> QED BY <1>1, <1>2, <1>3 DEF Fault, CallFails

\* Every step keeps the jobs, or one of them gets its compilation.
LEMMA JobCases ==
    ASSUME IInv, [Next]_vars
    PROVE  JobsKeep \/ \E c \in Controllers : Compilation(c)
<1>1. CASE User
  BY <1>1, UserKeeps
<1>2. CASE Kubernetes
  <2>1. UNCHANGED job
    BY <1>2 DEF Kubernetes, Removal, Collection, KubeletReport, Disruption, ControllerUnchanged
  <2> QED BY <2>1 DEF JobsKeep
<1>3. CASE UNCHANGED vars
  BY <1>3 DEF vars, JobsKeep
<1> QED BY <1>1, <1>2, <1>3, StepKeeps, FaultKeeps DEF Next

\* A cache is left alone or emptied, or gets the compilation of a job.
LEMMA CacheCases ==
    ASSUME [Next]_vars
    PROVE  \/ UNCHANGED cache
           \/ \E c \in Controllers :
                Restart(c) \/ CompileExplicit(c) \/ Synthesize(c)
<1>1. ASSUME NEW c \in Controllers, Step(c)
      PROVE  UNCHANGED cache \/ Restart(c) \/ CompileExplicit(c) \/ Synthesize(c)
  BY <1>1 DEF Step, Call, Tick, Get, GetMissing, CacheHit, ListPods, CreatePod, DeletePod,
     Panic, ReportFailure, Report, ReportConflict, WriteStatus
<1>2. ASSUME NEW c \in Controllers, Fault(c)
      PROVE  UNCHANGED cache \/ Restart(c)
  BY <1>2 DEF Fault, CallFails, GetFails, SynthesizeFails, ListPodsFails, CreateFails, DeleteFails,
     ReportFails, Crash
<1>3. ASSUME User \/ Kubernetes PROVE UNCHANGED cache
  BY <1>3 DEF User, CreateSet, EditSpec, DeleteSet, Kubernetes, Removal, Collection,
     KubeletReport, Disruption, ControllerUnchanged
<1> QED BY <1>1, <1>2, <1>3 DEF Next, vars

\* Every step keeps the compilations in the jobs right.
LEMMA JobsAppliedNext ==
    ASSUME HashSeparates, IInv, AppliedInv, [Next]_vars
    PROVE  JobsApplied'
<1> USE DEF AppliedInv
<1>1. CASE JobsKeep
  BY <1>1 DEF JobsKeep, JobsApplied, ScaleAsked
<1>2. ASSUME NEW c \in Controllers, Compilation(c) PROVE JobsApplied'
  <2>1. CASE CacheHit(c)
    BY <2>1, HitApplies, CompiledApplied DEF CacheHit
  <2>2. CASE CompileExplicit(c)
    BY <2>2, CompilingApplies, CompiledApplied DEF CompileExplicit
  <2>3. CASE Synthesize(c)
    BY <2>3, CompilingApplies, CompiledApplied DEF Synthesize
  <2> QED BY <1>2, <2>1, <2>2, <2>3 DEF Compilation
<1> QED BY <1>1, <1>2, JobCases

\* Every step keeps the cached compilations right.
LEMMA CacheAppliedNext ==
    ASSUME HashSeparates, IInv, AppliedInv, [Next]_vars
    PROVE  CacheApplied'
<1> USE DEF AppliedInv
<1>1. CASE UNCHANGED cache
  BY <1>1 DEF CacheApplied, EntryApplied
<1>2. ASSUME NEW c \in Controllers, Restart(c) PROVE CacheApplied'
  <2>1. \A d \in Controllers, n \in Names : cache'[d][n] = None \/ cache'[d][n] = cache[d][n]
    BY <1>2 DEF Restart, IInv, TypeOK
  <2> QED BY <2>1 DEF CacheApplied, EntryApplied
<1>3. ASSUME NEW c \in Controllers, CompileExplicit(c) PROVE CacheApplied'
  BY <1>3, CompilingApplies, StoreApplied DEF CompileExplicit
<1>4. ASSUME NEW c \in Controllers, Synthesize(c) PROVE CacheApplied'
  BY <1>4, CompilingApplies, StoreApplied DEF Synthesize, NeedsModel
<1> QED BY <1>1, <1>2, <1>3, <1>4, CacheCases

\* Only users and the two status writes touch the sets.
LEMMA SetCases ==
    ASSUME [Next]_vars
    PROVE  \/ UNCHANGED sets
           \/ User
           \/ \E c \in Controllers : Report(c) \/ ReportFailure(c)
<1>1. ASSUME NEW c \in Controllers, Step(c)
      PROVE  UNCHANGED sets \/ Report(c) \/ ReportFailure(c)
  BY <1>1 DEF Step, Call, Tick, Get, GetMissing, CacheHit, CompileExplicit, Synthesize,
     ListPods, CreatePod, DeletePod, Panic, Restart, ReportConflict
<1>2. ASSUME NEW c \in Controllers, Fault(c) PROVE UNCHANGED sets
  BY <1>2 DEF Fault, CallFails, GetFails, SynthesizeFails, ListPodsFails, CreateFails, DeleteFails,
     ReportFails, Crash, Restart
<1>3. ASSUME Kubernetes PROVE UNCHANGED sets
  BY <1>3 DEF Kubernetes, Removal, Collection, KubeletReport, Disruption, ControllerUnchanged
<1> QED BY <1>1, <1>2, <1>3 DEF Next, vars

\* The two status writes report the scale of the generation they observed.
LEMMA ReportApplied ==
    ASSUME IInv, AppliedInv, NEW c \in Controllers, Report(c) \/ ReportFailure(c)
    PROVE  SetsApplied'
<1>1. job[c].set \in Sets
  BY DEF Report, ReportFailure, IInv, TypeOK, LocalsOK, Jobs
<1>2. job[c].set.gen \in Nat /\ job[c].set.status \in Statuses
  BY <1>1 DEF Sets
<1>3. CASE ReportFailure(c)
  <2> DEFINE status == [job[c].set.status EXCEPT
                          !.ai = "Failed",
                          !.conds = Append(@, Condition("AICompiled", FALSE))]
             new == [job[c].set EXCEPT !.status = status]
  <2>1. /\ new.gen = job[c].set.gen /\ new.spec = job[c].set.spec
        /\ new.status.observed = job[c].set.status.observed
        /\ new.status.replicas = job[c].set.status.replicas
    BY <1>1, <1>2 DEF Sets, Statuses
  <2>2. SetApplied(job[c].set) => SetApplied(new)
    BY <2>1 DEF SetApplied
  <2>3. WriteStatus(c, status) /\ pc[c] # "loop"
    BY <1>3 DEF ReportFailure
  <2> HIDE DEF status
  <2> QED BY <2>2, <2>3, WriteStatusApplied DEF AppliedInv
<1>4. CASE Report(c)
  <2> DEFINE status ==
             [replicas |-> job[c].out.replicas,
              ready    |-> job[c].ready,
              observed |-> job[c].set.gen,
              ai       |-> "Completed",
              conds    |-> <<Condition("Available", job[c].ready = job[c].out.replicas
                                                      /\ job[c].out.replicas > 0),
                             Condition("AICompiled", TRUE)>>]
             new == [job[c].set EXCEPT !.status = status]
  <2>1. /\ new.gen = job[c].set.gen /\ new.spec = job[c].set.spec
        /\ new.status.observed = job[c].set.gen
        /\ new.status.replicas = job[c].out.replicas
    BY <1>1 DEF Sets
  <2>2. ScaleAsked(job[c].set.spec, job[c].out)
    BY <1>4 DEF Report, IInv, TypeOK, LocalsOK, AppliedInv, JobsApplied
  <2>3. SetApplied(new)
    BY <1>2, <2>1, <2>2 DEF SetApplied, ScaleAsked
  <2>4. WriteStatus(c, status) /\ pc[c] # "loop"
    BY <1>4 DEF Report
  <2> HIDE DEF status
  <2> QED BY <2>3, <2>4, WriteStatusApplied DEF AppliedInv
<1> QED BY <1>3, <1>4

\* Every step keeps the statuses right.
LEMMA SetsAppliedNext ==
    ASSUME IInv, AppliedInv, [Next]_vars
    PROVE  SetsApplied'
<1>1. ASSUME UNCHANGED sets PROVE SetsApplied'
  BY <1>1 DEF AppliedInv, SetsApplied, SetApplied
<1>2. ASSUME NEW n \in Names, NEW set,
             sets' = [sets EXCEPT ![n] = set], set = None \/ SetApplied(set)
      PROVE  SetsApplied'
  BY <1>2 DEF AppliedInv, SetsApplied, SetApplied, IInv, TypeOK
<1>3. ASSUME NEW n \in Names, NEW spec \in Specs, CreateSet(n, spec) PROVE SetsApplied'
  <2> DEFINE set == [uid |-> spent["edit"] + 1, gen |-> 1, spec |-> spec,
                     status |-> NoStatus]
  <2>1. SetApplied(set)
    BY DEF SetApplied, NoStatus
  <2>2. sets' = [sets EXCEPT ![n] = set]
    BY <1>3 DEF CreateSet
  <2> HIDE DEF set
  <2> QED BY <1>2, <2>1, <2>2
<1>4. ASSUME NEW n \in Names, NEW spec \in Specs, EditSpec(n, spec) PROVE SetsApplied'
  <2> DEFINE set == [sets[n] EXCEPT !.spec = spec, !.gen = @ + 1]
  <2>1. sets[n] \in Sets /\ SetApplied(sets[n])
    BY <1>4 DEF EditSpec, IInv, TypeOK, AppliedInv, SetsApplied
  <2>2. set.gen = sets[n].gen + 1 /\ set.status = sets[n].status
    BY <2>1 DEF Sets
  <2>3. sets[n].gen \in Nat /\ sets[n].status.observed \in Nat
    BY <2>1 DEF Sets, Statuses
  <2>4. SetApplied(set)
    BY <2>1, <2>2, <2>3 DEF SetApplied
  <2>5. sets' = [sets EXCEPT ![n] = set]
    BY <1>4, <2>1 DEF EditSpec, Sets, IInv, TypeOK
  <2> HIDE DEF set
  <2> QED BY <1>2, <2>4, <2>5
<1>5. ASSUME NEW n \in Names, DeleteSet(n) PROVE SetsApplied'
  BY <1>2, <1>5 DEF DeleteSet
<1>6. CASE User
  BY <1>3, <1>4, <1>5, <1>6 DEF User
<1> QED BY <1>1, <1>6, SetCases, ReportApplied

\* A status that claims the current generation reports the explicit scale of
\* that generation, as long as the hash tells the scales apart: neither a
\* cached compilation of an older specification nor a reconcile that read an
\* older set can put another scale there.
THEOREM ObservedIsApplied ==
    ASSUME HashSeparates
    PROVE  Spec => []ObservedMeansApplied
<1>1. Init => IInv /\ AppliedInv
  BY InitIInv, InitApplied
<1>2. IInv /\ AppliedInv /\ [Next]_vars => (IInv /\ AppliedInv)'
  BY NextIInv, JobsAppliedNext, CacheAppliedNext, SetsAppliedNext DEF AppliedInv
<1>3. AppliedInv => ObservedMeansApplied
  BY DEF AppliedInv, SetsApplied, SetApplied, ObservedMeansApplied
<1> QED BY <1>1, <1>2, <1>3, PTL DEF Spec

-----------------------------------------------------------------------------
(***************************************************************************)
(* NegativeNeverReported.  A List leads to the status write only when the  *)
(* number of pods is the scale, a creation only when it is less; the loop  *)
(* over the victims leads there only for a scale that is not negative.  A  *)
(* failed compilation writes back the scale that it read.                  *)
(***************************************************************************)
ReportedScales ==
    \A c \in Controllers :
        pc[c] \in {"create", "report"} => job[c].out.replicas >= 0

NegativeInv == ReportedScales /\ NegativeNeverReported

\* A set starts with a scale of zero, and there is none at first.
LEMMA InitNegative == Init => NegativeInv
BY DEF Init, NegativeInv, ReportedScales, NegativeNeverReported

\* A job that goes on with its compilation, or is not at these steps.
ScalesKept ==
    \A d \in Controllers :
        pc'[d] \in {"create", "report"} => /\ pc[d] \in {"create", "report"}
                                           /\ job'[d].out = job[d].out

\* A reconcile that ends is at none of these steps.
LEMMA ReturnScales ==
    ASSUME IInv, NEW c \in Controllers, Return(c)
    PROVE  ScalesKept
BY DEF ScalesKept, Return, IInv, TypeOK

\* A status write ends the reconcile, and outdates the others.
LEMMA WriteStatusScales ==
    ASSUME IInv, NEW c \in Controllers, NEW status, WriteStatus(c, status)
    PROVE  ScalesKept
<1>1. pc'[c] = "loop" /\ \A d \in Controllers : d # c => pc'[d] = pc[d]
  BY DEF WriteStatus, IInv, TypeOK
<1>2. \A d \in Controllers : d # c => job'[d].out = job[d].out
  BY OutdatedFields DEF WriteStatus
<1> QED BY <1>1, <1>2 DEF ScalesKept

\* A compilation leads to the List.
LEMMA CompilationScales ==
    ASSUME IInv, NEW c \in Controllers, Compilation(c)
    PROVE  ScalesKept
<1>1. PICK out : Compiled(c, out)
  BY DEF Compilation, CacheHit, CompileExplicit, Synthesize
<1> QED BY <1>1 DEF ScalesKept, Compiled, IInv, TypeOK

\* A creation keeps the compilation.
LEMMA CreatePodScales ==
    ASSUME IInv, NEW c \in Controllers, NEW p \in Pods, CreatePod(c, p)
    PROVE  ScalesKept
BY DEF ScalesKept, CreatePod, IInv, TypeOK, Jobs

\* Of a controller's own steps only the List and the end of the deletions
\* bring a job to these steps.
LEMMA StepScales ==
    ASSUME IInv, NEW c \in Controllers, Step(c)
    PROVE  ScalesKept \/ ListPods(c) \/ \E p \in Pods : DeletePod(c, p)
<1>1. CASE Tick(c) \/ \E n \in Names : GetMissing(c, n)
  BY <1>1 DEF ScalesKept, Tick, GetMissing
<1>2. CASE \E n \in Names : Get(c, n)
  BY <1>2 DEF ScalesKept, Get, IInv, TypeOK
<1>3. CASE Panic(c) \/ ReportConflict(c)
  BY <1>3, ReturnScales DEF Panic, Restart, ReportConflict
<1>4. CASE ReportFailure(c) \/ Report(c)
  BY <1>4, WriteStatusScales DEF ReportFailure, Report
<1> QED BY <1>1, <1>2, <1>3, <1>4, CompilationScales, CreatePodScales
        DEF Step, Call, Compilation

\* Of the faults only a failed deletion may end the deletions.
LEMMA FaultScales ==
    ASSUME IInv, NEW c \in Controllers, Fault(c)
    PROVE  ScalesKept \/ \E p \in Pods : DeleteFails(c, p)
<1>1. CASE \E n \in Names : GetFails(c, n)
  BY <1>1 DEF ScalesKept, GetFails
<1>2. CASE SynthesizeFails(c)
  BY <1>2 DEF ScalesKept, SynthesizeFails, IInv, TypeOK
<1> QED BY <1>1, <1>2, ReturnScales
        DEF Fault, CallFails, ListPodsFails, CreateFails, ReportFails, Crash, Restart

\* The deletions end with a status only for a scale that is not negative.
LEMMA PastVictimScale ==
    ASSUME IInv, ReportedScales, NEW c \in Controllers, NEW p \in Pods,
           pc[c] = "delete", PastVictim(c, p)
    PROVE  ReportedScales'
<1>1. job'[c].out = job[c].out
  BY DEF PastVictim, IInv, TypeOK, Jobs
<1>2. pc'[c] \in {"create", "report"} => job[c].out.replicas >= 0
  BY DEF PastVictim, IInv, TypeOK
<1>3. \A d \in Controllers : d # c => pc'[d] = pc[d] /\ job'[d] = job[d]
  BY DEF PastVictim, IInv, TypeOK
<1> QED BY <1>1, <1>2, <1>3 DEF ReportedScales

\* A List creates up to a scale, or finds it: neither can be negative.
LEMMA ListPodsScale ==
    ASSUME IInv, ReportedScales, NEW c \in Controllers, ListPods(c)
    PROVE  ReportedScales'
<1> DEFINE live == Managed(job[c].name)
           size == Cardinality(live)
           desired == job[c].out.replicas
<1>1. /\ size \in Nat /\ desired \in Int
      /\ job'[c].out = job[c].out
      /\ \A d \in Controllers : d # c => job'[d] = job[d] /\ pc'[d] = pc[d]
  BY ListPodsFacts
<1>2. pc' = [pc EXCEPT ![c] = CASE size < desired -> "create"
                                [] size = desired -> "report"
                                [] size > desired -> "delete"]
  BY DEF ListPods
<1>3. pc \in [Controllers -> {"loop", "compile", "fail", "list", "create", "delete", "report"}]
  BY DEF IInv, TypeOK
<1> HIDE DEF size, desired
<1>4. pc'[c] \in {"create", "report"} => desired >= 0
  BY <1>1, <1>2, <1>3
<1> QED BY <1>1, <1>4 DEF ReportedScales, desired

\* Every step keeps the scales that are on their way to a status.
LEMMA NextReportedScales ==
    ASSUME IInv, ReportedScales, [Next]_vars
    PROVE  ReportedScales'
<1>1. CASE ScalesKept
  BY <1>1 DEF ScalesKept, ReportedScales
<1>2. ASSUME NEW c \in Controllers, Step(c) PROVE ReportedScales'
  BY <1>1, <1>2, StepScales, ListPodsScale, PastVictimScale DEF DeletePod, IsNextVictim
<1>3. ASSUME NEW c \in Controllers, Fault(c) PROVE ReportedScales'
  BY <1>1, <1>3, FaultScales, PastVictimScale DEF DeleteFails, IsNextVictim
<1>4. CASE User
  <2>1. UNCHANGED pc /\ (UNCHANGED job \/ \E n \in Names : job' = Outdated(n))
    BY <1>4 DEF User, CreateSet, EditSpec, DeleteSet
  <2> QED BY <1>1, <2>1, OutdatedFields DEF ScalesKept
<1>5. CASE Kubernetes
  BY <1>1, <1>5 DEF ScalesKept, Kubernetes, Removal, Collection, KubeletReport,
     Disruption, ControllerUnchanged
<1>6. CASE UNCHANGED vars
  BY <1>1, <1>6 DEF ScalesKept, vars
<1> QED BY <1>2, <1>3, <1>4, <1>5, <1>6 DEF Next

\* Every step keeps the statuses that negative scales never reach.
LEMMA NextNegative ==
    ASSUME IInv, NegativeInv, [Next]_vars
    PROVE  NegativeNeverReported'
<1> USE DEF NegativeInv
<1>1. CASE UNCHANGED sets
  BY <1>1 DEF NegativeNeverReported
<1>2. ASSUME NEW n \in Names, NEW set,
             sets' = [sets EXCEPT ![n] = set], set = None \/ set.status.replicas >= 0
      PROVE  NegativeNeverReported'
  BY <1>2 DEF NegativeNeverReported, IInv, TypeOK
<1>3. CASE User
  <2>1. ASSUME NEW n \in Names, NEW spec \in Specs, CreateSet(n, spec)
        PROVE  NegativeNeverReported'
    <3> DEFINE set == [uid |-> spent["edit"] + 1, gen |-> 1, spec |-> spec,
                       status |-> NoStatus]
    <3>1. set.status.replicas >= 0
      BY DEF NoStatus
    <3>2. sets' = [sets EXCEPT ![n] = set]
      BY <2>1 DEF CreateSet
    <3> HIDE DEF set
    <3> QED BY <1>2, <3>1, <3>2
  <2>2. ASSUME NEW n \in Names, NEW spec \in Specs, EditSpec(n, spec)
        PROVE  NegativeNeverReported'
    <3> DEFINE set == [sets[n] EXCEPT !.spec = spec, !.gen = @ + 1]
    <3>1. sets[n] \in Sets /\ sets[n].status.replicas >= 0
      BY <2>2 DEF EditSpec, IInv, TypeOK, NegativeNeverReported
    <3>2. set.status.replicas >= 0
      BY <3>1 DEF Sets
    <3>3. sets' = [sets EXCEPT ![n] = set]
      BY <2>2, <3>1 DEF EditSpec, Sets, IInv, TypeOK
    <3> HIDE DEF set
    <3> QED BY <1>2, <3>2, <3>3
  <2>3. ASSUME NEW n \in Names, DeleteSet(n) PROVE NegativeNeverReported'
    BY <1>2, <2>3 DEF DeleteSet
  <2> QED BY <1>3, <2>1, <2>2, <2>3 DEF User
<1>4. ASSUME NEW c \in Controllers, NEW status, pc[c] # "loop",
             WriteStatus(c, status), status.replicas >= 0
      PROVE  NegativeNeverReported'
  <2>1. /\ job[c].name \in Names /\ job[c].set \in Sets
        /\ sets[job[c].name] = job[c].set
    BY <1>4 DEF WriteStatus, IInv, TypeOK, LocalsOK, FreshIsCurrent, Jobs
  <2>2. [job[c].set EXCEPT !.status = status].status.replicas >= 0
    BY <1>4, <2>1 DEF Sets
  <2>3. sets' = [sets EXCEPT ![job[c].name] = [job[c].set EXCEPT !.status = status]]
    BY <1>4, <2>1 DEF WriteStatus
  <2> QED BY <1>2, <2>1, <2>2, <2>3
<1>5. ASSUME NEW c \in Controllers, Report(c) PROVE NegativeNeverReported'
  BY <1>4, <1>5 DEF Report, ReportedScales
<1>6. ASSUME NEW c \in Controllers, ReportFailure(c) PROVE NegativeNeverReported'
  <2> DEFINE status == [job[c].set.status EXCEPT
                          !.ai = "Failed",
                          !.conds = Append(@, Condition("AICompiled", FALSE))]
  <2>1. /\ job[c].name \in Names /\ job[c].set \in Sets
        /\ sets[job[c].name] = job[c].set
    BY <1>6 DEF ReportFailure, WriteStatus, IInv, TypeOK, LocalsOK, FreshIsCurrent, Jobs
  <2>2. job[c].set # None
    BY <1>6 DEF ReportFailure, IInv, TypeOK, LocalsOK
  <2>3. job[c].set.status.replicas >= 0
    BY <2>1, <2>2 DEF NegativeNeverReported
  <2>4. status.replicas = job[c].set.status.replicas
    BY <2>1 DEF Sets, Statuses
  <2>5. WriteStatus(c, status) /\ pc[c] # "loop"
    BY <1>6 DEF ReportFailure
  <2> HIDE DEF status
  <2> QED BY <1>4, <2>3, <2>4, <2>5
<1> QED BY <1>1, <1>3, <1>5, <1>6, SetCases

\* No status ever reports a negative scale: the controller that would write
\* it has died of the deletions, whatever the others do.
THEOREM NegativeIsNeverReported == Spec => []NegativeNeverReported
<1>1. Init => IInv /\ NegativeInv
  BY InitIInv, InitNegative
<1>2. IInv /\ NegativeInv /\ [Next]_vars => (IInv /\ NegativeInv)'
  BY NextIInv, NextReportedScales, NextNegative DEF NegativeInv
<1> QED BY <1>1, <1>2, PTL DEF Spec, NegativeInv

-----------------------------------------------------------------------------
(***************************************************************************)
(* What most steps leave alone: the sets and their versions, the version a *)
(* job read, and the victims it has left.                                  *)
(***************************************************************************)
\* The jobs that go on are about the version they read.
JobsStay ==
    \A d \in Controllers :
        pc'[d] # "loop" => /\ pc[d] # "loop"
                           /\ job'[d].name = job[d].name
                           /\ job'[d].set = job[d].set

\* The sets that are there have been there, in the same version.
SetsStay ==
    \A n \in Names :
        sets'[n] # None => /\ sets[n] # None
                           /\ sets'[n].uid = sets[n].uid
                           /\ sets'[n].gen = sets[n].gen
                           /\ sets'[n].spec = sets[n].spec

\* No version is made or learnt; what a restart forgets, it forgets whole.
VersionsStay ==
    /\ JobsStay
    /\ SetsStay
    /\ spent'["edit"] = spent["edit"]
    /\ \A c \in Controllers :
         asked'[c] = {} \/ (cache'[c] = cache[c] /\ asked'[c] = asked[c])

\* Leaving the sets alone keeps their versions.
LEMMA SameSetsStay == ASSUME UNCHANGED sets PROVE SetsStay
BY DEF SetsStay

\* A reconcile that ends holds no version.
LEMMA ReturnStays ==
    ASSUME IInv, NEW c \in Controllers, Return(c)
    PROVE  JobsStay
BY DEF JobsStay, Return, IInv, TypeOK

\* A status is no new version.
LEMMA WriteStatusStays ==
    ASSUME IInv, NEW c \in Controllers, NEW status, pc[c] # "loop", WriteStatus(c, status)
    PROVE  JobsStay /\ SetsStay
<1>1. pc'[c] = "loop" /\ \A d \in Controllers : d # c => pc'[d] = pc[d]
  BY DEF WriteStatus, IInv, TypeOK
<1>2. \A d \in Controllers :
        d # c => job'[d].name = job[d].name /\ job'[d].set = job[d].set
  BY OutdatedFields DEF WriteStatus
<1>3. /\ job[c].name \in Names /\ job[c].set \in Sets /\ job[c].set # None
      /\ sets[job[c].name] = job[c].set
  BY DEF WriteStatus, IInv, TypeOK, LocalsOK, FreshIsCurrent, Jobs
<1> DEFINE new == [job[c].set EXCEPT !.status = status]
<1>4. /\ new.uid = job[c].set.uid
      /\ new.gen = job[c].set.gen
      /\ new.spec = job[c].set.spec
  BY <1>3 DEF Sets
<1>5. sets' = [sets EXCEPT ![job[c].name] = new]
  BY <1>3 DEF WriteStatus
<1> HIDE DEF new
<1>6. SetsStay
  BY <1>3, <1>4, <1>5 DEF SetsStay, IInv, TypeOK
<1> QED BY <1>1, <1>2, <1>6 DEF JobsStay

\* A compilation is of the version that was read.
LEMMA CompiledStays ==
    ASSUME IInv, NEW c \in Controllers, NEW out, pc[c] = "compile", Compiled(c, out)
    PROVE  JobsStay
BY DEF JobsStay, Compiled, IInv, TypeOK, Jobs

\* So is what comes of a List.
LEMMA ListPodsStays ==
    ASSUME IInv, NEW c \in Controllers, ListPods(c)
    PROVE  JobsStay
<1>1. \A d \in Controllers : /\ job'[d].name = job[d].name
                             /\ job'[d].set = job[d].set
                             /\ d # c => pc'[d] = pc[d]
  BY ListPodsFacts
<1>2. pc[c] = "list"
  BY DEF ListPods
<1> QED BY <1>1, <1>2 DEF JobsStay

\* Passing a victim changes no version.
LEMMA PastVictimStays ==
    ASSUME IInv, NEW c \in Controllers, NEW p \in Pods, pc[c] = "delete", PastVictim(c, p)
    PROVE  JobsStay
BY DEF JobsStay, PastVictim, IInv, TypeOK, Jobs

\* Spending another budget leaves the edits alone.
LEMMA SpendOther ==
    ASSUME IInv, NEW k, k # "edit", Spend(k)
    PROVE  spent'["edit"] = spent["edit"]
BY DEF Spend, IInv, TypeOK

\* The cluster makes no version.
LEMMA KubernetesVersions == ASSUME IInv, Kubernetes PROVE VersionsStay
<1>1. UNCHANGED <<sets, pc, job, cache, asked>>
  BY DEF Kubernetes, Removal, Collection, KubeletReport, Disruption, ControllerUnchanged
<1>2. spent'["edit"] = spent["edit"]
  BY SpendOther DEF Kubernetes, Removal, Collection, KubeletReport, Disruption
<1> QED BY <1>1, <1>2 DEF VersionsStay, JobsStay, SetsStay

\* The versions' fields are numbers.
LEMMA VersionTypes ==
    ASSUME IInv
    PROVE  /\ \A n \in Names : sets[n] # None
                => sets[n].uid \in Nat /\ sets[n].gen \in Nat
           /\ \A c \in Controllers : \A r \in asked[c] :
                r.name \in Names /\ r.uid \in Nat /\ r.gen \in Nat
           /\ \A c \in Controllers : pc[c] # "loop"
                => /\ job[c].name \in Names /\ job[c].set \in Sets
                   /\ job[c].set.uid \in Nat /\ job[c].set.gen \in Nat
           /\ spent["edit"] \in Nat
<1>1. \A c \in Controllers : pc[c] # "loop" => job[c].name \in Names /\ job[c].set \in Sets
  BY DEF IInv, TypeOK, LocalsOK, Jobs
<1> QED BY <1>1 DEF IInv, TypeOK, Sets, Kinds

\* The jobs that are deleting have the victims they had.
VictimsStay ==
    \A d \in Controllers :
        pc'[d] = "delete" => /\ pc[d] = "delete"
                             /\ job'[d].name = job[d].name
                             /\ job'[d].victims = job[d].victims

\* Of a controller's own steps only a List and a deletion change victims.
LEMMA StepVictims ==
    ASSUME IInv, NEW c \in Controllers, Step(c)
    PROVE  VictimsStay \/ ListPods(c) \/ \E p \in Pods : DeletePod(c, p)
<1>1. CASE Tick(c) \/ \E n \in Names : GetMissing(c, n)
  BY <1>1 DEF VictimsStay, Tick, GetMissing
<1>2. CASE \E n \in Names : Get(c, n)
  BY <1>2 DEF VictimsStay, Get, IInv, TypeOK
<1>3. CASE CacheHit(c) \/ CompileExplicit(c) \/ Synthesize(c)
  <2>1. PICK out : Compiled(c, out)
    BY <1>3 DEF CacheHit, CompileExplicit, Synthesize
  <2> QED BY <2>1 DEF VictimsStay, Compiled, IInv, TypeOK
<1>4. CASE \E p \in Pods : CreatePod(c, p)
  BY <1>4 DEF VictimsStay, CreatePod, IInv, TypeOK, Jobs
<1>5. CASE Panic(c) \/ ReportConflict(c)
  BY <1>5 DEF VictimsStay, Panic, Restart, ReportConflict, Return, IInv, TypeOK
<1>6. CASE ReportFailure(c) \/ Report(c)
  <2>1. PICK status : WriteStatus(c, status)
    BY <1>6 DEF ReportFailure, Report
  <2>2. pc'[c] = "loop" /\ \A d \in Controllers : d # c => pc'[d] = pc[d]
    BY <2>1 DEF WriteStatus, IInv, TypeOK
  <2>3. \A d \in Controllers :
          d # c => job'[d].name = job[d].name /\ job'[d].victims = job[d].victims
    BY <2>1, OutdatedFields DEF WriteStatus
  <2> QED BY <2>2, <2>3 DEF VictimsStay
<1> QED BY <1>1, <1>2, <1>3, <1>4, <1>5, <1>6 DEF Step, Call

\* Of the faults only a failed deletion does.
LEMMA FaultVictims ==
    ASSUME IInv, NEW c \in Controllers, Fault(c)
    PROVE  VictimsStay \/ \E p \in Pods : DeleteFails(c, p)
<1>1. CASE \E n \in Names : GetFails(c, n)
  BY <1>1 DEF VictimsStay, GetFails
<1>2. CASE SynthesizeFails(c)
  BY <1>2 DEF VictimsStay, SynthesizeFails, IInv, TypeOK
<1>3. CASE ListPodsFails(c) \/ CreateFails(c) \/ ReportFails(c) \/ Crash(c)
  BY <1>3 DEF VictimsStay, ListPodsFails, CreateFails, ReportFails, Crash, Restart, Return,
     IInv, TypeOK
<1> QED BY <1>1, <1>2, <1>3 DEF Fault, CallFails

\* Neither users nor the cluster touch them.
LEMMA OthersVictims ==
    ASSUME IInv, User \/ Kubernetes \/ UNCHANGED vars
    PROVE  VictimsStay
<1>1. CASE User
  <2>1. UNCHANGED pc /\ (UNCHANGED job \/ \E n \in Names : job' = Outdated(n))
    BY <1>1 DEF User, CreateSet, EditSpec, DeleteSet
  <2> QED BY <2>1, OutdatedFields DEF VictimsStay
<1>2. CASE Kubernetes
  BY <1>2 DEF VictimsStay, Kubernetes, Removal, Collection, KubeletReport, Disruption,
     ControllerUnchanged
<1>3. CASE UNCHANGED vars
  BY <1>3 DEF VictimsStay, vars
<1> QED BY <1>1, <1>2, <1>3

-----------------------------------------------------------------------------
(***************************************************************************)
(* OwnWorkload.  What is compiled for a set, in the cache or in a job, is  *)
(* one of the workloads of that set, and so is what the pods made from it  *)
(* run.                                                                    *)
(***************************************************************************)
\* The cache, the jobs and the pods.
CacheOwn ==
    \A c \in Controllers, n \in Names :
        cache[c][n] # None => cache[c][n].out \in CompiledFor(n)

JobsOwn ==
    \A c \in Controllers :
        job[c].out # None => job[c].out \in CompiledFor(job[c].name)

\* A pod is named after its set, too.
PodsOwn ==
    \A p \in Pods :
        Active(p) => /\ \E out \in CompiledFor(pods[p].owner.name) : pods[p].pod = out.pod
                     /\ PrefixOf[p] = pods[p].owner.name

OwnInv == CacheOwn /\ JobsOwn /\ PodsOwn

\* Nothing is compiled at the start.
LEMMA InitOwn == Init => OwnInv
BY DEF Init, OwnInv, CacheOwn, JobsOwn, PodsOwn, NoJob, Active

\* Both ways of compiling give a workload of the job's set.
LEMMA CompilingOwn ==
    ASSUME IInv, NEW c \in Controllers, pc[c] = "compile"
    PROVE  /\ job[c].name \in Names
           /\ IsExplicit(job[c].set.spec) =>
                ExplicitWorkload(job[c].name, job[c].set.spec)
                  \in CompiledFor(job[c].name)
           /\ ~IsExplicit(job[c].set.spec) => \A answer \in Answers :
                SynthesizedWorkload(job[c].name, job[c].set.spec, answer)
                  \in CompiledFor(job[c].name)
<1>1. job[c].name \in Names /\ job[c].set.spec \in Specs
  BY VersionTypes DEF Sets
<1> QED BY <1>1 DEF CompiledFor

\* So what a job gets is its own ...
LEMMA CompilationOwn ==
    ASSUME IInv, OwnInv, NEW c \in Controllers, Compilation(c)
    PROVE  \E out : Compiled(c, out) /\ out \in CompiledFor(job[c].name)
<1>1. CASE CacheHit(c)
  <2>1. pc[c] = "compile" /\ Hit(c) /\ Compiled(c, cache[c][job[c].name].out)
    BY <1>1 DEF CacheHit
  <2>2. job[c].name \in Names
    BY <2>1, VersionTypes
  <2>3. cache[c][job[c].name].out \in CompiledFor(job[c].name)
    BY <2>1, <2>2 DEF Hit, OwnInv, CacheOwn
  <2> QED BY <2>1, <2>3
<1>2. CASE CompileExplicit(c)
  <2>1. /\ pc[c] = "compile" /\ IsExplicit(job[c].set.spec)
        /\ Compiled(c, ExplicitWorkload(job[c].name, job[c].set.spec))
    BY <1>2 DEF CompileExplicit
  <2> QED BY <2>1, CompilingOwn
<1>3. CASE Synthesize(c)
  <2>1. pc[c] = "compile" /\ ~IsExplicit(job[c].set.spec)
    BY <1>3 DEF Synthesize, NeedsModel
  <2>2. PICK answer \in Answers :
          Compiled(c, SynthesizedWorkload(job[c].name, job[c].set.spec, answer))
    BY <1>3 DEF Synthesize
  <2> QED BY <2>1, <2>2, CompilingOwn
<1> QED BY <1>1, <1>2, <1>3 DEF Compilation

\* ... and stays so.
LEMMA JobsOwnNext ==
    ASSUME IInv, OwnInv, [Next]_vars
    PROVE  JobsOwn'
<1>1. CASE JobsKeep
  BY <1>1 DEF JobsKeep, OwnInv, JobsOwn, CompiledFor
<1>2. ASSUME NEW c \in Controllers, Compilation(c) PROVE JobsOwn'
  <2>1. PICK out : Compiled(c, out) /\ out \in CompiledFor(job[c].name)
    BY <1>2, CompilationOwn
  <2>2. /\ job'[c].name = job[c].name /\ job'[c].out = out
        /\ \A d \in Controllers : d # c => job'[d] = job[d]
    BY <2>1 DEF Compiled, IInv, TypeOK, Jobs
  <2> QED BY <2>1, <2>2 DEF OwnInv, JobsOwn
<1> QED BY <1>1, <1>2, JobCases

\* What is cached under a name was compiled for it, too.
LEMMA StoreOwn ==
    ASSUME IInv, CacheOwn, NEW c \in Controllers, NEW out, Store(c, out),
           pc[c] = "compile", out \in CompiledFor(job[c].name)
    PROVE  CacheOwn'
<1> DEFINE entry == [hash |-> SpecHash(job[c].set.spec), out |-> out]
<1>1. job[c].name \in Names
  BY VersionTypes
<1>2. entry.out = out
  OBVIOUS
<1>3. cache' = [cache EXCEPT ![c][job[c].name] = entry]
  BY DEF Store
<1> HIDE DEF entry
<1>4. ASSUME NEW d \in Controllers, NEW n \in Names
      PROVE  \/ cache'[d][n] = cache[d][n]
             \/ n = job[c].name /\ cache'[d][n] = entry
  BY <1>1, <1>3 DEF IInv, TypeOK
<1> QED BY <1>2, <1>4 DEF CacheOwn

\* Every step keeps the caches to their names.
LEMMA CacheOwnNext ==
    ASSUME IInv, OwnInv, [Next]_vars
    PROVE  CacheOwn'
<1> USE DEF OwnInv
<1>1. CASE UNCHANGED cache
  BY <1>1 DEF CacheOwn
<1>2. ASSUME NEW c \in Controllers, Restart(c) PROVE CacheOwn'
  <2>1. \A d \in Controllers, n \in Names : cache'[d][n] = None \/ cache'[d][n] = cache[d][n]
    BY <1>2 DEF Restart, IInv, TypeOK
  <2> QED BY <2>1 DEF CacheOwn
<1>3. ASSUME NEW c \in Controllers, CompileExplicit(c) PROVE CacheOwn'
  <2>1. /\ pc[c] = "compile" /\ IsExplicit(job[c].set.spec)
        /\ Store(c, ExplicitWorkload(job[c].name, job[c].set.spec))
    BY <1>3 DEF CompileExplicit
  <2> QED BY <2>1, StoreOwn, CompilingOwn
<1>4. ASSUME NEW c \in Controllers, Synthesize(c) PROVE CacheOwn'
  <2>1. pc[c] = "compile" /\ ~IsExplicit(job[c].set.spec)
    BY <1>4 DEF Synthesize, NeedsModel
  <2>2. PICK answer \in Answers :
          Store(c, SynthesizedWorkload(job[c].name, job[c].set.spec, answer))
    BY <1>4 DEF Synthesize
  <2> QED BY <2>1, <2>2, StoreOwn, CompilingOwn
<1> QED BY <1>1, <1>2, <1>3, <1>4, CacheCases

\* The pods change in two ways: they pass, or one is made.
LEMMA PodCases ==
    ASSUME IInv, [Next]_vars
    PROVE  \/ PodsShrink
           \/ \E c \in Controllers : \E p \in FreeNames(c) :
                pc[c] = "create" /\ pods' = [pods EXCEPT ![p] = NewPod(c)]
<1>1. ASSUME NEW c \in Controllers, Step(c)
      PROVE  PodsShrink \/ \E p \in FreeNames(c) :
               pc[c] = "create" /\ pods' = [pods EXCEPT ![p] = NewPod(c)]
  BY <1>1, StepCases, SamePodsShrink DEF Quiet, ListPods, CreatePod
<1>2. ASSUME NEW c \in Controllers, Fault(c)
      PROVE  PodsShrink \/ \E p \in FreeNames(c) :
               pc[c] = "create" /\ pods' = [pods EXCEPT ![p] = NewPod(c)]
  BY <1>2, FaultCases, SamePodsShrink DEF Quiet, CreateFails
<1>3. CASE User \/ Kubernetes
  BY <1>3, UserQuiet, KubernetesQuiet DEF Quiet
<1>4. CASE UNCHANGED vars
  BY <1>4, SamePodsShrink DEF vars
<1> QED BY <1>1, <1>2, <1>3, <1>4 DEF Next

\* A pod is made of a compilation of its set.
LEMMA PodsOwnNext ==
    ASSUME IInv, OwnInv, [Next]_vars
    PROVE  PodsOwn'
<1> USE DEF OwnInv
<1>1. CASE PodsShrink
  BY <1>1 DEF PodsShrink, PodsOwn
<1>2. ASSUME NEW c \in Controllers, NEW p \in FreeNames(c), pc[c] = "create",
             pods' = [pods EXCEPT ![p] = NewPod(c)]
      PROVE  PodsOwn'
  <2>1. /\ p \in Pods /\ PrefixOf[p] = job[c].name /\ pods'[p] = NewPod(c)
        /\ \A q \in Pods : q # p => pods'[q] = pods[q]
    BY <1>2 DEF FreeNames, IInv, TypeOK
  <2>2. job[c].out \in CompiledFor(job[c].name)
    BY <1>2 DEF JobsOwn, IInv, TypeOK, LocalsOK
  <2>3. NewPod(c).pod = job[c].out.pod /\ NewPod(c).owner.name = job[c].name
    BY DEF NewPod
  <2> QED BY <2>1, <2>2, <2>3 DEF PodsOwn, Active
<1> QED BY <1>1, <1>2, PodCases

\* What an active pod runs was compiled for the set it is owned by, for any
\* number of controllers and whatever labels the answers bring along.
THEOREM WorkloadsAreOwn == Spec => []OwnWorkload
<1>1. Init => IInv /\ OwnInv
  BY InitIInv, InitOwn
<1>2. IInv /\ OwnInv /\ [Next]_vars => (IInv /\ OwnInv)'
  BY NextIInv, CacheOwnNext, JobsOwnNext, PodsOwnNext DEF OwnInv
<1>3. OwnInv => OwnWorkload
  BY DEF OwnInv, PodsOwn, OwnWorkload
<1> QED BY <1>1, <1>2, <1>3, PTL DEF Spec

\* No answer sets the ownership label.
OwnLabels == \A answer \in Answers : answer.label = None

\* A pod is labelled with its set, and named after it.
PodsLabelled ==
    \A p \in Pods :
        Active(p) => /\ pods[p].pod.label = pods[p].owner.name
                     /\ PrefixOf[p] = pods[p].owner.name

\* Then the pods carry the label of their set.
LEMMA OwnIsLabelled ==
    ASSUME OwnLabels, PodsOwn
    PROVE  PodsLabelled
<1>1. ASSUME NEW n, NEW out \in CompiledFor(n) PROVE out.pod.label = n
  BY DEF OwnLabels, CompiledFor, ExplicitWorkload, SynthesizedWorkload
<1> QED BY <1>1 DEF PodsOwn, PodsLabelled

-----------------------------------------------------------------------------
(***************************************************************************)
(* NeverBelowScale: controllers that act on stale lists never delete below *)
(* the scale they agree on.  A List answers in the order of the names and  *)
(* the victims are its last elements, so below every victim there are at   *)
(* least as many active pods as the scale.  Deleting one victim q takes a  *)
(* pod from below another victim p only if q is below p, and then all that *)
(* is below q, a scale's worth, is below p too.                            *)
(*                                                                         *)
(* The assumptions exclude what removes active pods without the            *)
(* controllers, and what makes the controllers disagree.                   *)
(***************************************************************************)
\* One scale is asked for, whichever specification or answer it comes from.
OneScale == \A d, e \in Scales : d = e

\* Nobody else deletes or finishes pods, and no set is deleted.
Undisturbed == Limit["disrupt"] = 0 /\ Limit["delete"] = 0

Below(n, p) == {q \in Managed(n) : q < p}

\* The scale is there without p and the pods after it.
Spare(n, p) == \A d \in Scales : Cardinality(Below(n, p)) >= d

\* A job is about a set that exists.
JobsLive ==
    \A c \in Controllers, n \in Names :
        pc[c] # "loop" /\ job[c].name = n
          => sets[n] # None /\ sets[n].uid = job[c].set.uid

\* An active pod belongs to a set that exists.
PodsOwned == \A p \in Pods : Active(p) => OwnerExists(p)

\* A victim can be spared, whoever deletes what meanwhile.
VictimsSpare ==
    \A c \in Controllers, n \in Names :
        pc[c] = "delete" /\ job[c].name = n =>
            \A p \in job[c].victims : PrefixOf[p] = n /\ Spare(n, p)

ScaleInv == OwnInv /\ JobsLive /\ PodsOwned /\ VictimsSpare

\* At the start nobody is at work and there are no pods.
LEMMA InitScale == Init => ScaleInv
BY InitOwn DEF Init, ScaleInv, JobsLive, PodsOwned, VictimsSpare, Active

\* The pods below another are finitely many.
LEMMA BelowFinite ==
    ASSUME NEW n, NEW p
    PROVE  /\ IsFiniteSet(Below(n, p)) /\ Cardinality(Below(n, p)) \in Nat
           /\ IsFiniteSet(Below(n, p)') /\ Cardinality(Below(n, p)') \in Nat
<1>1. Below(n, p) \in SUBSET Pods /\ Below(n, p)' \in SUBSET Pods
  BY DEF Below, Managed
<1> QED BY <1>1, PodSetsFinite

\* A disturbance with no budget does not happen.
LEMMA NothingToSpend ==
    ASSUME Undisturbed, IInv
    PROVE  ~Spend("disrupt") /\ ~Spend("delete")
<1>1. spent["disrupt"] \in Nat /\ spent["delete"] \in Nat
  BY DEF IInv, TypeOK, Kinds
<1> QED BY <1>1 DEF Undisturbed, Spend

-----------------------------------------------------------------------------
(***************************************************************************)
(* Sets, jobs and owners last.                                             *)
(***************************************************************************)
\* A set that is there stays there, as the same creation.
SetsLast ==
    \A n \in Names :
        sets[n] # None => sets'[n] # None /\ sets'[n].uid = sets[n].uid

\* Writing a status deletes nothing.
LEMMA WriteStatusLasts ==
    ASSUME IInv, NEW c \in Controllers, NEW status \in Statuses, pc[c] # "loop",
           WriteStatus(c, status)
    PROVE  SetsLast
<1>1. /\ job[c].name \in Names /\ job[c].set \in Sets
      /\ sets[job[c].name] = job[c].set
  BY DEF WriteStatus, IInv, TypeOK, LocalsOK, FreshIsCurrent, Jobs
<1> DEFINE new == [job[c].set EXCEPT !.status = status]
<1>2. new.uid = job[c].set.uid /\ new \in Sets
  BY <1>1 DEF Sets
<1>3. sets' = [sets EXCEPT ![job[c].name] = new]
  BY <1>1 DEF WriteStatus
<1> HIDE DEF new
<1>4. new # None
  BY <1>2, NoneAssumption
<1> QED BY <1>1, <1>2, <1>3, <1>4 DEF SetsLast, IInv, TypeOK

\* Nor do the two status writes there are.
LEMMA ReportLasts ==
    ASSUME IInv, NEW c \in Controllers, Report(c) \/ ReportFailure(c)
    PROVE  SetsLast
BY FailureWrites, ReportWrites, WriteStatusLasts

\* Users create sets, or edit them, when they cannot delete them.
LEMMA UserLasts ==
    ASSUME Undisturbed, IInv, User
    PROVE  SetsLast
<1>1. ASSUME NEW n \in Names, NEW spec \in Specs, CreateSet(n, spec) PROVE SetsLast
  BY <1>1 DEF CreateSet, SetsLast, IInv, TypeOK
<1>2. ASSUME NEW n \in Names, NEW spec \in Specs, EditSpec(n, spec) PROVE SetsLast
  <2> DEFINE set == [sets[n] EXCEPT !.spec = spec, !.gen = @ + 1]
  <2>1. sets[n] \in Sets /\ sets[n].gen + 1 \in Nat \ {0}
    BY <1>2 DEF EditSpec, IInv, TypeOK, Sets
  <2>2. set.uid = sets[n].uid /\ set \in Sets
    BY <2>1 DEF Sets
  <2>3. sets' = [sets EXCEPT ![n] = set]
    BY <1>2, <2>1 DEF EditSpec, Sets, IInv, TypeOK
  <2> HIDE DEF set
  <2> QED BY <2>2, <2>3, NoneAssumption DEF SetsLast, IInv, TypeOK
<1>3. ASSUME NEW n \in Names PROVE ~DeleteSet(n)
  BY NothingToSpend DEF DeleteSet
<1> QED BY <1>1, <1>2, <1>3 DEF User

\* No step removes a set.
LEMMA NextLasts ==
    ASSUME Undisturbed, IInv, [Next]_vars
    PROVE  SetsLast
<1>1. CASE UNCHANGED sets
  BY <1>1 DEF SetsLast
<1> QED BY <1>1, SetCases, ReportLasts, UserLasts

\* A job goes on about the set it read, or reads one.
LEMMA JobStayCases ==
    ASSUME IInv, [Next]_vars
    PROVE  JobsStay \/ \E c \in Controllers, n \in Names : Get(c, n)
<1>1. ASSUME NEW c \in Controllers, Step(c) PROVE JobsStay \/ \E n \in Names : Get(c, n)
  <2>1. CASE Tick(c) \/ \E n \in Names : GetMissing(c, n)
    BY <2>1 DEF Tick, GetMissing, JobsStay
  <2>2. CASE CacheHit(c) \/ CompileExplicit(c) \/ Synthesize(c)
    BY <2>2, CompiledStays DEF CacheHit, CompileExplicit, Synthesize, NeedsModel
  <2>3. CASE \E p \in Pods : CreatePod(c, p) \/ DeletePod(c, p)
    <3>1. CASE \E p \in Pods : CreatePod(c, p)
      BY <3>1 DEF JobsStay, CreatePod, IInv, TypeOK, Jobs
    <3>2. CASE \E p \in Pods : DeletePod(c, p)
      BY <3>2, PastVictimStays DEF DeletePod, IsNextVictim
    <3> QED BY <2>3, <3>1, <3>2
  <2>4. CASE ReportFailure(c) \/ Report(c)
    BY <2>4, WriteStatusStays DEF ReportFailure, Report
  <2>5. CASE ReportConflict(c) \/ Panic(c)
    BY <2>5, ReturnStays DEF ReportConflict, Panic, Restart
  <2> QED BY <1>1, <2>1, <2>2, <2>3, <2>4, <2>5, ListPodsStays DEF Step, Call
<1>2. ASSUME NEW c \in Controllers, Fault(c) PROVE JobsStay
  <2>1. CASE \E n \in Names : GetFails(c, n)
    BY <2>1 DEF GetFails, JobsStay
  <2>2. CASE SynthesizeFails(c)
    BY <2>2 DEF JobsStay, SynthesizeFails, NeedsModel, IInv, TypeOK
  <2>3. CASE \E p \in Pods : DeleteFails(c, p)
    BY <2>3, PastVictimStays DEF DeleteFails, IsNextVictim
  <2> QED BY <1>2, <2>1, <2>2, <2>3, ReturnStays
          DEF Fault, CallFails, ListPodsFails, CreateFails, ReportFails, Crash, Restart
<1>3. CASE User
  <2>1. UNCHANGED pc /\ (UNCHANGED job \/ \E n \in Names : job' = Outdated(n))
    BY <1>3 DEF User, CreateSet, EditSpec, DeleteSet
  <2> QED BY <2>1, OutdatedFields DEF JobsStay
<1>4. CASE Kubernetes
  BY <1>4, KubernetesVersions DEF VersionsStay
<1>5. CASE UNCHANGED vars
  BY <1>5 DEF vars, JobsStay
<1> QED BY <1>1, <1>2, <1>3, <1>4, <1>5 DEF Next

\* The sets of the jobs last.
LEMMA JobsLiveNext ==
    ASSUME Undisturbed, IInv, JobsLive, [Next]_vars
    PROVE  JobsLive'
<1>1. SetsLast
  BY NextLasts
<1>2. CASE JobsStay
  BY <1>1, <1>2 DEF JobsStay, SetsLast, JobsLive
<1>3. ASSUME NEW c \in Controllers, NEW n \in Names, Get(c, n) PROVE JobsLive'
  <2>1. /\ sets[n] # None /\ job'[c].name = n /\ job'[c].set = sets[n]
        /\ \A d \in Controllers : d # c => job'[d] = job[d] /\ pc'[d] = pc[d]
        /\ UNCHANGED sets
    BY <1>3 DEF Get, Converts, NoJob, IInv, TypeOK
  <2> QED BY <2>1 DEF JobsLive
<1> QED BY <1>2, <1>3, JobStayCases

\* The owners of the pods last, and a new pod has one.
LEMMA PodsOwnedNext ==
    ASSUME Undisturbed, IInv, JobsLive, PodsOwned, [Next]_vars
    PROVE  PodsOwned'
<1>1. SetsLast
  BY NextLasts
<1>2. ASSUME NEW p \in Pods, pods[p] # None PROVE pods[p].owner.name \in Names
  BY <1>2 DEF IInv, TypeOK, PodObjects
<1>3. CASE PodsShrink
  <2> SUFFICES ASSUME NEW p \in Pods, Active(p)' PROVE OwnerExists(p)'
    BY DEF PodsOwned
  <2>1. Active(p) /\ pods'[p].owner = pods[p].owner
    BY <1>3 DEF PodsShrink
  <2>2. OwnerExists(p) /\ pods[p].owner.name \in Names
    BY <1>2, <2>1 DEF PodsOwned, Active
  <2> QED BY <1>1, <2>1, <2>2 DEF OwnerExists, SetsLast
<1>4. ASSUME NEW c \in Controllers, NEW p \in FreeNames(c), pc[c] = "create",
             pods' = [pods EXCEPT ![p] = NewPod(c)]
      PROVE  PodsOwned'
  <2> SUFFICES ASSUME NEW q \in Pods, Active(q)' PROVE OwnerExists(q)'
    BY DEF PodsOwned
  <2>1. CASE q = p
    <3>1. /\ pods'[q].owner.name = job[c].name
          /\ pods'[q].owner.uid = job[c].set.uid
      BY <1>4, <2>1 DEF NewPod, IInv, TypeOK
    <3>2. job[c].name \in Names
      BY <1>4, VersionTypes
    <3>3. sets[job[c].name] # None /\ sets[job[c].name].uid = job[c].set.uid
      BY <1>4, <3>2 DEF JobsLive
    <3> QED BY <1>1, <3>1, <3>2, <3>3 DEF OwnerExists, SetsLast
  <2>2. CASE q # p
    <3>1. pods'[q] = pods[q] /\ Active(q)
      BY <1>4, <2>2 DEF IInv, TypeOK, Active
    <3>2. OwnerExists(q) /\ pods[q].owner.name \in Names
      BY <1>2, <3>1 DEF PodsOwned, Active
    <3> QED BY <1>1, <3>1, <3>2 DEF OwnerExists, SetsLast
  <2> QED BY <2>1, <2>2
<1> QED BY <1>3, <1>4, PodCases

-----------------------------------------------------------------------------
(***************************************************************************)
(* The pods below a victim.                                                *)
(***************************************************************************)
\* The active pods stay active and keep their label.
ActiveStay ==
    \A p \in Pods : Active(p) => Active(p)' /\ pods'[p].pod = pods[p].pod

\* Only an active pod that is deleted, or finishes, is lost.
LEMMA SetPhaseActive ==
    ASSUME IInv, NEW p \in Pods, NEW phase \in Phases, SetPhase(p, phase),
           pods[p] # None, Active(p) => phase \in ActivePhases
    PROVE  ActiveStay
<1> SUFFICES ASSUME NEW q \in Pods, Active(q)
             PROVE  Active(q)' /\ pods'[q].pod = pods[q].pod
  BY DEF ActiveStay
<1>1. CASE q = p
  <2>1. pods[p] \in PodObjects
    BY DEF IInv, TypeOK
  <2>2. pods'[p] = [pods[p] EXCEPT !.phase = phase]
    BY DEF SetPhase, IInv, TypeOK
  <2>3. [pods[p] EXCEPT !.phase = phase] \in PodObjects
    BY <2>1 DEF PodObjects
  <2>4. pods'[p] # None /\ pods'[p].phase = phase /\ pods'[p].pod = pods[p].pod
    BY <2>1, <2>2, <2>3, NoneAssumption DEF PodObjects
  <2> QED BY <1>1, <2>4 DEF Active
<1>2. CASE q # p
  BY <1>2 DEF Active, SetPhase, IInv, TypeOK
<1> QED BY <1>1, <1>2

\* A new pod takes no other one's place.
LEMMA NewPodActive ==
    ASSUME IInv, NEW c \in Controllers, NEW p \in FreeNames(c),
           pods' = [pods EXCEPT ![p] = NewPod(c)]
    PROVE  ActiveStay
BY DEF ActiveStay, Active, FreeNames, IInv, TypeOK

\* Undisturbed, the cluster takes no active pod away.
LEMMA KubernetesActive ==
    ASSUME Undisturbed, IInv, PodsOwned, Kubernetes
    PROVE  ActiveStay
<1>1. PICK p \in Pods :
        Removal(p) \/ Collection(p) \/ KubeletReport(p) \/ Disruption(p)
  BY DEF Kubernetes
<1>2. CASE Removal(p)
  BY <1>2 DEF Removal, PodRemoved, ActiveStay, Active, ActivePhases, IInv, TypeOK
<1>3. CASE Collection(p)
  BY <1>3, SetPhaseActive DEF Collection, GarbageCollect, PodsOwned, Phases
<1>4. CASE KubeletReport(p)
  BY <1>4, SetPhaseActive DEF KubeletReport, PodStarts, PodProbed, Phases, ActivePhases
<1>5. ~Disruption(p)
  BY NothingToSpend DEF Disruption
<1> QED BY <1>1, <1>2, <1>3, <1>4, <1>5

\* Of all steps only a deletion takes active pods away.
LEMMA ActiveCases ==
    ASSUME Undisturbed, IInv, PodsOwned, [Next]_vars
    PROVE  ActiveStay \/ \E c \in Controllers, p \in Pods : DeletePod(c, p)
<1>1. CASE UNCHANGED pods
  BY <1>1 DEF ActiveStay, Active
<1>2. ASSUME NEW c \in Controllers, Step(c)
      PROVE  \/ UNCHANGED pods
             \/ \E p \in FreeNames(c) : pods' = [pods EXCEPT ![p] = NewPod(c)]
             \/ \E p \in Pods : DeletePod(c, p)
  BY <1>2 DEF Step, Call, Tick, Get, GetMissing, CacheHit, CompileExplicit, Synthesize, ListPods,
     CreatePod, ReportFailure, Report, WriteStatus, ReportConflict, Panic, Restart
<1>3. ASSUME NEW c \in Controllers, Fault(c)
      PROVE  \/ UNCHANGED pods
             \/ \E p \in FreeNames(c) : pods' = [pods EXCEPT ![p] = NewPod(c)]
  BY <1>3 DEF Fault, CallFails, GetFails, SynthesizeFails, ListPodsFails, CreateFails, DeleteFails,
     ReportFails, Crash, Restart
<1>4. CASE User
  BY <1>1, <1>4 DEF User, CreateSet, EditSpec, DeleteSet
<1> QED BY <1>1, <1>2, <1>3, <1>4, NewPodActive, KubernetesActive DEF Next, vars

\* A deletion takes at most its victim.
LEMMA DeletePodActive ==
    ASSUME IInv, NEW c \in Controllers, NEW q \in Pods, DeletePod(c, q)
    PROVE  \A p \in Pods : p # q /\ Active(p) => Active(p)' /\ pods'[p].pod = pods[p].pod
BY DEF DeletePod, SetPhase, Active, IInv, TypeOK

\* What is below a victim is active, has the victim's label, and is not the
\* victim; it is more than the scale, or as much.
LEMMA VictimSpared ==
    ASSUME IInv, VictimsSpare, PodsLabelled, NEW c \in Controllers, NEW q \in Pods,
           DeletePod(c, q), Active(q)
    PROVE  Spare(pods[q].pod.label, q)
<1>1. pc[c] = "delete" /\ q \in job[c].victims
  BY DEF DeletePod, IsNextVictim
<1>2. job[c].name \in Names
  BY <1>1, VersionTypes
<1>3. PrefixOf[q] = job[c].name /\ Spare(job[c].name, q)
  BY <1>1, <1>2 DEF VictimsSpare
<1>4. pods[q].pod.label = PrefixOf[q]
  BY DEF PodsLabelled
<1> QED BY <1>3, <1>4

\* Every step leaves a scale's worth of pods below whatever has it.
LEMMA SpareStays ==
    ASSUME OwnLabels, Undisturbed, IInv, ScaleInv, [Next]_vars,
           NEW n, NEW p \in Pods, Spare(n, p)
    PROVE  Spare(n, p)'
<1> SUFFICES ASSUME NEW d \in Scales PROVE Cardinality(Below(n, p)') >= d
  BY DEF Spare
<1>1. d \in Int
  BY ScalesAssumption
<1>2. ASSUME NEW S, IsFiniteSet(S), Cardinality(S) >= d, S \subseteq Below(n, p)'
      PROVE  Cardinality(Below(n, p)') >= d
  <2>1. Cardinality(S) <= Cardinality(Below(n, p)')
    BY <1>2, BelowFinite, FS_Subset
  <2>2. Cardinality(S) \in Nat
    BY <1>2, FS_CardinalityType
  <2> QED BY <1>1, <1>2, <2>1, <2>2, BelowFinite
<1>3. Cardinality(Below(n, p)) >= d
  BY DEF Spare
<1>4. CASE ActiveStay
  <2>1. Below(n, p) \subseteq Below(n, p)'
    BY <1>4 DEF ActiveStay, Below, Managed
  <2> QED BY <1>2, <1>3, <2>1, BelowFinite
<1>5. ASSUME NEW c \in Controllers, NEW q \in Pods, DeletePod(c, q)
      PROVE  Cardinality(Below(n, p)') >= d
  <2>1. Below(n, p) \ {q} \subseteq Below(n, p)'
    BY <1>5, DeletePodActive DEF Below, Managed
  <2>2. CASE q \notin Below(n, p)
    BY <1>2, <1>3, <2>1, <2>2, BelowFinite
  <2>3. CASE q \in Below(n, p)
    <3>1. Active(q) /\ pods[q].pod.label = n /\ q < p
      BY <2>3 DEF Below, Managed
    <3>2. Spare(n, q)
      BY <1>5, <3>1, VictimSpared, OwnIsLabelled DEF ScaleInv, OwnInv
    <3>3. Cardinality(Below(n, q)) >= d
      BY <3>2 DEF Spare
    <3>4. Below(n, q) \subseteq Below(n, p) \ {q}
      <4>1. ASSUME NEW r \in Pods, r < q PROVE r < p /\ r # q
        <5>1. r \in Nat /\ q \in Nat /\ p \in Nat
          BY PodsAssumption
        <5> QED BY <3>1, <4>1, <5>1
      <4> QED BY <4>1 DEF Below, Managed
    <3>5. Below(n, q) \subseteq Below(n, p)'
      BY <2>1, <3>4
    <3> QED BY <1>2, <3>3, <3>5, BelowFinite
  <2> QED BY <2>2, <2>3
<1> QED BY <1>4, <1>5, ActiveCases DEF ScaleInv

\* What a List finds in excess can be spared.
LEMMA ListPodsSpares ==
    ASSUME OneScale, IInv, VictimsSpare, PodsLabelled, NEW c \in Controllers, ListPods(c)
    PROVE  VictimsSpare'
<1> DEFINE live == Managed(job[c].name)
           desired == job[c].out.replicas
<1>1. /\ live \in SUBSET Pods /\ desired \in Int
      /\ \A d \in Controllers : /\ job'[d].name = job[d].name
                                /\ d # c => job'[d] = job[d] /\ pc'[d] = pc[d]
  BY ListPodsFacts
<1>2. job'[c].victims = Excess(live, desired)
  <2>1. job[c] \in Jobs
    BY DEF IInv, TypeOK
  <2> HIDE DEF live, desired
  <2>2. job'[c].victims = Excess(live, desired)
    BY <2>1 DEF ListPods, IInv, TypeOK, Jobs, live, desired
  <2> QED BY <2>2
<1>3. desired \in Scales
  <2>1. job[c].out \in Workloads
    BY DesiredInt DEF ListPods, IInv, TypeOK, LocalsOK
  <2> QED BY <2>1 DEF Scales
<1>4. UNCHANGED pods
  BY DEF ListPods
<1> SUFFICES ASSUME NEW d \in Controllers, NEW n \in Names, pc'[d] = "delete",
                    job'[d].name = n, NEW p \in job'[d].victims
             PROVE  PrefixOf[p] = n /\ Spare(n, p)'
  BY DEF VictimsSpare
<1>5. CASE d # c
  <2>1. PrefixOf[p] = n /\ Spare(n, p)
    BY <1>1, <1>5 DEF VictimsSpare
  <2> QED BY <1>4, <2>1 DEF Spare, Below, Managed, Active
<1>6. CASE d = c
  <2>1. job[c].name = n
    BY <1>1, <1>6
  <2>2. p \in Managed(n) /\ Cardinality({q \in Managed(n) : q < p}) >= desired
    BY <1>2, <1>6, <2>1 DEF Excess
  <2>3. PrefixOf[p] = n
    BY <2>2 DEF PodsLabelled, Managed
  <2>4. \A e \in Scales : e = desired
    BY <1>3 DEF OneScale
  <2> HIDE DEF desired
  <2>5. Spare(n, p)
    BY <2>2, <2>4 DEF Spare, Below
  <2> QED BY <1>4, <2>3, <2>5 DEF Spare, Below, Managed, Active
<1> QED BY <1>5, <1>6

\* The jobs that go on deleting have no other victims than before.
VictimsLess ==
    \A d \in Controllers :
        pc'[d] = "delete" => /\ pc[d] = "delete"
                             /\ job'[d].name = job[d].name
                             /\ job'[d].victims \subseteq job[d].victims

\* Passing a victim leaves the others.
LEMMA PastVictimLess ==
    ASSUME IInv, NEW c \in Controllers, NEW p \in Pods, pc[c] = "delete", PastVictim(c, p)
    PROVE  VictimsLess
<1> DEFINE left == job[c].victims \ {p}
<1>1. job[c] \in Jobs
  BY DEF IInv, TypeOK
<1>2. job'[c].name = job[c].name /\ job'[c].victims = left
  BY <1>1 DEF PastVictim, IInv, TypeOK, Jobs
<1>3. \A d \in Controllers : d # c => pc'[d] = pc[d] /\ job'[d] = job[d]
  BY DEF PastVictim, IInv, TypeOK
<1> QED BY <1>2, <1>3 DEF VictimsLess

\* Only a List finds new ones.
LEMMA VictimCases ==
    ASSUME IInv, [Next]_vars
    PROVE  VictimsLess \/ \E c \in Controllers : ListPods(c)
<1>1. VictimsStay => VictimsLess
  BY DEF VictimsStay, VictimsLess
<1>2. ASSUME NEW c \in Controllers, NEW p \in Pods, DeletePod(c, p) \/ DeleteFails(c, p)
      PROVE  VictimsLess
  <2>1. pc[c] = "delete" /\ PastVictim(c, p)
    BY <1>2 DEF DeletePod, DeleteFails, IsNextVictim
  <2> QED BY <2>1, PastVictimLess
<1>3. ASSUME NEW c \in Controllers, Step(c) PROVE VictimsLess \/ ListPods(c)
  BY <1>1, <1>2, <1>3, StepVictims
<1>4. ASSUME NEW c \in Controllers, Fault(c) PROVE VictimsLess
  BY <1>1, <1>2, <1>4, FaultVictims
<1> QED BY <1>1, <1>3, <1>4, OthersVictims DEF Next

\* The victims can still be spared after every step.
LEMMA VictimsSpareNext ==
    ASSUME OneScale, OwnLabels, Undisturbed, IInv, ScaleInv, [Next]_vars
    PROVE  VictimsSpare'
<1>1. CASE VictimsLess
  <2> SUFFICES ASSUME NEW d \in Controllers, NEW n \in Names, pc'[d] = "delete",
                      job'[d].name = n, NEW p \in job'[d].victims
               PROVE  PrefixOf[p] = n /\ Spare(n, p)'
    BY DEF VictimsSpare
  <2>1. PrefixOf[p] = n /\ Spare(n, p)
    BY <1>1 DEF VictimsLess, ScaleInv, VictimsSpare
  <2>2. p \in Pods
    BY <1>1 DEF VictimsLess, IInv, TypeOK, Jobs
  <2> QED BY <2>1, <2>2, SpareStays
<1>2. CASE \E c \in Controllers : ListPods(c)
  BY <1>2, ListPodsSpares, OwnIsLabelled DEF ScaleInv, OwnInv
<1> QED BY <1>1, <1>2, VictimCases

\* Every step keeps the invariant.
LEMMA NextScale ==
    ASSUME OneScale, OwnLabels, Undisturbed, IInv, ScaleInv, [Next]_vars
    PROVE  ScaleInv'
BY CacheOwnNext, JobsOwnNext, PodsOwnNext, JobsLiveNext, PodsOwnedNext, VictimsSpareNext
   DEF ScaleInv, OwnInv

\* No step takes a set below a scale that it has reached.
LEMMA ScaleKept ==
    ASSUME OwnLabels, Undisturbed, IInv, ScaleInv, [Next]_vars, NEW n, NEW d \in Scales,
           Cardinality(Managed(n)) >= d
    PROVE  Cardinality(Managed(n)') >= d
<1>1. d \in Int
  BY ScalesAssumption
<1>2. ASSUME NEW S, IsFiniteSet(S), Cardinality(S) >= d, S \subseteq Managed(n)'
      PROVE  Cardinality(Managed(n)') >= d
  <2>1. Cardinality(S) <= Cardinality(Managed(n)')
    BY <1>2, ManagedFinite, FS_Subset
  <2>2. Cardinality(S) \in Nat
    BY <1>2, FS_CardinalityType
  <2> QED BY <1>1, <1>2, <2>1, <2>2, ManagedFinite
<1>3. CASE ActiveStay
  <2>1. Managed(n) \subseteq Managed(n)'
    BY <1>3 DEF ActiveStay, Managed
  <2> QED BY <1>2, <2>1, ManagedFinite
<1>4. ASSUME NEW c \in Controllers, NEW q \in Pods, DeletePod(c, q)
      PROVE  Cardinality(Managed(n)') >= d
  <2>1. Managed(n) \ {q} \subseteq Managed(n)'
    BY <1>4, DeletePodActive DEF Managed
  <2>2. CASE q \notin Managed(n)
    BY <1>2, <2>1, <2>2, ManagedFinite
  <2>3. CASE q \in Managed(n)
    <3>1. Active(q) /\ pods[q].pod.label = n
      BY <2>3 DEF Managed
    <3>2. Cardinality(Below(n, q)) >= d
      BY <1>4, <3>1, VictimSpared, OwnIsLabelled DEF ScaleInv, OwnInv, Spare
    <3>3. Below(n, q) \subseteq Managed(n) \ {q}
      <4>1. q \in Nat /\ ~(q < q)
        BY PodsAssumption
      <4> QED BY <4>1 DEF Below
    <3>4. Below(n, q) \subseteq Managed(n)'
      BY <2>1, <3>3
    <3> QED BY <1>2, <3>2, <3>4, BelowFinite
  <2> QED BY <2>2, <2>3
<1> QED BY <1>3, <1>4, ActiveCases DEF ScaleInv

\* Any number of controllers that delete from lists of any age never take a
\* set below the one scale they are asked for, as long as the pods carry
\* their own label and nobody else removes them.
THEOREM ScaleHolds ==
    ASSUME OneScale, OwnLabels, Undisturbed
    PROVE  Spec => NeverBelowScale
<1>1. Init => IInv /\ ScaleInv
  BY InitIInv, InitScale
<1>2. IInv /\ ScaleInv /\ [Next]_vars => (IInv /\ ScaleInv)'
  BY NextIInv, NextScale
<1>3. IInv /\ ScaleInv /\ [Next]_vars
        => \A n \in Names, d \in Scales :
             Cardinality(Managed(n)) >= d => Cardinality(Managed(n)') >= d
  BY ScaleKept
<1> QED BY <1>1, <1>2, <1>3, PTL DEF Spec, NeverBelowScale
-----------------------------------------------------------------------------
(***************************************************************************)
(* NoOvershoot, for a controller that is the only one.  The property is    *)
(* inductive by itself: while the controller creates, the pods it counted  *)
(* only get fewer, except for the one that each creation takes off what is *)
(* still to create.                                                        *)
(***************************************************************************)
Alone == \A c, d \in Controllers : c = d

\* What controller c has and is about to have for set n is within its scale.
Scaled(c, n) ==
    pc[c] = "create" /\ job[c].name = n
      => Cardinality(Managed(n)) + job[c].todo <= job[c].out.replicas

AllScaled == \A c \in Controllers, n \in Names : Scaled(c, n)

\* Where no pod is made and no creation begins, the pods only get fewer.
LEMMA QuietKeepsScale ==
    ASSUME IInv, AllScaled, Quiet
    PROVE  AllScaled'
<1> SUFFICES ASSUME NEW c \in Controllers, NEW n \in Names,
                    pc'[c] = "create", job'[c].name = n
             PROVE  Cardinality(Managed(n)') + job'[c].todo <= job'[c].out.replicas
  BY DEF AllScaled, Scaled
<1>1. /\ pc[c] = "create" /\ job[c].name = n /\ job'[c].out = job[c].out
      /\ job'[c].todo = job[c].todo
  BY DEF Quiet
<1>2. Cardinality(Managed(n)) + job[c].todo <= job[c].out.replicas
  BY <1>1 DEF AllScaled, Scaled
<1>3. Managed(n)' \subseteq Managed(n)
  BY DEF Quiet, PodsShrink, Managed
<1>4. Cardinality(Managed(n)') <= Cardinality(Managed(n))
  BY <1>3, ManagedFinite, FS_Subset
<1>5. job[c].todo \in Nat /\ job[c].out.replicas \in Int
  BY <1>1, DesiredInt DEF IInv, TypeOK, LocalsOK, Jobs
<1> QED BY <1>1, <1>2, <1>4, <1>5, ManagedFinite

\* A List begins the creation of what is missing.
LEMMA ListPodsKeepsScale ==
    ASSUME Alone, IInv, NEW c \in Controllers, ListPods(c)
    PROVE  AllScaled'
<1> SUFFICES ASSUME NEW n \in Names, pc'[c] = "create", job'[c].name = n
             PROVE  Cardinality(Managed(n)') + job'[c].todo <= job'[c].out.replicas
  BY DEF Alone, AllScaled, Scaled
<1> DEFINE live == Managed(job[c].name)
           size == Cardinality(live)
           desired == job[c].out.replicas
<1>1. /\ size \in Nat /\ desired \in Int
      /\ job'[c].name = job[c].name /\ job'[c].out = job[c].out
      /\ job'[c].todo = IF size < desired THEN desired - size ELSE 0
      /\ pc'[c] = "create" => size < desired
  BY ListPodsFacts
<1>2. Managed(n)' = live
  BY <1>1 DEF ListPods, Managed, Active
<1> HIDE DEF live
<1> QED BY <1>1, <1>2

\* A creation adds at most one pod, and there is one less to create.
LEMMA CreatePodKeepsScale ==
    ASSUME Alone, IInv, AllScaled, NEW c \in Controllers, NEW p \in Pods,
           CreatePod(c, p)
    PROVE  AllScaled'
<1> SUFFICES ASSUME NEW n \in Names, pc'[c] = "create", job'[c].name = n
             PROVE  Cardinality(Managed(n)') + job'[c].todo <= job'[c].out.replicas
  BY DEF Alone, AllScaled, Scaled
<1>1. /\ pc[c] = "create" /\ job[c].todo \in Nat
      /\ job'[c].todo = job[c].todo - 1
      /\ job[c].name = n /\ job'[c].out = job[c].out
  BY DEF CreatePod, IInv, TypeOK, Jobs
<1>2. Managed(n)' \subseteq Managed(n) \cup {p}
  BY DEF CreatePod, Managed, Active, IInv, TypeOK
<1>3. Cardinality(Managed(n)') <= Cardinality(Managed(n)) + 1
  <2>1. p \notin Managed(n)
    BY DEF CreatePod, FreeNames, Managed, Active
  <2>2. /\ IsFiniteSet(Managed(n) \cup {p})
        /\ Cardinality(Managed(n) \cup {p}) = Cardinality(Managed(n)) + 1
    BY <2>1, ManagedFinite, FS_AddElement
  <2> QED BY <1>2, <2>2, FS_Subset
<1>4. Cardinality(Managed(n)) + job[c].todo <= job[c].out.replicas
  BY <1>1 DEF AllScaled, Scaled
<1>5. job[c].out.replicas \in Int
  BY <1>1, DesiredInt DEF IInv, TypeOK, LocalsOK
<1> QED BY <1>1, <1>3, <1>4, <1>5, ManagedFinite

\* A failed creation ends the reconcile.
LEMMA CreateFailsKeepsScale ==
    ASSUME Alone, IInv, NEW c \in Controllers, CreateFails(c)
    PROVE  AllScaled'
<1>1. pc'[c] # "create"
  BY DEF CreateFails, Return, IInv, TypeOK
<1> QED BY <1>1 DEF Alone, AllScaled, Scaled

\* Every step of a lone controller, its users and the cluster keeps it.
LEMMA NextScaled ==
    ASSUME Alone, IInv, AllScaled, [Next]_vars
    PROVE  AllScaled'
<1>1. ASSUME NEW c \in Controllers, Step(c) PROVE AllScaled'
  BY <1>1, StepCases, ListPodsKeepsScale, CreatePodKeepsScale, QuietKeepsScale
<1>2. ASSUME NEW c \in Controllers, Fault(c) PROVE AllScaled'
  BY <1>2, FaultCases, CreateFailsKeepsScale, QuietKeepsScale
<1>3. CASE User
  BY <1>3, UserQuiet, QuietKeepsScale
<1>4. CASE Kubernetes
  BY <1>4, KubernetesQuiet, QuietKeepsScale
<1>5. CASE UNCHANGED vars
  BY <1>5 DEF vars, AllScaled, Scaled, Managed, Active
<1> QED BY <1>1, <1>2, <1>3, <1>4, <1>5 DEF Next

\* The property, for the set that the controller is creating pods for.
LEMMA ScaledSuffices == ASSUME IInv, AllScaled PROVE NoOvershoot
<1> SUFFICES ASSUME NEW c \in Controllers, pc[c] = "create"
             PROVE  Cardinality(Managed(job[c].name)) + job[c].todo
                      <= job[c].out.replicas
  BY DEF NoOvershoot
<1>1. job[c].name \in Names
  BY DEF IInv, TypeOK, LocalsOK, Jobs
<1> QED BY <1>1 DEF AllScaled, Scaled

\* A controller that is the only one never has more pods in the making than
\* the scale it compiled, whatever fails, crashes, is edited or disrupted.
THEOREM NeverOvershoots ==
    ASSUME Alone
    PROVE  Spec => []NoOvershoot
<1>1. Init => IInv /\ AllScaled
  BY InitIInv DEF Init, AllScaled, Scaled
<1>2. IInv /\ AllScaled /\ [Next]_vars => (IInv /\ AllScaled)'
  BY NextIInv, NextScaled
<1>3. IInv /\ AllScaled => NoOvershoot
  BY ScaledSuffices
<1> QED BY <1>1, <1>2, <1>3, PTL DEF Spec
=============================================================================
