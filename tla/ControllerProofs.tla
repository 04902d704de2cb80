-------------------------- MODULE ControllerProofs --------------------------
(***************************************************************************)
(* Theorems about Controller.tla, for any number of controllers, sets,     *)
(* pods, specifications, answers and disturbances.                         *)
(***************************************************************************)
EXTENDS Controller, FiniteSetTheorems, SequenceTheorems, TLAPS

-----------------------------------------------------------------------------
(***************************************************************************)
(* Type correctness.                                                       *)
(***************************************************************************)
\* TypeOK is not inductive by itself: a status is written into the set the
\* job read, so the set must still be there.
IInv == TypeOK /\ FreshIsCurrent

\* A set of pods is finite: the lists the controller works on have a length.
LEMMA PodSetsFinite ==
    ASSUME NEW S \in SUBSET Pods
    PROVE  IsFiniteSet(S) /\ Cardinality(S) \in Nat
BY PodsAssumption, FS_Subset, FS_CardinalityType

\* The cluster is empty and no controller is at work at the start.
LEMMA InitIInv == Init => IInv
BY DEF Init, IInv, TypeOK, FreshIsCurrent, LocalsOK, NoJob, Jobs, Kinds

\* A round begins.
LEMMA TickIInv ==
    ASSUME IInv, NEW c \in Controllers, Tick(c)
    PROVE  IInv'
BY DEF IInv, TypeOK, FreshIsCurrent, LocalsOK, Tick, ListedSets

\* The set read is the current one.
LEMMA GetIInv ==
    ASSUME IInv, NEW c \in Controllers, NEW n \in Names, Get(c, n)
    PROVE  IInv'
<1>1. sets[n] \in Sets
  BY DEF IInv, TypeOK, Get, Converts
<1>2. [NoJob EXCEPT !.name = n, !.set = sets[n], !.fresh = TRUE] \in Jobs
  BY <1>1 DEF NoJob, Jobs
<1>3. TypeOK'
  BY <1>2, NoneAssumption DEF IInv, TypeOK, Get, Converts, TakeFromWork, LocalsOK, NoJob
<1>4. FreshIsCurrent'
  BY NoneAssumption DEF IInv, TypeOK, FreshIsCurrent, Get, Converts, NoJob
<1> QED BY <1>3, <1>4 DEF IInv

\* A compilation is kept in the job.
LEMMA CompiledJob ==
    ASSUME IInv, NEW c \in Controllers, NEW out \in Workloads,
           pc[c] = "compile", Compiled(c, out), UNCHANGED sets
    PROVE  /\ job' \in [Controllers -> Jobs]
           /\ pc' \in [Controllers -> {"loop", "compile", "fail", "list",
                                       "create", "delete", "report"}]
           /\ \A d \in Controllers : LocalsOK(d)'
           /\ FreshIsCurrent'
<1>1. job[c] \in Jobs
  BY DEF IInv, TypeOK
<1>2. [job[c] EXCEPT !.out = out] \in Jobs
  BY <1>1 DEF Jobs
<1>3. job' = [job EXCEPT ![c] = [job[c] EXCEPT !.out = out]]
  BY DEF Compiled
<1>4. out # None
  BY NoneAssumption
<1>5. job' \in [Controllers -> Jobs]
  BY <1>2, <1>3 DEF IInv, TypeOK
<1>6. \A d \in Controllers : LocalsOK(d)'
  BY <1>1, <1>3, <1>4 DEF IInv, TypeOK, LocalsOK, Compiled, Jobs
<1>7. FreshIsCurrent'
  BY <1>1, <1>3 DEF IInv, TypeOK, FreshIsCurrent, Jobs
<1> QED BY <1>5, <1>6, <1>7 DEF IInv, TypeOK, Compiled

\* The cache keeps what was compiled under the hash of its specification.
LEMMA StoreCache ==
    ASSUME IInv, NEW c \in Controllers, NEW out \in Workloads,
           pc[c] = "compile", Store(c, out)
    PROVE  cache' \in [Controllers -> [Names -> Entries \cup {None}]]
<1>1. job[c].set \in Sets /\ job[c].name \in Names
  BY DEF IInv, TypeOK, LocalsOK, Jobs
<1>2. job[c].set.spec \in Specs
  BY <1>1 DEF Sets
<1>3. [hash |-> SpecHash(job[c].set.spec), out |-> out] \in Entries
  BY <1>2 DEF Entries
<1> QED BY <1>1, <1>3 DEF IInv, TypeOK, Store

\* A hit puts the cached compilation into the job.
LEMMA CacheHitIInv ==
    ASSUME IInv, NEW c \in Controllers, CacheHit(c)
    PROVE  IInv'
<1>1. job[c].name \in Names
  BY DEF IInv, TypeOK, LocalsOK, Jobs, CacheHit
<1>2. cache[c][job[c].name] \in Entries
  BY <1>1 DEF IInv, TypeOK, CacheHit, Hit
<1>3. cache[c][job[c].name].out \in Workloads
  BY <1>2 DEF Entries
<1> QED BY <1>3, CompiledJob DEF IInv, TypeOK, CacheHit

\* The template-only path compiles one of the workloads, and caches it.
LEMMA CompileExplicitIInv ==
    ASSUME IInv, NEW c \in Controllers, CompileExplicit(c)
    PROVE  IInv'
<1> DEFINE out == ExplicitWorkload(job[c].name, job[c].set.spec)
<1>1. job[c].set \in Sets /\ job[c].name \in Names
  BY DEF IInv, TypeOK, LocalsOK, Jobs, CompileExplicit
<1>2. job[c].set.spec \in {s \in Specs : IsExplicit(s)}
  BY <1>1 DEF Sets, CompileExplicit
<1>3. out \in Workloads
  BY <1>1, <1>2 DEF Workloads, CompiledFor
<1>4. pc[c] = "compile" /\ Compiled(c, out) /\ Store(c, out) /\ UNCHANGED sets
  BY DEF CompileExplicit
<1> HIDE DEF out
<1>5. cache' \in [Controllers -> [Names -> Entries \cup {None}]]
  BY <1>3, <1>4, StoreCache
<1> QED BY <1>3, <1>4, <1>5, CompiledJob DEF IInv, TypeOK, CompileExplicit

\* The model's answer compiles to one of the workloads; the request is noted.
LEMMA SynthesizeIInv ==
    ASSUME IInv, NEW c \in Controllers, Synthesize(c)
    PROVE  IInv'
<1>1. job[c].set \in Sets /\ job[c].name \in Names
  BY DEF IInv, TypeOK, LocalsOK, Jobs, Synthesize, NeedsModel
<1>2. job[c].set.spec \in {s \in Specs : ~IsExplicit(s)}
  BY <1>1 DEF Sets, Synthesize, NeedsModel
<1>3. PICK answer \in Answers :
        LET out == SynthesizedWorkload(job[c].name, job[c].set.spec, answer)
        IN  Compiled(c, out) /\ Store(c, out)
  BY DEF Synthesize
<1> DEFINE out == SynthesizedWorkload(job[c].name, job[c].set.spec, answer)
<1>4. out \in Workloads
  BY <1>1, <1>2 DEF Workloads, CompiledFor
<1>5. pc[c] = "compile" /\ Compiled(c, out) /\ Store(c, out) /\ UNCHANGED sets
  BY <1>3 DEF Synthesize, NeedsModel
<1> HIDE DEF out
<1>6. cache' \in [Controllers -> [Names -> Entries \cup {None}]]
  BY <1>4, <1>5, StoreCache
<1>7. Request(c) \in [name : Names, uid : Nat, gen : Nat \ {0}, spec : Specs]
  BY <1>1 DEF Request, Sets
<1>8. asked' \in [Controllers ->
                    SUBSET [name : Names, uid : Nat, gen : Nat \ {0}, spec : Specs]]
  BY <1>7 DEF Synthesize, IInv, TypeOK
<1> QED BY <1>4, <1>5, <1>6, <1>8, CompiledJob DEF IInv, TypeOK, Synthesize

\* A disturbance is counted.
LEMMA SpendType ==
    ASSUME IInv, NEW k \in Kinds, Spend(k)
    PROVE  spent' \in [Kinds -> Nat]
BY DEF IInv, TypeOK, Spend

\* Reconcile returns, with nothing written.
LEMMA ReturnIInv ==
    ASSUME IInv, NEW c \in Controllers, Return(c),
           UNCHANGED sets,
           asked' \in [Controllers ->
                         SUBSET [name : Names, uid : Nat, gen : Nat \ {0}, spec : Specs]],
           pods' \in [Pods -> PodObjects \cup {None}],
           work' \in [Controllers -> SUBSET Names],
           cache' \in [Controllers -> [Names -> Entries \cup {None}]],
           spent' \in [Kinds -> Nat]
    PROVE  IInv'
<1>1. NoJob \in Jobs
  BY DEF NoJob, Jobs
<1>2. TypeOK'
  BY <1>1 DEF IInv, TypeOK, LocalsOK, Return, Jobs
<1>3. FreshIsCurrent'
  BY DEF IInv, TypeOK, FreshIsCurrent, Return, NoJob
<1> QED BY <1>2, <1>3 DEF IInv

\* A failed synthesis leaves the job without a compilation.
LEMMA SynthesizeFailsIInv ==
    ASSUME IInv, NEW c \in Controllers, SynthesizeFails(c)
    PROVE  IInv'
<1>1. spent' \in [Kinds -> Nat]
  BY SpendType DEF SynthesizeFails, Kinds
<1> QED BY <1>1 DEF IInv, TypeOK, FreshIsCurrent, LocalsOK, SynthesizeFails, NeedsModel

\* A set deleted since the List is passed over.
LEMMA GetMissingIInv ==
    ASSUME IInv, NEW c \in Controllers, NEW n \in Names, GetMissing(c, n)
    PROVE  IInv'
BY DEF IInv, TypeOK, FreshIsCurrent, LocalsOK, GetMissing, TakeFromWork

\* A set whose Get fails is passed over.
LEMMA GetFailsIInv ==
    ASSUME IInv, NEW c \in Controllers, NEW n \in Names, GetFails(c, n)
    PROVE  IInv'
<1>1. spent' \in [Kinds -> Nat]
  BY SpendType DEF GetFails, Kinds
<1> QED BY <1>1 DEF IInv, TypeOK, FreshIsCurrent, LocalsOK, GetFails, TakeFromWork

\* A job whose list fields change keeps its identity.
LEMMA ListFields ==
    ASSUME IInv, NEW c \in Controllers, NEW todo \in Nat,
           NEW victims \in SUBSET Pods, NEW ready \in Nat,
           job' = [job EXCEPT ![c].todo = todo, ![c].victims = victims,
                              ![c].ready = ready],
           UNCHANGED sets
    PROVE  /\ job' \in [Controllers -> Jobs]
           /\ \A d \in Controllers :
                /\ job'[d].name = job[d].name
                /\ job'[d].set = job[d].set
                /\ job'[d].out = job[d].out
                /\ job'[d].fresh = job[d].fresh
                /\ d # c => job'[d] = job[d]
           /\ job'[c].todo = todo /\ job'[c].victims = victims /\ job'[c].ready = ready
           /\ FreshIsCurrent'
<1>1. job[c] \in Jobs
  BY DEF IInv, TypeOK
<1>2. /\ job' = [job EXCEPT ![c] = [job[c] EXCEPT !.todo = todo,
                                     !.victims = victims, !.ready = ready]]
      /\ [job[c] EXCEPT !.todo = todo, !.victims = victims, !.ready = ready] \in Jobs
  BY <1>1 DEF Jobs, IInv, TypeOK
<1>3. job' \in [Controllers -> Jobs]
  BY <1>2 DEF IInv, TypeOK
<1>4. \A d \in Controllers :
                /\ job'[d].name = job[d].name
                /\ job'[d].set = job[d].set
                /\ job'[d].out = job[d].out
                /\ job'[d].fresh = job[d].fresh
                /\ d # c => job'[d] = job[d]
  BY <1>1, <1>2 DEF IInv, TypeOK, Jobs
<1>5. job'[c].todo = todo /\ job'[c].victims = victims /\ job'[c].ready = ready
  BY <1>1, <1>2 DEF IInv, TypeOK, Jobs
<1>6. FreshIsCurrent
  BY DEF IInv
<1>7. FreshIsCurrent'
  <2> SUFFICES ASSUME NEW d \in Controllers, job'[d].fresh
               PROVE  /\ job'[d].name # None
                      /\ job'[d].set # None
                      /\ sets'[job'[d].name] = job'[d].set
    BY DEF FreshIsCurrent
  <2> QED BY <1>4, <1>6 DEF FreshIsCurrent
<1> QED BY <1>3, <1>4, <1>5, <1>7

\* What a compilation asks for is an integer.
LEMMA DesiredInt ==
    ASSUME IInv, NEW c \in Controllers, job[c].out # None
    PROVE  job[c].out \in Workloads /\ job[c].out.replicas \in Int
<1>1. job[c].out \in Workloads
  BY DEF IInv, TypeOK, Jobs
<1>2. job[c].out.replicas \in Scales
  BY <1>1 DEF Scales
<1> QED BY <1>1, <1>2, ScalesAssumption

\* A List computes how many pods are missing, and which are too many.
LEMMA ListPodsFacts ==
    ASSUME IInv, NEW c \in Controllers, ListPods(c)
    PROVE  LET live == Managed(job[c].name)
               size == Cardinality(live)
               desired == job[c].out.replicas
           IN  /\ live \in SUBSET Pods /\ IsFiniteSet(live)
               /\ size \in Nat /\ desired \in Int
               /\ job' \in [Controllers -> Jobs]
               /\ \A d \in Controllers :
                    /\ job'[d].name = job[d].name
                    /\ job'[d].set = job[d].set
                    /\ job'[d].out = job[d].out
                    /\ job'[d].fresh = job[d].fresh
                    /\ d # c => job'[d] = job[d] /\ pc'[d] = pc[d]
               /\ job'[c].todo = IF size < desired THEN desired - size ELSE 0
               /\ job'[c].victims = Excess(live, desired)
               /\ pc' \in [Controllers -> {"loop", "compile", "fail", "list",
                                           "create", "delete", "report"}]
               /\ pc'[c] \in {"create", "report", "delete"}
               /\ pc'[c] = "create" => size < desired
               /\ pc'[c] = "delete" => size > desired
               /\ FreshIsCurrent'
<1> DEFINE live == Managed(job[c].name)
           size == Cardinality(live)
           desired == job[c].out.replicas
           todo == IF size < desired THEN desired - size ELSE 0
           victims == Excess(live, desired)
           ready == Cardinality({p \in live : IsPodReady(p)})
<1>1. live \in SUBSET Pods /\ IsFiniteSet(live) /\ size \in Nat
  BY PodSetsFinite DEF Managed
<1>2. desired \in Int
  BY DesiredInt DEF IInv, TypeOK, LocalsOK, ListPods
<1>3. todo \in Nat
  BY <1>1, <1>2
<1>4. victims \in SUBSET Pods
  BY <1>1 DEF Excess
<1>5. ready \in Nat
  <2>1. {p \in live : IsPodReady(p)} \in SUBSET Pods
    BY <1>1
  <2> QED BY <2>1, PodSetsFinite
<1>6. /\ job' = [job EXCEPT ![c].todo = todo, ![c].victims = victims, ![c].ready = ready]
      /\ UNCHANGED sets
  BY DEF ListPods
<1>7. /\ pc' = [pc EXCEPT ![c] = pc'[c]]
      /\ pc'[c] \in {"create", "report", "delete"}
      /\ pc'[c] = "create" => size < desired
      /\ pc'[c] = "delete" => size > desired
  <2>1. pc' = [pc EXCEPT ![c] = CASE size < desired -> "create"
                                  [] size = desired -> "report"
                                  [] size > desired -> "delete"]
    BY DEF ListPods
  <2>2. pc \in [Controllers -> {"loop", "compile", "fail", "list", "create",
                               "delete", "report"}]
    BY DEF IInv, TypeOK
  <2> HIDE DEF live, size, desired
  <2>3. CASE size < desired
    <3>1. size # desired /\ ~(size > desired)
      BY <1>1, <1>2, <2>3
    <3>2. pc' = [pc EXCEPT ![c] = "create"]
      BY <2>1, <2>3, <3>1
    <3> QED BY <2>2, <2>3, <3>2
  <2>4. CASE size = desired
    <3>1. ~(size < desired) /\ ~(size > desired)
      BY <1>1, <1>2, <2>4
    <3>2. pc' = [pc EXCEPT ![c] = "report"]
      BY <2>1, <2>4, <3>1
    <3> QED BY <2>2, <3>2
  <2>5. CASE size > desired
    <3>1. ~(size < desired) /\ size # desired
      BY <1>1, <1>2, <2>5
    <3>2. pc' = [pc EXCEPT ![c] = "delete"]
      BY <2>1, <2>5, <3>1
    <3> QED BY <2>2, <2>5, <3>2
  <2> QED BY <1>1, <1>2, <2>3, <2>4, <2>5
<1>8. pc[c] = "list" /\ UNCHANGED <<pods, work, cache, asked, spent>>
  BY DEF ListPods
<1> HIDE DEF live, size, desired, todo, victims, ready
<1>9. /\ job' \in [Controllers -> Jobs]
      /\ \A d \in Controllers :
           /\ job'[d].name = job[d].name
           /\ job'[d].set = job[d].set
           /\ job'[d].out = job[d].out
           /\ job'[d].fresh = job[d].fresh
           /\ d # c => job'[d] = job[d]
      /\ job'[c].todo = todo /\ job'[c].victims = victims /\ job'[c].ready = ready
      /\ FreshIsCurrent'
  BY <1>3, <1>4, <1>5, <1>6, ListFields
<1>10. /\ pc' \in [Controllers -> {"loop", "compile", "fail", "list", "create",
                                  "delete", "report"}]
       /\ \A d \in Controllers : d # c => pc'[d] = pc[d]
  <2>1. pc \in [Controllers -> {"loop", "compile", "fail", "list", "create",
                               "delete", "report"}]
    BY DEF IInv, TypeOK
  <2>2. PICK step \in {"create", "report", "delete"} : pc' = [pc EXCEPT ![c] = step]
    BY <1>7
  <2> QED BY <2>1, <2>2
<1> QED BY <1>1, <1>2, <1>7, <1>9, <1>10 DEF live, size, desired, todo, victims

\* After the List there is something to create, or victims, or a status to write.
LEMMA ListPodsIInv ==
    ASSUME IInv, NEW c \in Controllers, ListPods(c)
    PROVE  IInv'
<1>1. pc[c] = "list" /\ UNCHANGED <<sets, pods, work, cache, asked, spent>>
  BY DEF ListPods
<1>2. /\ \A d \in Controllers :
           /\ job'[d].name = job[d].name
           /\ job'[d].set = job[d].set
           /\ job'[d].out = job[d].out
           /\ d # c => job'[d] = job[d] /\ pc'[d] = pc[d]
      /\ pc'[c] \in {"create", "report", "delete"}
      /\ pc'[c] = "create" => job'[c].todo > 0
  BY ListPodsFacts
<1>3. ASSUME NEW d \in Controllers PROVE LocalsOK(d)'
  <2>1. LocalsOK(d)
    BY DEF IInv, TypeOK
  <2>2. CASE d = c
    BY <1>1, <1>2, <2>1, <2>2 DEF LocalsOK
  <2>3. CASE d # c
    BY <1>2, <2>1, <2>3 DEF LocalsOK
  <2> QED BY <2>2, <2>3
<1> QED BY <1>1, <1>3, ListPodsFacts DEF IInv, TypeOK

\* A failed List ends the reconcile.
LEMMA ListPodsFailsIInv ==
    ASSUME IInv, NEW c \in Controllers, ListPodsFails(c)
    PROVE  IInv'
<1>1. spent' \in [Kinds -> Nat]
  BY SpendType DEF ListPodsFails, Kinds
<1> QED BY <1>1, ReturnIInv DEF IInv, TypeOK, ListPodsFails

\* A pod made from the compiled template.
LEMMA NewPodType ==
    ASSUME IInv, NEW c \in Controllers, pc[c] = "create"
    PROVE  NewPod(c) \in PodObjects
<1>1. job[c].out \in Workloads
  BY DesiredInt DEF IInv, TypeOK, LocalsOK
<1>2. job[c].name \in Names /\ job[c].set \in Sets
  BY DEF IInv, TypeOK, LocalsOK, Jobs
<1> QED BY <1>1, <1>2 DEF NewPod, PodObjects, Phases, ActivePhases, Sets

\* A creation leaves something to create or goes on to the status.
LEMMA CreatePodIInv ==
    ASSUME IInv, NEW c \in Controllers, NEW p \in Pods, CreatePod(c, p)
    PROVE  IInv'
<1>1. job[c] \in Jobs /\ job[c].todo > 0 /\ pc[c] = "create"
  BY DEF IInv, TypeOK, LocalsOK, CreatePod
<1>2. /\ job' = [job EXCEPT ![c] = [job[c] EXCEPT !.todo = @ - 1]]
      /\ [job[c] EXCEPT !.todo = @ - 1] \in Jobs
  BY <1>1 DEF CreatePod, Jobs
<1>3. pods' \in [Pods -> PodObjects \cup {None}]
  BY <1>1, NewPodType DEF IInv, TypeOK, CreatePod, FreeNames
<1>4. job' \in [Controllers -> Jobs]
  BY <1>2 DEF IInv, TypeOK
<1>5. \A d \in Controllers : LocalsOK(d)'
  BY <1>1, <1>2 DEF IInv, TypeOK, LocalsOK, CreatePod, Jobs
<1>6. FreshIsCurrent'
  BY <1>1, <1>2 DEF IInv, TypeOK, FreshIsCurrent, CreatePod, Jobs
<1> QED BY <1>3, <1>4, <1>5, <1>6 DEF IInv, TypeOK, CreatePod

\* A failed creation ends the reconcile, with the pod made or not.
LEMMA CreateFailsIInv ==
    ASSUME IInv, NEW c \in Controllers, CreateFails(c)
    PROVE  IInv'
<1>1. spent' \in [Kinds -> Nat]
  BY SpendType DEF CreateFails, Kinds, IInv, TypeOK
<1>2. pods' \in [Pods -> PodObjects \cup {None}]
  BY NewPodType DEF IInv, TypeOK, CreateFails
<1> QED BY <1>1, <1>2, ReturnIInv DEF IInv, TypeOK, CreateFails

\* A victim is dealt with.
LEMMA PastVictimIInv ==
    ASSUME IInv, NEW c \in Controllers, NEW p \in Pods,
           pc[c] = "delete", PastVictim(c, p),
           pods' \in [Pods -> PodObjects \cup {None}],
           spent' \in [Kinds -> Nat],
           UNCHANGED <<sets, work, cache, asked>>
    PROVE  IInv'
<1> DEFINE left == job[c].victims \ {p}
<1>1. job[c] \in Jobs /\ left \in SUBSET Pods
  BY DEF IInv, TypeOK, Jobs
<1> HIDE DEF left
<1>2. /\ job' = [job EXCEPT ![c] = [job[c] EXCEPT !.victims = left]]
      /\ [job[c] EXCEPT !.victims = left] \in Jobs
  BY <1>1 DEF PastVictim, Jobs, left
<1>3. /\ pc' \in [Controllers -> {"loop", "compile", "fail", "list", "create",
                                  "delete", "report"}]
      /\ pc' = [pc EXCEPT ![c] = pc'[c]]
      /\ pc'[c] \in {"report", "delete"}
  BY DEF PastVictim, IInv, TypeOK
<1>4. job' \in [Controllers -> Jobs]
  BY <1>2 DEF IInv, TypeOK
<1>5. \A d \in Controllers : LocalsOK(d)'
  BY <1>1, <1>2, <1>3 DEF IInv, TypeOK, LocalsOK, Jobs
<1>6. FreshIsCurrent'
  BY <1>1, <1>2 DEF IInv, TypeOK, FreshIsCurrent, Jobs
<1> QED BY <1>3, <1>4, <1>5, <1>6 DEF IInv, TypeOK

\* An existing pod changes its phase.
LEMMA SetPhaseType ==
    ASSUME IInv, NEW p, pods[p] # None, NEW phase \in Phases, SetPhase(p, phase)
    PROVE  pods' \in [Pods -> PodObjects \cup {None}]
<1>1. ASSUME NEW q \in Pods
      PROVE  pods'[q] \in PodObjects \cup {None}
  <2>1. CASE q = p
    <3>1. pods[p] \in PodObjects
      BY <2>1 DEF IInv, TypeOK
    <3>2. [pods[p] EXCEPT !.phase = phase] \in PodObjects
      BY <3>1 DEF PodObjects
    <3> QED BY <2>1, <3>2 DEF SetPhase, IInv, TypeOK
  <2>2. CASE q # p
    BY <2>2 DEF SetPhase, IInv, TypeOK
  <2> QED BY <2>1, <2>2
<1> QED BY <1>1 DEF SetPhase, IInv, TypeOK

\* A deletion marks the pod and passes the victim.
LEMMA DeletePodIInv ==
    ASSUME IInv, NEW c \in Controllers, NEW p \in Pods, DeletePod(c, p)
    PROVE  IInv'
<1>1. pods' \in [Pods -> PodObjects \cup {None}]
  <2>1. CASE pods[p] = None
    BY <2>1 DEF DeletePod, IInv, TypeOK
  <2>2. CASE pods[p] # None
    BY <2>2, SetPhaseType DEF DeletePod, Phases
  <2> QED BY <2>1, <2>2
<1> QED BY <1>1, PastVictimIInv DEF DeletePod, IsNextVictim, IInv, TypeOK

\* A failed deletion passes the victim.
LEMMA DeleteFailsIInv ==
    ASSUME IInv, NEW c \in Controllers, NEW p \in Pods, DeleteFails(c, p)
    PROVE  IInv'
<1>1. spent' \in [Kinds -> Nat]
  BY SpendType DEF DeleteFails, Kinds
<1> QED BY <1>1, PastVictimIInv DEF DeleteFails, IsNextVictim, IInv, TypeOK

\* The process starts again with an empty cache.
LEMMA RestartIInv ==
    ASSUME IInv, NEW c \in Controllers, Restart(c), spent' \in [Kinds -> Nat]
    PROVE  IInv'
<1>1. /\ cache' \in [Controllers -> [Names -> Entries \cup {None}]]
      /\ work' \in [Controllers -> SUBSET Names]
      /\ asked' \in [Controllers ->
                       SUBSET [name : Names, uid : Nat, gen : Nat \ {0}, spec : Specs]]
  BY DEF Restart, IInv, TypeOK
<1> QED BY <1>1, ReturnIInv DEF Restart, IInv, TypeOK

\* Every other reader of a set that is written is outdated.
LEMMA WriteStatusIInv ==
    ASSUME IInv, NEW c \in Controllers, NEW status \in Statuses,
           pc[c] # "loop", WriteStatus(c, status)
    PROVE  IInv'
<1> DEFINE n == job[c].name
<1>1. n \in Names /\ job[c].set \in Sets /\ sets[n] = job[c].set
  BY DEF IInv, TypeOK, LocalsOK, FreshIsCurrent, Jobs, WriteStatus
<1>2. [sets[n] EXCEPT !.status = status] \in Sets
  BY <1>1 DEF Sets
<1>3. sets' = [sets EXCEPT ![n] = [sets[n] EXCEPT !.status = status]]
  BY DEF WriteStatus
<1>4. sets' \in [Names -> Sets \cup {None}]
  BY <1>1, <1>2, <1>3 DEF IInv, TypeOK
<1>5. NoJob \in Jobs
  BY DEF NoJob, Jobs
<1>6. ASSUME NEW d \in Controllers
      PROVE  /\ job'[d] \in Jobs
             /\ d = c => job'[d] = NoJob
             /\ d # c => /\ job'[d].name = job[d].name
                         /\ job'[d].set = job[d].set
                         /\ job'[d].out = job[d].out
                         /\ job'[d].todo = job[d].todo
                         /\ job'[d].victims = job[d].victims
                         /\ job'[d].fresh => job[d].fresh /\ job[d].name # n
  BY <1>5 DEF WriteStatus, Outdated, IInv, TypeOK, Jobs
<1>7. job' \in [Controllers -> Jobs]
  BY <1>6 DEF WriteStatus, Outdated, IInv, TypeOK
<1>8. ASSUME NEW d \in Controllers
      PROVE  LocalsOK(d)'
  <2>1. /\ d = c => pc'[d] = "loop"
        /\ d # c => pc'[d] = pc[d]
    BY DEF WriteStatus, IInv, TypeOK
  <2>2. LocalsOK(d)
    BY DEF IInv, TypeOK
  <2> HIDE DEF n
  <2>3. CASE d = c
    BY <2>1, <2>3 DEF LocalsOK
  <2>4. CASE d # c
    BY <1>6, <2>1, <2>2, <2>4 DEF LocalsOK
  <2> QED BY <2>3, <2>4
<1>9. ASSUME NEW d \in Controllers, job'[d].fresh
      PROVE  /\ job'[d].name # None
             /\ job'[d].set # None
             /\ sets'[job'[d].name] = job'[d].set
  <2>1. d # c
    BY <1>6, <1>9 DEF NoJob
  <2>2. /\ job[d].name # None /\ job[d].set # None
        /\ sets[job[d].name] = job[d].set /\ job[d].name # n
    <3>1. job[d].fresh /\ job[d].name # n
      BY <1>6, <1>9, <2>1
    <3> QED BY <3>1 DEF IInv, FreshIsCurrent
  <2>3. job[d].name \in Names
    BY <2>2 DEF IInv, TypeOK, Jobs
  <2>4. sets'[job[d].name] = sets[job[d].name]
    BY <1>3, <2>2, <2>3 DEF IInv, TypeOK
  <2> QED BY <1>6, <2>1, <2>2, <2>4
<1>10. FreshIsCurrent'
  BY <1>9 DEF FreshIsCurrent
<1> QED BY <1>4, <1>7, <1>8, <1>10 DEF WriteStatus, IInv, TypeOK

\* The status after a failed compilation is a status.
LEMMA FailureWrites ==
    ASSUME IInv, NEW c \in Controllers, ReportFailure(c)
    PROVE  \E status \in Statuses : pc[c] # "loop" /\ WriteStatus(c, status)
<1> DEFINE status == [job[c].set.status EXCEPT
                        !.ai = "Failed",
                        !.conds = Append(@, Condition("AICompiled", FALSE))]
<1>1. job[c].set.status \in Statuses
  BY DEF IInv, TypeOK, LocalsOK, Jobs, Sets, ReportFailure
<1>2. Condition("AICompiled", FALSE) \in Conditions
  BY DEF Condition, Conditions
<1>3. Append(job[c].set.status.conds, Condition("AICompiled", FALSE)) \in Seq(Conditions)
  <2>1. job[c].set.status.conds \in Seq(Conditions)
    BY <1>1 DEF Statuses
  <2> QED BY <1>2, <2>1, AppendProperties
<1>4. status \in Statuses
  BY <1>1, <1>3 DEF Statuses
<1>5. pc[c] # "loop" /\ WriteStatus(c, status)
  BY DEF ReportFailure
<1> HIDE DEF status
<1> QED BY <1>4, <1>5

\* The status after a successful reconcile is a status.
LEMMA ReportWrites ==
    ASSUME IInv, NEW c \in Controllers, Report(c)
    PROVE  \E status \in Statuses : pc[c] # "loop" /\ WriteStatus(c, status)
<1> DEFINE status ==
             [replicas |-> job[c].out.replicas,
              ready    |-> job[c].ready,
              observed |-> job[c].set.gen,
              ai       |-> "Completed",
              conds    |-> <<Condition("Available", job[c].ready = job[c].out.replicas
                                                      /\ job[c].out.replicas > 0),
                             Condition("AICompiled", TRUE)>>]
<1>1. job[c].ready \in Nat /\ job[c].set \in Sets
  BY DEF IInv, TypeOK, LocalsOK, Jobs, Report
<1>2. job[c].out.replicas \in Int
  BY DesiredInt DEF IInv, TypeOK, LocalsOK, Report
<1>3. \A ok \in BOOLEAN : <<Condition("Available", ok), Condition("AICompiled", TRUE)>>
                             \in Seq(Conditions)
  BY DEF Condition, Conditions
<1>4. status \in Statuses
  BY <1>1, <1>2, <1>3 DEF Statuses, Sets
<1>5. pc[c] # "loop" /\ WriteStatus(c, status)
  BY DEF Report
<1> HIDE DEF status
<1> QED BY <1>4, <1>5

\* Both status writes keep the invariant.
LEMMA ReportIInv ==
    ASSUME IInv, NEW c \in Controllers, ReportFailure(c) \/ Report(c)
    PROVE  IInv'
BY FailureWrites, ReportWrites, WriteStatusIInv

\* A refused status write ends the reconcile.
LEMMA ReportConflictIInv ==
    ASSUME IInv, NEW c \in Controllers, ReportConflict(c)
    PROVE  IInv'
BY ReturnIInv DEF ReportConflict, IInv, TypeOK

\* A lost status write ends the reconcile.
LEMMA ReportFailsIInv ==
    ASSUME IInv, NEW c \in Controllers, ReportFails(c)
    PROVE  IInv'
<1>1. spent' \in [Kinds -> Nat]
  BY SpendType DEF ReportFails, Kinds
<1> QED BY <1>1, ReturnIInv DEF ReportFails, IInv, TypeOK

\* The process dies of the negative scale.
LEMMA PanicIInv ==
    ASSUME IInv, NEW c \in Controllers, Panic(c)
    PROVE  IInv'
BY RestartIInv DEF Panic, IInv, TypeOK

\* The process is killed.
LEMMA CrashIInv ==
    ASSUME IInv, NEW c \in Controllers, Crash(c)
    PROVE  IInv'
BY RestartIInv, SpendType DEF Crash, Kinds

\* A user's write leaves every reader of the set with an old version.
LEMMA OutdatedIInv ==
    ASSUME IInv, NEW n \in Names, NEW object \in Sets \cup {None},
           sets' = [sets EXCEPT ![n] = object],
           job' = Outdated(n) \/ (sets[n] = None /\ UNCHANGED job),
           UNCHANGED <<pods, pc, work, cache, asked>>,
           spent' \in [Kinds -> Nat],
           sets[n] = None => \A c \in Controllers : job[c].fresh => job[c].name # n
    PROVE  IInv'
<1>1. ASSUME NEW d \in Controllers
      PROVE  /\ job'[d] \in Jobs
             /\ job'[d].name = job[d].name
             /\ job'[d].set = job[d].set
             /\ job'[d].out = job[d].out
             /\ job'[d].todo = job[d].todo
             /\ job'[d].fresh => job[d].fresh /\ job[d].name # n
  <2>1. job[d] \in Jobs
    BY DEF IInv, TypeOK
  <2>2. CASE sets[n] = None /\ UNCHANGED job
    BY <2>1, <2>2
  <2>3. CASE job' = Outdated(n)
    <3>1. job'[d] = IF job[d].name = n THEN [job[d] EXCEPT !.fresh = FALSE] ELSE job[d]
      BY <2>3 DEF Outdated
    <3>2. CASE job[d].name = n
      BY <2>1, <3>1, <3>2 DEF Jobs
    <3>3. CASE job[d].name # n
      BY <2>1, <3>1, <3>3
    <3> QED BY <3>2, <3>3
  <2> QED BY <2>2, <2>3
<1>2. job' \in [Controllers -> Jobs]
  BY <1>1 DEF Outdated, IInv, TypeOK
<1>3. \A d \in Controllers : LocalsOK(d)'
  BY <1>1 DEF IInv, TypeOK, LocalsOK
<1>4. ASSUME NEW d \in Controllers, job'[d].fresh
      PROVE  /\ job'[d].name # None
             /\ job'[d].set # None
             /\ sets'[job'[d].name] = job'[d].set
  <2>1. /\ job[d].name # None /\ job[d].set # None
        /\ sets[job[d].name] = job[d].set /\ job[d].name # n
    BY <1>1, <1>4 DEF IInv, FreshIsCurrent
  <2>2. job[d].name \in Names
    BY <2>1 DEF IInv, TypeOK, Jobs
  <2>3. sets'[job[d].name] = sets[job[d].name]
    BY <2>1, <2>2 DEF IInv, TypeOK
  <2> QED BY <1>1, <2>1, <2>3
<1>5. FreshIsCurrent'
  BY <1>4 DEF FreshIsCurrent
<1> QED BY <1>2, <1>3, <1>5 DEF IInv, TypeOK

\* A new set is a set.
LEMMA CreateSetIInv ==
    ASSUME IInv, NEW n \in Names, NEW spec \in Specs, CreateSet(n, spec)
    PROVE  IInv'
<1> DEFINE object == [uid |-> spent["edit"] + 1, gen |-> 1,
                      spec |-> spec, status |-> NoStatus]
<1>1. spent' \in [Kinds -> Nat]
  BY SpendType DEF CreateSet, Kinds
<1>2. NoStatus \in Statuses
  BY DEF NoStatus, Statuses
<1>3. object \in Sets
  BY <1>2 DEF Sets, IInv, TypeOK, Kinds
<1>4. \A c \in Controllers : job[c].fresh => job[c].name # n
  BY DEF IInv, FreshIsCurrent, CreateSet
<1>5. sets' = [sets EXCEPT ![n] = object] /\ UNCHANGED <<pods, pc, work, job, cache, asked>>
      /\ sets[n] = None
  BY DEF CreateSet
<1> HIDE DEF object
<1> QED BY <1>1, <1>3, <1>4, <1>5, OutdatedIInv

\* An edited set is a set.
LEMMA EditSpecIInv ==
    ASSUME IInv, NEW n \in Names, NEW spec \in Specs, EditSpec(n, spec)
    PROVE  IInv'
<1> DEFINE object == [sets[n] EXCEPT !.spec = spec, !.gen = @ + 1]
<1>1. spent' \in [Kinds -> Nat]
  BY SpendType DEF EditSpec, Kinds
<1>2. sets[n] # None /\ sets[n] \in Sets
  BY DEF EditSpec, IInv, TypeOK
<1>3. object \in Sets
  <2>1. sets[n].gen + 1 \in Nat \ {0}
    BY <1>2 DEF Sets
  <2> QED BY <1>2, <2>1 DEF Sets
<1>4. sets' = [sets EXCEPT ![n] = object] /\ job' = Outdated(n)
      /\ UNCHANGED <<pods, pc, work, cache, asked>>
  BY <1>2 DEF EditSpec, IInv, TypeOK, Sets
<1> HIDE DEF object
<1> QED BY <1>1, <1>2, <1>3, <1>4, OutdatedIInv

\* A deleted set leaves None.
LEMMA DeleteSetIInv ==
    ASSUME IInv, NEW n \in Names, DeleteSet(n)
    PROVE  IInv'
<1>1. spent' \in [Kinds -> Nat]
  BY SpendType DEF DeleteSet, Kinds
<1> QED BY <1>1, OutdatedIInv DEF DeleteSet

\* The cluster only changes phases of pods and removes them.
LEMMA PodsOnlyIInv ==
    ASSUME IInv, ControllerUnchanged,
           pods' \in [Pods -> PodObjects \cup {None}], spent' \in [Kinds -> Nat]
    PROVE  IInv'
BY DEF ControllerUnchanged, IInv, TypeOK, FreshIsCurrent, LocalsOK

\* The kubelet, the garbage collector and disruptions keep the invariant.
LEMMA KubernetesIInv ==
    ASSUME IInv, Kubernetes
    PROVE  IInv'
<1>1. PICK p \in Pods :
        Removal(p) \/ Collection(p) \/ KubeletReport(p) \/ Disruption(p)
  BY DEF Kubernetes
<1>2. CASE Removal(p)
  BY <1>2, PodsOnlyIInv DEF Removal, PodRemoved, IInv, TypeOK
<1>3. CASE Collection(p)
  <2>1. pods' \in [Pods -> PodObjects \cup {None}]
    BY <1>3, SetPhaseType DEF Collection, GarbageCollect, Phases
  <2> QED BY <1>3, <2>1, PodsOnlyIInv DEF Collection, IInv, TypeOK
<1>4. CASE KubeletReport(p)
  <2>1. pods' \in [Pods -> PodObjects \cup {None}]
    BY <1>4, SetPhaseType
       DEF KubeletReport, PodStarts, PodProbed, Phases, ActivePhases
  <2> QED BY <1>4, <2>1, PodsOnlyIInv, SpendType DEF KubeletReport, Kinds
<1>5. CASE Disruption(p)
  <2>1. pods' \in [Pods -> PodObjects \cup {None}]
    BY <1>5, SetPhaseType DEF Disruption, Disrupted, Active, Phases
  <2> QED BY <1>5, <2>1, PodsOnlyIInv, SpendType DEF Disruption, Kinds
<1> QED BY <1>1, <1>2, <1>3, <1>4, <1>5

\* Every step preserves the invariant, one action at a time.
LEMMA NextIInv == IInv /\ [Next]_vars => IInv'
<1> SUFFICES ASSUME IInv, [Next]_vars PROVE IInv'
  OBVIOUS
<1>1. ASSUME NEW c \in Controllers, Step(c) PROVE IInv'
  BY <1>1, TickIInv, GetIInv, GetMissingIInv, CacheHitIInv, CompileExplicitIInv,
     SynthesizeIInv, ListPodsIInv, CreatePodIInv, DeletePodIInv, PanicIInv,
     ReportIInv, ReportConflictIInv DEF Step, Call
<1>2. ASSUME NEW c \in Controllers, Fault(c) PROVE IInv'
  BY <1>2, GetFailsIInv, SynthesizeFailsIInv, ListPodsFailsIInv, CreateFailsIInv,
     DeleteFailsIInv, ReportFailsIInv, CrashIInv DEF Fault, CallFails
<1>3. CASE User
  BY <1>3, CreateSetIInv, EditSpecIInv, DeleteSetIInv DEF User
<1>4. CASE Kubernetes
  BY <1>4, KubernetesIInv
<1>5. CASE UNCHANGED vars
  BY <1>5 DEF vars, IInv, TypeOK, FreshIsCurrent, LocalsOK
<1> QED BY <1>1, <1>2, <1>3, <1>4, <1>5 DEF Next

\* Every reachable state has the shape the code gives it, the locals a
\* reconcile dereferences are there when it does, and a job whose resource
\* version is current holds the current set.
THEOREM Inductive == Spec => []IInv
BY InitIInv, NextIInv, PTL DEF Spec

\* The state keeps its type, as TypeOK says.
THEOREM TypeCorrect == Spec => []TypeOK
BY Inductive, PTL DEF IInv
=============================================================================
