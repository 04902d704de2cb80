----------------------------- MODULE Controller -----------------------------
(***************************************************************************)
(* The GeminiSet controller (pkg/controller/controller.go with the cache   *)
(* of pkg/controller/compiler.go), one or more instances of it, running    *)
(* against the cluster of Cluster.tla and the users who edit GeminiSets.   *)
(*                                                                         *)
(* Controller.Start lists the sets on every tick and calls Reconcile on    *)
(* each in turn; Reconcile makes one API call after another, and anything  *)
(* may happen to the cluster between two of them.  pc[c] is the call that  *)
(* controller c makes next; an action is that call with the code up to the *)
(* next one.  The mutex of Reconcile is never contended: Start is its only *)
(* caller.                                                                 *)
(***************************************************************************)
EXTENDS Cluster, Sequences

INSTANCE WorkloadCompiler

CONSTANTS Controllers,  \* controller processes alive at the same time
          Specs,        \* specifications a user may write
          Malformed,    \* those that do not fit the Go types
          Answers,      \* replies the model may give to a synthesis request
          PrefixOf,     \* the set whose name a pod name starts with
          Limit         \* how often each kind of disturbance may happen

\* The disturbances that are bounded: a user's create or edit, a user's
\* delete, a failed API or model call, a crash of a controller, a pod failing
\* or deleted by others, a kubelet's report.
Kinds == {"edit", "delete", "fault", "crash", "disrupt", "kubelet"}

ASSUME PrefixAssumption == PrefixOf \in [Pods -> Names]

ASSUME LimitAssumption == Limit \in [Kinds -> Nat]

\* What the specifications and the answers can compile to for set n ...
CompiledFor(n) ==
    {ExplicitWorkload(n, spec) : spec \in {s \in Specs : IsExplicit(s)}}
      \cup {SynthesizedWorkload(n, spec, answer) :
              spec \in {s \in Specs : ~IsExplicit(s)}, answer \in Answers}

\* ... and for any set.
Workloads == UNION {CompiledFor(n) : n \in Names}

Scales == {out.replicas : out \in Workloads}

ASSUME ScalesAssumption == Scales \subseteq Int

\* What may be cached.
Entries == [hash : {SpecHash(spec) : spec \in Specs}, out : Workloads]

\* What the API server holds of a set and of a pod.
Conditions == [type : {"AICompiled", "Available"}, ok : BOOLEAN]

Statuses == [replicas : Int, ready : Nat, observed : Nat,
             ai : {None, "Completed", "Failed"}, conds : Seq(Conditions)]

Sets == [uid : Nat, gen : Nat \ {0}, spec : Specs, status : Statuses]

PodObjects == [phase : Phases, owner : [name : Names, uid : Nat],
               pod : {out.pod : out \in Workloads}, by : Controllers]

\* None is the absence of any of these.
ASSUME NoneAssumption ==
    None \notin Names \cup Workloads \cup Entries \cup Sets \cup PodObjects

VARIABLES pc,     \* the step each controller is at
          work,   \* names still to reconcile in each controller's round
          job,    \* the locals of each controller's Reconcile
          cache,  \* WorkloadCompiler.cache of each controller
          asked,  \* history: the set versions the model has compiled for the
                  \* process as it runs now
          spent   \* disturbances so far, by kind

vars == <<sets, pods, pc, work, job, cache, asked, spent>>

NoJob == [name |-> None, set |-> None, out |-> None, todo |-> 0,
          victims |-> {}, ready |-> 0, fresh |-> FALSE]

NoStatus == [replicas |-> 0, ready |-> 0, observed |-> 0, ai |-> None,
             conds |-> <<>>]

Init ==
    /\ sets = [n \in Names |-> None]
    /\ pods = [p \in Pods |-> None]
    /\ pc = [c \in Controllers |-> "loop"]
    /\ work = [c \in Controllers |-> {}]
    /\ job = [c \in Controllers |-> NoJob]
    /\ cache = [c \in Controllers |-> [n \in Names |-> None]]
    /\ asked = [c \in Controllers |-> {}]
    /\ spent = [k \in Kinds |-> 0]

Spend(k) == spent[k] < Limit[k] /\ spent' = [spent EXCEPT ![k] = @ + 1]

-----------------------------------------------------------------------------
(***************************************************************************)
(* The round: List every set, reconcile each (in the order of their names; *)
(* here in any).  A List that fails leaves everything as it is.            *)
(***************************************************************************)
\* The set exists and converts: the CRD takes any template and any integer.
Converts(n) == sets[n] # None /\ sets[n].spec \notin Malformed

\* A set that does not convert is skipped without a word.
ListedSets == {n \in Names : Converts(n)}

\* Mutant: only sets whose generation has not been observed are reconciled.
TickChanged(c) ==
    /\ pc[c] = "loop"
    /\ work[c] = {}
    /\ work' = [work EXCEPT ![c] =
                  {n \in ListedSets : sets[n].status.observed # sets[n].gen}]
    /\ UNCHANGED <<sets, pods, pc, job, cache, asked, spent>>

Tick(c) ==
    /\ pc[c] = "loop"
    /\ work[c] = {}
    /\ work' = [work EXCEPT ![c] = ListedSets]
    /\ UNCHANGED <<sets, pods, pc, job, cache, asked, spent>>

TakeFromWork(c, n) ==
    /\ pc[c] = "loop"
    /\ n \in work[c]
    /\ work' = [work EXCEPT ![c] = @ \ {n}]

\* Get: the set as it is now; fresh says whether the resource version read
\* here is still the current one.
Get(c, n) ==
    /\ TakeFromWork(c, n)
    /\ Converts(n)
    /\ job' = [job EXCEPT ![c] = [NoJob EXCEPT !.name = n, !.set = sets[n],
                                               !.fresh = TRUE]]
    /\ pc' = [pc EXCEPT ![c] = "compile"]
    /\ UNCHANGED <<sets, pods, cache, asked, spent>>

\* Since the List the set was deleted (Reconcile returns nil) or edited so that
\* it does not convert any more (it returns an error): the next one is taken.
GetMissing(c, n) ==
    /\ TakeFromWork(c, n)
    /\ ~Converts(n)
    /\ UNCHANGED <<sets, pods, pc, job, cache, asked, spent>>

GetFails(c, n) ==
    /\ TakeFromWork(c, n)
    /\ Spend("fault")
    /\ UNCHANGED <<sets, pods, pc, job, cache, asked>>

\* Reconcile returns.
Return(c) ==
    /\ pc' = [pc EXCEPT ![c] = "loop"]
    /\ job' = [job EXCEPT ![c] = NoJob]

-----------------------------------------------------------------------------
(***************************************************************************)
(* Compile.                                                                *)
(***************************************************************************)
Hit(c) ==
    LET entry == cache[c][job[c].name]
    IN  entry # None /\ entry.hash = SpecHash(job[c].set.spec)

Compiled(c, out) ==
    /\ job' = [job EXCEPT ![c].out = out]
    /\ pc' = [pc EXCEPT ![c] = "list"]

\* Mutant: nothing is cached.
StoreNothing(c, out) == UNCHANGED cache

Store(c, out) ==
    cache' = [cache EXCEPT ![c][job[c].name] =
                [hash |-> SpecHash(job[c].set.spec), out |-> out]]

\* Mutant: entries are found by their fingerprint alone.
CacheHitShared(c) ==
    /\ pc[c] = "compile"
    /\ \E n \in Names :
         /\ cache[c][n] # None
         /\ cache[c][n].hash = SpecHash(job[c].set.spec)
         /\ Compiled(c, cache[c][n].out)
    /\ UNCHANGED <<sets, pods, work, cache, asked, spent>>

CacheHit(c) ==
    /\ pc[c] = "compile"
    /\ Hit(c)
    /\ Compiled(c, cache[c][job[c].name].out)
    /\ UNCHANGED <<sets, pods, work, cache, asked, spent>>

CompileExplicit(c) ==
    /\ pc[c] = "compile"
    /\ ~Hit(c)
    /\ IsExplicit(job[c].set.spec)
    /\ LET out == ExplicitWorkload(job[c].name, job[c].set.spec)
       IN  Compiled(c, out) /\ Store(c, out)
    /\ UNCHANGED <<sets, pods, work, asked, spent>>

\* The model must be asked.
NeedsModel(c) ==
    /\ pc[c] = "compile"
    /\ ~Hit(c)
    /\ ~IsExplicit(job[c].set.spec)

Request(c) ==
    [name |-> job[c].name, uid |-> job[c].set.uid, gen |-> job[c].set.gen,
     spec |-> job[c].set.spec]

Synthesize(c) ==
    /\ NeedsModel(c)
    /\ \E answer \in Answers :
         LET out == SynthesizedWorkload(job[c].name, job[c].set.spec, answer)
         IN  Compiled(c, out) /\ Store(c, out)
    /\ asked' = [asked EXCEPT ![c] = @ \cup {Request(c)}]
    /\ UNCHANGED <<sets, pods, work, spent>>

SynthesizeFails(c) ==
    /\ NeedsModel(c)
    /\ Spend("fault")
    /\ pc' = [pc EXCEPT ![c] = "fail"]
    /\ UNCHANGED <<sets, pods, work, job, cache, asked>>

-----------------------------------------------------------------------------
(***************************************************************************)
(* The pods: list them, then create what is missing or delete what is too  *)
(* many.                                                                   *)
(***************************************************************************)
\* isPodReady: its loop over the conditions decides nothing, every running
\* pod counts.
IsPodReady(p) == pods[p].phase \in {"Running", "Ready"}

\* Mutant: one victim too many.
ExcessOffByOne(live, d) ==
    {p \in live : Cardinality({q \in live : q < p}) >= d - 1}

\* The last Len(live) - d elements of live, in the order of the names.
Excess(live, d) == {p \in live : Cardinality({q \in live : q < p}) >= d}

ListPods(c) ==
    /\ pc[c] = "list"
    /\ LET live == Managed(job[c].name)
           size == Cardinality(live)
           desired == job[c].out.replicas
       IN  /\ job' = [job EXCEPT
                 ![c].todo = IF size < desired THEN desired - size ELSE 0,
                 ![c].victims = Excess(live, desired),
                 ![c].ready = Cardinality({p \in live : IsPodReady(p)})]
           /\ pc' = [pc EXCEPT ![c] = CASE size < desired -> "create"
                                        [] size = desired -> "report"
                                        [] size > desired -> "delete"]
    /\ UNCHANGED <<sets, pods, work, cache, asked, spent>>

ListPodsFails(c) ==
    /\ pc[c] = "list"
    /\ Spend("fault")
    /\ Return(c)
    /\ UNCHANGED <<sets, pods, work, cache, asked>>

NewPod(c) == [phase |-> "Pending",
              owner |-> [name |-> job[c].name, uid |-> job[c].set.uid],
              pod   |-> job[c].out.pod,
              by    |-> c]

\* Pod names that randomSuffix can make for the job and nobody has.
FreeNames(c) == {p \in Pods : PrefixOf[p] = job[c].name /\ pods[p] = None}

\* Mutant: the loop makes one pod too many.
CreatePodOffByOne(c, p) ==
    /\ pc[c] = "create"
    /\ p \in FreeNames(c)
    /\ pods' = [pods EXCEPT ![p] = NewPod(c)]
    /\ job' = [job EXCEPT ![c].todo = @ - 1]
    /\ pc' = [pc EXCEPT ![c] = IF job[c].todo = 0 THEN "report" ELSE @]
    /\ UNCHANGED <<sets, work, cache, asked, spent>>

\* Pods.Create.
CreatePod(c, p) ==
    /\ pc[c] = "create"
    /\ p \in FreeNames(c)
    /\ pods' = [pods EXCEPT ![p] = NewPod(c)]
    /\ job' = [job EXCEPT ![c].todo = @ - 1]
    /\ pc' = [pc EXCEPT ![c] = IF job[c].todo = 1 THEN "report" ELSE @]
    /\ UNCHANGED <<sets, work, cache, asked, spent>>

\* Mutant: a failed Create is tried again in the same loop.
CreateRetried(c) ==
    /\ pc[c] = "create"
    /\ Spend("fault")
    /\ \E p \in FreeNames(c) : pods' = [pods EXCEPT ![p] = NewPod(c)]
    /\ UNCHANGED <<sets, pc, work, job, cache, asked>>

\* Create fails: refused, the random name is taken (a fault only as long as
\* another name was free), or the answer was lost after the pod was made.
\* Reconcile returns with no status written.
CreateFails(c) ==
    /\ pc[c] = "create"
    /\ IF FreeNames(c) = {} THEN UNCHANGED spent ELSE Spend("fault")
    /\ \/ pods' = pods
       \/ \E p \in FreeNames(c) : pods' = [pods EXCEPT ![p] = NewPod(c)]
    /\ Return(c)
    /\ UNCHANGED <<sets, work, cache, asked>>

\* The next victim is the largest name left.
IsNextVictim(c, p) ==
    /\ pc[c] = "delete"
    /\ p \in job[c].victims
    /\ \A q \in job[c].victims : q <= p

\* Mutant: the loop ends with the pods, whatever the scale.
PastLastVictim(c, p) ==
    LET left == job[c].victims \ {p}
    IN  /\ job' = [job EXCEPT ![c].victims = left]
        /\ pc' = [pc EXCEPT ![c] = IF left = {} THEN "report" ELSE @]

\* Victim p is dealt with; after the last of them the status is written,
\* unless the scale is negative: then the loop runs on (see Panic).
PastVictim(c, p) ==
    LET left == job[c].victims \ {p}
    IN  /\ job' = [job EXCEPT ![c].victims = left]
        /\ pc' = [pc EXCEPT ![c] = IF left = {} /\ job[c].out.replicas >= 0
                                   THEN "report" ELSE @]

\* Pods.Delete, by name only: whatever has the name now is deleted, and
\* NotFound is as good.
DeletePod(c, p) ==
    /\ IsNextVictim(c, p)
    /\ IF pods[p] = None THEN UNCHANGED pods ELSE SetPhase(p, "Terminating")
    /\ PastVictim(c, p)
    /\ UNCHANGED <<sets, work, cache, asked, spent>>

\* A failed Delete is logged and the loop goes on.
DeleteFails(c, p) ==
    /\ IsNextVictim(c, p)
    /\ Spend("fault")
    /\ PastVictim(c, p)
    /\ UNCHANGED <<sets, pods, work, cache, asked>>

\* The process is gone, and its memory with it; it starts again.
Restart(c) ==
    /\ Return(c)
    /\ work' = [work EXCEPT ![c] = {}]
    /\ cache' = [cache EXCEPT ![c] = [n \in Names |-> None]]
    /\ asked' = [asked EXCEPT ![c] = {}]
    /\ UNCHANGED <<sets, pods>>

\* A negative scale asks for more victims than there are pods: the index
\* runs below zero and the process dies.
Panic(c) ==
    /\ pc[c] = "delete"
    /\ job[c].victims = {}
    /\ Restart(c)
    /\ UNCHANGED spent

-----------------------------------------------------------------------------
(***************************************************************************)
(* The status write.  It carries the resource version of the Get, so the   *)
(* API server refuses it if the set has been written or deleted since.     *)
(***************************************************************************)
\* Every reader of set n now holds an old resource version.
Outdated(n) ==
    [c \in Controllers |->
        IF job[c].name = n THEN [job[c] EXCEPT !.fresh = FALSE] ELSE job[c]]

WriteStatus(c, status) ==
    /\ job[c].fresh
    /\ sets' = [sets EXCEPT ![job[c].name].status = status]
    /\ job' = [Outdated(job[c].name) EXCEPT ![c] = NoJob]
    /\ pc' = [pc EXCEPT ![c] = "loop"]
    /\ UNCHANGED <<pods, work, cache, asked, spent>>

Condition(type, ok) == [type |-> type, ok |-> ok]

\* After a failed compilation one more condition is appended.
ReportFailure(c) ==
    /\ pc[c] = "fail"
    /\ WriteStatus(c, [job[c].set.status EXCEPT
                          !.ai = "Failed",
                          !.conds = Append(@, Condition("AICompiled", FALSE))])

\* currentReplicas is the desired number by now, whatever the deletes did.
Report(c) ==
    /\ pc[c] = "report"
    /\ LET ready == job[c].ready
           desired == job[c].out.replicas
       IN  WriteStatus(c,
             [replicas |-> desired,
              ready    |-> ready,
              observed |-> job[c].set.gen,
              ai       |-> "Completed",
              conds    |-> <<Condition("Available",
                                       ready = desired /\ desired > 0),
                             Condition("AICompiled", TRUE)>>])

\* The write is refused or lost.
ReportConflict(c) ==
    /\ pc[c] \in {"fail", "report"}
    /\ ~job[c].fresh
    /\ Return(c)
    /\ UNCHANGED <<sets, pods, work, cache, asked, spent>>

ReportFails(c) ==
    /\ pc[c] \in {"fail", "report"}
    /\ Spend("fault")
    /\ Return(c)
    /\ UNCHANGED <<sets, pods, work, cache, asked>>

\* The process is killed between any two calls and restarted.
Crash(c) ==
    /\ Spend("crash")
    /\ Restart(c)

-----------------------------------------------------------------------------
(***************************************************************************)
(* Users and the cluster.  A GeminiSet's uid is the number of the edit     *)
(* that created it; its generation grows with each edit of the spec.       *)
(***************************************************************************)
CreateSet(n, spec) ==
    /\ sets[n] = None
    /\ Spend("edit")
    /\ sets' = [sets EXCEPT ![n] = [uid |-> spent["edit"] + 1, gen |-> 1,
                                    spec |-> spec, status |-> NoStatus]]
    /\ UNCHANGED <<pods, pc, work, job, cache, asked>>

EditSpec(n, spec) ==
    /\ sets[n] # None
    /\ sets[n].spec # spec
    /\ Spend("edit")
    /\ sets' = [sets EXCEPT ![n].spec = spec, ![n].gen = @ + 1]
    /\ job' = Outdated(n)
    /\ UNCHANGED <<pods, pc, work, cache, asked>>

DeleteSet(n) ==
    /\ sets[n] # None
    /\ Spend("delete")
    /\ sets' = [sets EXCEPT ![n] = None]
    /\ job' = Outdated(n)
    /\ UNCHANGED <<pods, pc, work, cache, asked>>

ControllerUnchanged == UNCHANGED <<sets, pc, work, job, cache, asked>>

Removal(p) == PodRemoved(p) /\ ControllerUnchanged /\ UNCHANGED spent

Collection(p) == GarbageCollect(p) /\ ControllerUnchanged /\ UNCHANGED spent

KubeletReport(p) ==
    /\ PodStarts(p) \/ PodProbed(p)
    /\ Spend("kubelet")
    /\ ControllerUnchanged

Disruption(p) == Disrupted(p) /\ Spend("disrupt") /\ ControllerUnchanged

-----------------------------------------------------------------------------
\* The calls a controller makes by itself, every one answered.
Call(c) ==
    \/ Tick(c)
    \/ \E n \in Names : Get(c, n) \/ GetMissing(c, n)
    \/ CacheHit(c) \/ CompileExplicit(c) \/ Synthesize(c)
    \/ ListPods(c)
    \/ \E p \in Pods : CreatePod(c, p) \/ DeletePod(c, p)
    \/ ReportFailure(c) \/ Report(c) \/ ReportConflict(c)

Step(c) == Call(c) \/ Panic(c)

\* A call that goes wrong.
CallFails(c) ==
    \/ \E n \in Names : GetFails(c, n)
    \/ SynthesizeFails(c)
    \/ ListPodsFails(c)
    \/ CreateFails(c)
    \/ \E p \in Pods : DeleteFails(c, p)
    \/ ReportFails(c)

\* What may go wrong for a controller.
Fault(c) == CallFails(c) \/ Crash(c)

User ==
    \/ \E n \in Names, spec \in Specs : CreateSet(n, spec) \/ EditSpec(n, spec)
    \/ \E n \in Names : DeleteSet(n)

Kubernetes ==
    \E p \in Pods :
        Removal(p) \/ Collection(p) \/ KubeletReport(p) \/ Disruption(p)

Next ==
    \/ \E c \in Controllers : Step(c) \/ Fault(c)
    \/ User
    \/ Kubernetes

Spec == Init /\ [][Next]_vars

(***************************************************************************)
(* A running controller takes its next step sooner or later (the ticker,   *)
(* and one call after another), and so do the garbage collector and the    *)
(* kubelet that removes a deleted pod.  Users, failures and crashes owe    *)
(* nothing.                                                                *)
(***************************************************************************)
Fairness ==
    /\ \A c \in Controllers : WF_vars(Step(c))
    /\ \A p \in Pods : WF_vars(Removal(p)) /\ WF_vars(Collection(p))

FairSpec == Spec /\ Fairness

-----------------------------------------------------------------------------
(***************************************************************************)
(* Properties.                                                             *)
(***************************************************************************)
Jobs == [name : Names \cup {None}, set : Sets \cup {None},
         out : Workloads \cup {None}, todo : Nat, victims : SUBSET Pods,
         ready : Nat, fresh : BOOLEAN]

\* What a controller's locals are at each step: the code dereferences the
\* set and the compilation without a check.
LocalsOK(c) ==
    /\ pc[c] # "loop" => job[c].name # None /\ job[c].set # None
    /\ pc[c] \in {"list", "create", "delete", "report"} => job[c].out # None
    /\ pc[c] = "create" => job[c].todo > 0

\* The type invariant: the state has the shape the code gives it.
TypeOK ==
    /\ sets \in [Names -> Sets \cup {None}]
    /\ pods \in [Pods -> PodObjects \cup {None}]
    /\ pc \in [Controllers -> {"loop", "compile", "fail", "list", "create",
                               "delete", "report"}]
    /\ work \in [Controllers -> SUBSET Names]
    /\ job \in [Controllers -> Jobs]
    /\ cache \in [Controllers -> [Names -> Entries \cup {None}]]
    /\ asked \in [Controllers ->
                   SUBSET [name : Names, uid : Nat, gen : Nat \ {0}, spec : Specs]]
    /\ spent \in [Kinds -> Nat]
    /\ \A c \in Controllers : LocalsOK(c)

\* What runs under the name of a set was compiled for that set, also when it
\* comes from the cache.  So the label on a pod, by which controllers find,
\* count and delete it, is its set's own or one that an answer to that set's
\* request put in its place (the answer's labels are applied last); a set
\* never gets the label of another one by sharing its compilation.
OwnWorkload ==
    \A p \in Pods :
        Active(p) =>
            \E out \in CompiledFor(pods[p].owner.name) : pods[p].pod = out.pod

\* A single controller never has more pods in the making than the scale it
\* compiled: what is there and what it has still to create stay within it,
\* whatever is edited, lost, killed or collected meanwhile.
NoOvershoot ==
    \A c \in Controllers :
        pc[c] = "create" =>
            Cardinality(Managed(job[c].name)) + job[c].todo
                <= job[c].out.replicas

\* The active pods of set n that controller c made.
Made(c, n) == {p \in Managed(n) : pods[p].owner.name = n /\ pods[p].by = c}

\* What c has still to create for n.
Todo(c, n) == IF pc[c] = "create" /\ job[c].name = n THEN job[c].todo ELSE 0

WithinScale(k) == k = 0 \/ \E d \in Scales : k <= d

\* Several controllers running at once (a rolling update) act on stale lists
\* and can create too much together, but each of them contributes at most
\* one scale's worth of active pods to a set, the ones it is about to create
\* included.
ContributionBounded ==
    \A c \in Controllers, n \in Names :
        LET contribution == Cardinality(Made(c, n)) + Todo(c, n)
        IN  /\ WithinScale(contribution)
            /\ pc[c] = "create" /\ job[c].name = n
                 => contribution <= job[c].out.replicas

\* A reconcile whose resource version is current holds the set as it is.
FreshIsCurrent ==
    \A c \in Controllers :
        job[c].fresh => /\ job[c].name # None
                        /\ job[c].set # None
                        /\ sets[job[c].name] = job[c].set

\* A status that claims to have observed the current generation of a set
\* with an explicit scale reports that scale: no cached compilation of an
\* older specification and no write by a reconcile that read an older set
\* (or an older set of the same name) gets there.
ObservedMeansApplied ==
    \A n \in Names :
        sets[n] # None =>
            LET set == sets[n]
            IN  set.status.observed = set.gen /\ set.spec.replicas # None
                    => set.status.replicas = set.spec.replicas

\* Once a set has d active pods it never has fewer again by the hands of the
\* controllers: two of them deleting victims from different, stale lists
\* never delete below the scale they agree on.  Meant for runs in which one
\* scale is asked for and nothing else removes pods.
NeverBelowScale ==
    [][\A n \in Names, d \in Scales :
          Cardinality(Managed(n)) >= d => Cardinality(Managed(n)') >= d]_vars

\* A controller has the model compile a version of a set (a creation or an
\* edit) at most once between two of its restarts, failed requests aside:
\* README.md, Cost.  Whatever the other controllers and the users do between
\* the Get and the answer, an old version never displaces a newer one in the
\* cache.
AskOncePerVersion ==
    [][\A c \in Controllers : Synthesize(c) => Request(c) \notin asked[c]]_vars

\* A set whose scale is negative is never reported on: the controller dies
\* on every reconcile of it, before the status is written.
NegativeNeverReported ==
    \A n \in Names : sets[n] # None => sets[n].status.replicas >= 0

\* What the controller is for: when the disturbances are over, the status
\* speaks of the current generation, there are as many active pods as it
\* says, and a deleted set leaves no pod behind, not even one that a late
\* reconcile created after the deletion.  A set that does not convert is left
\* as it is until it is corrected.
Settled(n) ==
    IF sets[n] = None
    THEN \A p \in Pods : pods[p] # None => pods[p].owner.name # n
    ELSE sets[n].spec \notin Malformed =>
         /\ sets[n].status.observed = sets[n].gen
         /\ sets[n].status.replicas = Cardinality(Managed(n))
         /\ \A p \in Managed(n) : OwnerExists(p)

Converges == \A n \in Names : <>[]Settled(n)
=============================================================================
