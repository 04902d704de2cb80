--------------------------- MODULE ControllerAsks ---------------------------
(***************************************************************************)
(* AskOncePerVersion of Controller.tla: what a controller once had the     *)
(* model compile it does not ask about again before it is restarted,       *)
(* however many other controllers there are and whatever becomes of the    *)
(* sets meanwhile.                                                         *)
(*                                                                         *)
(* A version of a set is a creation (its uid) and a generation.  What a    *)
(* controller asked about is never newer than what its job read, nor that  *)
(* than what is there now; and as long as a version that it asked about is *)
(* still there, or still in its job, its cache holds the answer.  A        *)
(* restart forgets the cache and what was asked about together.            *)
(***************************************************************************)
EXTENDS ControllerSafety

-----------------------------------------------------------------------------
\* Version v is not newer than version w.
Upto(v, w) == v.uid < w.uid \/ (v.uid = w.uid /\ v.gen <= w.gen)

SameVersion(v, w) == v.uid = w.uid /\ v.gen = w.gen

\* If w is the version that request r asked about, the answer is cached.
Known(c, r, w) ==
    SameVersion(r, w) => /\ w.spec = r.spec
                         /\ cache[c][r.name] # None
                         /\ cache[c][r.name].hash = SpecHash(r.spec)

\* Creations are numbered by the edits so far.
Numbered ==
    /\ \A n \in Names : sets[n] # None => sets[n].uid <= spent["edit"]
    /\ \A c \in Controllers : \A r \in asked[c] : r.uid <= spent["edit"]
    /\ \A c \in Controllers : pc[c] # "loop" => job[c].set.uid <= spent["edit"]

\* A job holds the current version or an older one.
JobsUpto ==
    \A c \in Controllers, n \in Names :
        pc[c] # "loop" /\ job[c].name = n /\ sets[n] # None
          => /\ Upto(job[c].set, sets[n])
             /\ SameVersion(job[c].set, sets[n]) => sets[n].spec = job[c].set.spec

\* Of the current version ...
SetsKnown ==
    \A c \in Controllers : \A r \in asked[c] :
        sets[r.name] # None
          => Upto(r, sets[r.name]) /\ Known(c, r, sets[r.name])

\* ... and of the version in a job.
JobsKnown ==
    \A c \in Controllers : \A r \in asked[c] :
        pc[c] # "loop" /\ job[c].name = r.name
          => Upto(r, job[c].set) /\ Known(c, r, job[c].set)

AskInv == Numbered /\ JobsUpto /\ SetsKnown /\ JobsKnown

-----------------------------------------------------------------------------
(***************************************************************************)
(* Which steps touch the versions.                                         *)
(***************************************************************************)
\* A restart leaves nothing to find in the cache, and nothing asked about.
LEMMA RestartStays ==
    ASSUME IInv, NEW c \in Controllers, Restart(c), spent'["edit"] = spent["edit"]
    PROVE  VersionsStay
<1>1. JobsStay /\ SetsStay
  BY SameSetsStay, ReturnStays DEF Restart
<1>2. /\ asked'[c] = {}
      /\ \A d \in Controllers : d # c => cache'[d] = cache[d] /\ asked'[d] = asked[d]
  BY DEF Restart, IInv, TypeOK
<1> QED BY <1>1, <1>2 DEF VersionsStay

\* A controller's own steps.
LEMMA StepVersions ==
    ASSUME IInv, NEW c \in Controllers, Step(c)
    PROVE  \/ VersionsStay
           \/ \E n \in Names : Get(c, n)
           \/ CompileExplicit(c)
           \/ Synthesize(c)
<1>1. CASE Tick(c) \/ \E n \in Names : GetMissing(c, n)
  BY <1>1, SameSetsStay DEF Tick, GetMissing, VersionsStay, JobsStay
<1>2. CASE CacheHit(c)
  BY <1>2, SameSetsStay, CompiledStays DEF CacheHit, VersionsStay
<1>3. CASE ListPods(c)
  BY <1>3, SameSetsStay, ListPodsStays DEF ListPods, VersionsStay
<1>4. CASE \E p \in Pods : CreatePod(c, p)
  <2>1. JobsStay
    BY <1>4 DEF JobsStay, CreatePod, IInv, TypeOK, Jobs
  <2> QED BY <1>4, <2>1, SameSetsStay DEF CreatePod, VersionsStay
<1>5. CASE \E p \in Pods : DeletePod(c, p)
  BY <1>5, SameSetsStay, PastVictimStays DEF DeletePod, IsNextVictim, VersionsStay
<1>6. CASE ReportFailure(c) \/ Report(c)
  BY <1>6, WriteStatusStays DEF ReportFailure, Report, WriteStatus, VersionsStay
<1>7. CASE ReportConflict(c)
  BY <1>7, SameSetsStay, ReturnStays DEF ReportConflict, VersionsStay
<1>8. CASE Panic(c)
  BY <1>8, RestartStays DEF Panic
<1> QED BY <1>1, <1>2, <1>3, <1>4, <1>5, <1>6, <1>7, <1>8 DEF Step, Call

\* No fault makes a version.
LEMMA FaultVersions ==
    ASSUME IInv, NEW c \in Controllers, Fault(c)
    PROVE  VersionsStay
<1>1. CASE \E n \in Names : GetFails(c, n)
  BY <1>1, SameSetsStay, SpendOther DEF GetFails, VersionsStay, JobsStay
<1>2. CASE SynthesizeFails(c)
  <2>1. JobsStay
    BY <1>2 DEF JobsStay, SynthesizeFails, NeedsModel, IInv, TypeOK
  <2> QED BY <1>2, <2>1, SameSetsStay, SpendOther DEF SynthesizeFails, VersionsStay
<1>3. CASE ListPodsFails(c) \/ ReportFails(c)
  BY <1>3, SameSetsStay, SpendOther, ReturnStays DEF ListPodsFails, ReportFails, VersionsStay
<1>4. CASE CreateFails(c)
  BY <1>4, SameSetsStay, SpendOther, ReturnStays DEF CreateFails, VersionsStay
<1>5. CASE \E p \in Pods : DeleteFails(c, p)
  BY <1>5, SameSetsStay, SpendOther, PastVictimStays
     DEF DeleteFails, IsNextVictim, VersionsStay
<1>6. CASE Crash(c)
  BY <1>6, SpendOther, RestartStays DEF Crash
<1> QED BY <1>1, <1>2, <1>3, <1>4, <1>5, <1>6 DEF Fault, CallFails

-----------------------------------------------------------------------------
(***************************************************************************)
(* AskInv is inductive.                                                    *)
(***************************************************************************)
\* Where the versions stay, so does what is said of them.
LEMMA VersionsStayInv ==
    ASSUME IInv, AskInv, VersionsStay
    PROVE  AskInv'
<1> USE DEF AskInv, VersionsStay, JobsStay, SetsStay
<1>1. Numbered'
  BY DEF Numbered
<1>2. JobsUpto'
  BY DEF JobsUpto, Upto, SameVersion
<1>3. SetsKnown'
  <2> SUFFICES ASSUME NEW c \in Controllers, NEW r \in asked'[c], sets'[r.name] # None
               PROVE  Upto(r, sets'[r.name]) /\ Known(c, r, sets[r.name])'
    BY DEF SetsKnown, Upto
  <2>1. r \in asked[c] /\ cache'[c] = cache[c]
    OBVIOUS
  <2>2. r.name \in Names
    BY <2>1, VersionTypes
  <2> QED BY <2>1, <2>2 DEF SetsKnown, Upto, Known, SameVersion
<1>4. JobsKnown'
  BY DEF JobsKnown, Upto, Known, SameVersion
<1> QED BY <1>1, <1>2, <1>3, <1>4

\* A Get reads the current version.
LEMMA GetVersions ==
    ASSUME IInv, AskInv, NEW c \in Controllers, NEW n \in Names, Get(c, n)
    PROVE  AskInv'
<1>1. /\ sets[n] # None /\ job'[c].name = n /\ job'[c].set = sets[n]
      /\ \A d \in Controllers : d # c => job'[d] = job[d] /\ pc'[d] = pc[d]
      /\ UNCHANGED <<sets, cache, asked, spent>>
  BY DEF Get, Converts, NoJob, IInv, TypeOK
<1>2. Numbered'
  BY <1>1 DEF AskInv, Numbered
<1>3. JobsUpto'
  BY <1>1, VersionTypes DEF AskInv, JobsUpto, Upto, SameVersion
<1>4. SetsKnown'
  BY <1>1 DEF AskInv, SetsKnown, Upto, Known, SameVersion
<1>5. JobsKnown'
  BY <1>1 DEF AskInv, JobsKnown, SetsKnown, Upto, Known, SameVersion
<1> QED BY <1>2, <1>3, <1>4, <1>5 DEF AskInv

\* A compilation that is not a hit is of a version nobody asked about; what
\* was asked about before is older, and may leave the cache.
LEMMA CompileVersions ==
    ASSUME IInv, AskInv, NEW c \in Controllers, NEW out \in Workloads,
           pc[c] = "compile", ~Hit(c), Compiled(c, out), Store(c, out),
           asked' = asked \/ asked' = [asked EXCEPT ![c] = @ \cup {Request(c)}],
           UNCHANGED <<sets, spent>>
    PROVE  AskInv'
<1> DEFINE n == job[c].name
           w == job[c].set
<1>1. /\ n \in Names /\ w \in Sets /\ w.uid \in Nat /\ w.gen \in Nat
  BY VersionTypes
<1>2. ASSUME NEW r \in asked[c], r.name = n
      PROVE  Upto(r, w) /\ ~SameVersion(r, w)
  <2>1. Upto(r, w) /\ Known(c, r, w)
    BY <1>2 DEF AskInv, JobsKnown
  <2> QED BY <1>2, <2>1 DEF Known, Hit
<1>3. /\ cache'[c][n] # None /\ cache'[c][n].hash = SpecHash(w.spec)
      /\ \A m \in Names : m # n => cache'[c][m] = cache[c][m]
  <2> DEFINE entry == [hash |-> SpecHash(w.spec), out |-> out]
  <2>1. entry # None
    BY <1>1, NoneAssumption DEF Entries, Sets
  <2>2. cache' = [cache EXCEPT ![c][n] = entry]
    BY DEF Store
  <2>3. entry.hash = SpecHash(w.spec)
    OBVIOUS
  <2> HIDE DEF entry
  <2> QED BY <1>1, <2>1, <2>2, <2>3 DEF IInv, TypeOK
<1>4. ASSUME NEW r \in asked'[c]
      PROVE  /\ r \in asked[c] \/ r = Request(c)
             /\ r = Request(c) => /\ r.name = n /\ r.uid = w.uid /\ r.gen = w.gen
                                  /\ r.spec = w.spec
             /\ r.name \in Names /\ r.uid \in Nat /\ r.gen \in Nat
  <2>1. r \in asked[c] \/ r = Request(c)
    BY DEF IInv, TypeOK
  <2> QED BY <1>1, <2>1, VersionTypes DEF Request
<1>5. ASSUME NEW d \in Controllers, d # c
      PROVE  /\ asked'[d] = asked[d] /\ cache'[d] = cache[d]
             /\ job'[d] = job[d] /\ pc'[d] = pc[d]
  BY <1>5 DEF Compiled, Store, IInv, TypeOK
<1>6. job'[c].name = n /\ job'[c].set = w /\ pc'[c] = "list"
  BY DEF Compiled, IInv, TypeOK, Jobs
<1> HIDE DEF n, w
<1>7. Numbered'
  <2>1. w.uid <= spent["edit"]
    BY DEF AskInv, Numbered, w
  <2> QED BY <1>4, <1>5, <1>6, <2>1 DEF AskInv, Numbered
<1>8. JobsUpto'
  BY <1>5, <1>6 DEF AskInv, JobsUpto, Upto, SameVersion, w, n
<1>9. SetsKnown'
  <2> SUFFICES ASSUME NEW r \in asked'[c], sets[r.name] # None
               PROVE  Upto(r, sets[r.name]) /\ Known(c, r, sets[r.name])'
    <3>1. ASSUME NEW d \in Controllers, d # c, NEW r \in asked'[d], sets'[r.name] # None
          PROVE  Upto(r, sets'[r.name]) /\ Known(d, r, sets[r.name])'
      BY <1>5, <3>1 DEF AskInv, SetsKnown, Upto, Known, SameVersion
    <3> QED BY <3>1 DEF SetsKnown, Upto
  <2>1. CASE r.name # n
    BY <1>3, <1>4, <2>1 DEF AskInv, SetsKnown, Upto, Known, SameVersion
  <2>2. CASE r.name = n
    <3>1. /\ Upto(w, sets[n])
          /\ SameVersion(w, sets[n]) => sets[n].spec = w.spec
      BY <1>1, <2>2 DEF AskInv, JobsUpto, n, w
    <3>2. sets[n].uid \in Nat /\ sets[n].gen \in Nat
      BY <1>1, <2>2, VersionTypes
    <3>3. CASE r = Request(c)
      BY <1>3, <1>4, <2>2, <3>1, <3>3 DEF Upto, Known, SameVersion
    <3>4. CASE r \in asked[c]
      <4>1. Upto(r, w) /\ ~SameVersion(r, w)
        BY <1>2, <2>2, <3>4
      <4>2. Upto(r, sets[n]) /\ ~SameVersion(r, sets[n])
        BY <1>1, <1>4, <3>1, <3>2, <4>1 DEF Upto, SameVersion
      <4> QED BY <2>2, <4>2 DEF Upto, Known, SameVersion
    <3> QED BY <1>4, <3>3, <3>4
  <2> QED BY <2>1, <2>2
<1>10. JobsKnown'
  <2> SUFFICES ASSUME NEW r \in asked'[c], r.name = n
               PROVE  Upto(r, w) /\ (SameVersion(r, w) =>
                        /\ w.spec = r.spec
                        /\ cache'[c][n] # None
                        /\ cache'[c][n].hash = SpecHash(r.spec))
    <3>1. ASSUME NEW d \in Controllers, d # c, NEW r \in asked'[d],
                 pc'[d] # "loop", job'[d].name = r.name
          PROVE  Upto(r, job'[d].set) /\ Known(d, r, job[d].set)'
      BY <1>5, <3>1 DEF AskInv, JobsKnown, Upto, Known, SameVersion
    <3> QED BY <1>6, <3>1 DEF JobsKnown, Upto, Known, SameVersion
  <2>1. CASE r = Request(c)
    BY <1>1, <1>3, <1>4, <2>1 DEF Upto
  <2>2. CASE r \in asked[c]
    BY <1>2, <2>2
  <2> QED BY <1>4, <2>1, <2>2
<1> QED BY <1>7, <1>8, <1>9, <1>10 DEF AskInv

\* A user makes a new version, which nobody has read or asked about.
LEMMA NewVersion ==
    ASSUME IInv, AskInv, NEW n \in Names,
           UNCHANGED <<pc, cache, asked>>,
           \A d \in Controllers : job'[d].name = job[d].name /\ job'[d].set = job[d].set,
           \A m \in Names : m # n => sets'[m] = sets[m],
           spent'["edit"] \in Nat, spent["edit"] <= spent'["edit"],
           sets'[n] # None =>
             /\ sets'[n].uid \in Nat /\ sets'[n].gen \in Nat
             /\ sets'[n].uid <= spent'["edit"]
             /\ \/ sets'[n].uid > spent["edit"]
                \/ /\ sets[n] # None /\ sets'[n].uid = sets[n].uid
                   /\ sets'[n].gen = sets[n].gen + 1
    PROVE  AskInv'
<1> USE VersionTypes
<1>1. ASSUME NEW v, v.uid \in Nat, v.gen \in Nat, v.uid <= spent["edit"],
             sets[n] # None => Upto(v, sets[n]), sets'[n] # None
      PROVE  Upto(v, sets'[n]) /\ ~SameVersion(v, sets'[n])
  <2>1. CASE sets'[n].uid > spent["edit"]
    BY <1>1, <2>1 DEF Upto, SameVersion
  <2>2. CASE /\ sets[n] # None /\ sets'[n].uid = sets[n].uid
             /\ sets'[n].gen = sets[n].gen + 1
    BY <1>1, <2>2 DEF Upto, SameVersion
  <2> QED BY <1>1, <2>1, <2>2
<1>2. Numbered'
  BY DEF AskInv, Numbered
<1>3. JobsUpto'
  <2> SUFFICES ASSUME NEW c \in Controllers, NEW m \in Names, pc[c] # "loop",
                      job[c].name = m, sets'[m] # None
               PROVE  /\ Upto(job[c].set, sets'[m])
                      /\ SameVersion(job[c].set, sets'[m])
                           => sets'[m].spec = job[c].set.spec
    BY DEF JobsUpto, Upto, SameVersion
  <2>1. CASE m # n
    BY <2>1 DEF AskInv, JobsUpto
  <2>2. CASE m = n
    BY <1>1, <2>2 DEF AskInv, JobsUpto, Numbered
  <2> QED BY <2>1, <2>2
<1>4. SetsKnown'
  <2> SUFFICES ASSUME NEW c \in Controllers, NEW r \in asked[c], sets'[r.name] # None
               PROVE  Upto(r, sets'[r.name]) /\ Known(c, r, sets[r.name])'
    BY DEF SetsKnown, Upto
  <2>1. CASE r.name # n
    BY <2>1 DEF AskInv, SetsKnown, Known, SameVersion
  <2>2. CASE r.name = n
    BY <1>1, <2>2 DEF AskInv, SetsKnown, Numbered, Known, SameVersion
  <2> QED BY <2>1, <2>2
<1>5. JobsKnown'
  BY DEF AskInv, JobsKnown, Upto, Known, SameVersion
<1> QED BY <1>2, <1>3, <1>4, <1>5 DEF AskInv

\* The three things a user does.
LEMMA UserVersions ==
    ASSUME IInv, AskInv, User
    PROVE  AskInv'
<1>1. /\ UNCHANGED <<pc, cache, asked>>
      /\ \A d \in Controllers : job'[d].name = job[d].name /\ job'[d].set = job[d].set
  <2>1. /\ UNCHANGED <<pc, cache, asked>>
        /\ UNCHANGED job \/ \E n \in Names : job' = Outdated(n)
    BY DEF User, CreateSet, EditSpec, DeleteSet
  <2> QED BY <2>1, OutdatedFields
<1>2. spent["edit"] \in Nat
  BY VersionTypes
<1>3. ASSUME NEW n \in Names, NEW spec \in Specs, CreateSet(n, spec) PROVE AskInv'
  <2> DEFINE set == [uid |-> spent["edit"] + 1, gen |-> 1, spec |-> spec,
                     status |-> NoStatus]
  <2>1. set.uid = spent["edit"] + 1 /\ set.gen = 1
    OBVIOUS
  <2>2. sets' = [sets EXCEPT ![n] = set]
    BY <1>3 DEF CreateSet
  <2>3. spent'["edit"] = spent["edit"] + 1
    BY <1>3 DEF CreateSet, Spend, Kinds, IInv, TypeOK
  <2> HIDE DEF set
  <2>4. sets'[n] = set /\ \A m \in Names : m # n => sets'[m] = sets[m]
    BY <2>2 DEF IInv, TypeOK
  <2> QED BY <1>1, <1>2, <2>1, <2>3, <2>4, NewVersion
<1>4. ASSUME NEW n \in Names, NEW spec \in Specs, EditSpec(n, spec) PROVE AskInv'
  <2> DEFINE set == [sets[n] EXCEPT !.spec = spec, !.gen = @ + 1]
  <2>1. sets[n] # None /\ sets[n] \in Sets
    BY <1>4 DEF EditSpec, IInv, TypeOK
  <2>2. set.uid = sets[n].uid /\ set.gen = sets[n].gen + 1
    BY <2>1 DEF Sets
  <2>3. sets' = [sets EXCEPT ![n] = set]
    BY <1>4, <2>1 DEF EditSpec, Sets, IInv, TypeOK
  <2>4. spent'["edit"] = spent["edit"] + 1
    BY <1>4 DEF EditSpec, Spend, Kinds, IInv, TypeOK
  <2> HIDE DEF set
  <2>5. sets'[n] = set /\ \A m \in Names : m # n => sets'[m] = sets[m]
    BY <2>3 DEF IInv, TypeOK
  <2>6. sets[n].uid \in Nat /\ sets[n].gen \in Nat /\ sets[n].uid <= spent["edit"]
    BY <2>1, VersionTypes DEF AskInv, Numbered
  <2> QED BY <1>1, <1>2, <2>1, <2>2, <2>4, <2>5, <2>6, NewVersion
<1>5. ASSUME NEW n \in Names, DeleteSet(n) PROVE AskInv'
  <2>1. spent'["edit"] = spent["edit"]
    BY <1>5, SpendOther DEF DeleteSet
  <2>2. sets'[n] = None /\ \A m \in Names : m # n => sets'[m] = sets[m]
    BY <1>5 DEF DeleteSet, IInv, TypeOK
  <2> QED BY <1>1, <1>2, <2>1, <2>2, NewVersion
<1> QED BY <1>3, <1>4, <1>5 DEF User

\* Every step keeps what is said of the versions.
LEMMA NextVersions ==
    ASSUME IInv, AskInv, [Next]_vars
    PROVE  AskInv'
<1>1. CASE VersionsStay
  BY <1>1, VersionsStayInv
<1>2. ASSUME NEW c \in Controllers, Step(c) PROVE AskInv'
  <2>1. CASE \E n \in Names : Get(c, n)
    BY <2>1, GetVersions
  <2>2. CASE CompileExplicit(c)
    <3> DEFINE out == ExplicitWorkload(job[c].name, job[c].set.spec)
    <3>1. /\ pc[c] = "compile" /\ ~Hit(c) /\ Compiled(c, out) /\ Store(c, out)
          /\ UNCHANGED <<sets, spent, asked>>
      BY <2>2 DEF CompileExplicit
    <3>2. out \in Workloads
      BY <2>2, <3>1, VersionTypes DEF CompileExplicit, Workloads, CompiledFor, Sets
    <3> HIDE DEF out
    <3> QED BY <3>1, <3>2, CompileVersions
  <2>3. CASE Synthesize(c)
    <3>1. PICK answer \in Answers :
            LET out == SynthesizedWorkload(job[c].name, job[c].set.spec, answer)
            IN  Compiled(c, out) /\ Store(c, out)
      BY <2>3 DEF Synthesize
    <3>2. /\ pc[c] = "compile" /\ ~Hit(c)
          /\ asked' = [asked EXCEPT ![c] = @ \cup {Request(c)}]
          /\ UNCHANGED <<sets, spent>>
      BY <2>3 DEF Synthesize, NeedsModel
    <3> DEFINE out == SynthesizedWorkload(job[c].name, job[c].set.spec, answer)
    <3>3. out \in Workloads
      BY <2>3, <3>2, VersionTypes DEF Synthesize, NeedsModel, Workloads, CompiledFor, Sets
    <3>4. Compiled(c, out) /\ Store(c, out)
      BY <3>1
    <3> HIDE DEF out
    <3> QED BY <3>2, <3>3, <3>4, CompileVersions
  <2> QED BY <1>1, <1>2, <2>1, <2>2, <2>3, StepVersions
<1>3. ASSUME NEW c \in Controllers, Fault(c) PROVE AskInv'
  BY <1>1, <1>3, FaultVersions
<1>4. CASE User
  BY <1>4, UserVersions
<1>5. CASE Kubernetes
  BY <1>1, <1>5, KubernetesVersions
<1>6. CASE UNCHANGED vars
  BY <1>1, <1>6 DEF vars, VersionsStay, JobsStay, SetsStay
<1> QED BY <1>2, <1>3, <1>4, <1>5, <1>6 DEF Next

\* Nothing is asked, numbered or read at the start.
LEMMA InitAsk == Init => AskInv
BY DEF Init, AskInv, Numbered, JobsUpto, SetsKnown, JobsKnown

\* What was asked about would be found in the cache.
LEMMA AskedIsCached ==
    ASSUME AskInv, NEW c \in Controllers, Synthesize(c)
    PROVE  Request(c) \notin asked[c]
<1> SUFFICES ASSUME Request(c) \in asked[c] PROVE FALSE
  OBVIOUS
<1>1. pc[c] = "compile" /\ ~Hit(c)
  BY DEF Synthesize, NeedsModel
<1> DEFINE r == Request(c)
<1>2. /\ r.name = job[c].name /\ r.uid = job[c].set.uid /\ r.gen = job[c].set.gen
      /\ r.spec = job[c].set.spec
  BY DEF Request
<1> HIDE DEF r
<1>3. Known(c, r, job[c].set)
  BY <1>1, <1>2 DEF AskInv, JobsKnown, r
<1> QED BY <1>1, <1>2, <1>3 DEF Known, SameVersion, Hit

\* Between two of its restarts a controller has the model compile each
\* version of a set at most once, whatever the others do: as long as it can
\* still come upon a version, the answer is in its cache.
THEOREM AskedOnce == Spec => AskOncePerVersion
<1>1. Init => IInv /\ AskInv
  BY InitIInv, InitAsk
<1>2. IInv /\ AskInv /\ [Next]_vars => (IInv /\ AskInv)'
  BY NextIInv, NextVersions
<1>3. IInv /\ AskInv
        => \A c \in Controllers : Synthesize(c) => Request(c) \notin asked[c]
  BY AskedIsCached
<1> QED BY <1>1, <1>2, <1>3, PTL DEF Spec, AskOncePerVersion
=============================================================================
