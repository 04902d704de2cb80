# GeminiSet, specified

TLA+ specifications of GeminiSet: a Kubernetes controller that turns a prompt (or a pod
template) into pods with the help of a Gemini model, and a scheduler that lets the model
choose the nodes. The modules follow the Go sources under `src/`; `PROJECT.json` names, for
each definition, the lines it stands for.

## The system

| component | code | state | operations | module |
|---|---|---|---|---|
| workload compiler | `pkg/controller/compiler.go` | `cache`: name to (spec hash, compiled workload), in memory | `Compile`: cache hit, template-only path, synthesis by the model | `WorkloadCompiler` (pure part), `Controller` (cache), `Synthesis` (containers) |
| GeminiSet controller | `pkg/controller/controller.go` | the locals of `Reconcile`; nothing persistent | `Start` (a ticker), `Reconcile`: Get, compile, List, create or delete, write the status | `Controller` |
| GeminiSet client | `pkg/controller/crd_client.go` | none | Get, List, UpdateStatus over the API server | in `Controller` |
| scheduler | `pkg/scheduler/scheduler.go`, `context.go` | the locals of `ScheduleNext` | `Start` (a ticker), `ScheduleNext`: List, telemetry snapshot; for each pod decide, bind, read back, annotate, emit | `Scheduler`, abstractly `Placement` |
| Gemini client, MCP tools | `pkg/gemini/client.go`, `mcp.go` | the sessions and the conversation of one request | connect to the servers, rounds of model call and tool calls, clean-up | `Engine`, abstractly `Exchange` |
| answers of the model | `pkg/gemini/types.go` | none | two lenient JSON decoders | `Synthesis` |
| prompts | `pkg/gemini/prompt.go` | none | text for the model; the owner's pods per node | `Prompts` (the count) |
| processes | `cmd/gemini-operator`, `gemini-controller`, `gemini-scheduler` | none | start the loops, stop on a signal | `Operator` |
| kubectl plugin, rationale card | `cmd/kubectl-geminiset`, `pkg/ui/format.go` | none | `create`, `why`; bars and wrapped lines | `PluginSpec` in `Operator`; `RationaleCard` |
| the cluster | external | GeminiSets and Pods | users' edits, kubelet, garbage collectors, disruptions, nodes | `Cluster`, the environments of `Scheduler` and `Operator` |
| deep copies, test doubles, manifests | see `PROJECT.json` | none that lasts | | not modelled |

The controller and the scheduler never call each other. They meet in the Pod objects: the
controller creates a pod with `schedulerName: gemini-scheduler` and the placement hint and MCP
servers in its annotations; the scheduler finds it by that name and an empty node name, and reads
the annotations. Both call the model through the same client. The controller is one goroutine
that reconciles one set after another (`Reconcile`'s mutex is never contended), and the scheduler
is another; concurrency is between these, several copies of the operator (a rolling update of
the Deployment, or `gemini-controller` beside `gemini-operator`: there is no leader election),
the users, and Kubernetes itself. Every state that lasts is in the API server, except the
compiler's cache.

### What is hard, and what correctness means

- *Controller.* Anything may happen between two calls of a reconcile: the set is edited, deleted
  or re-created, a pod is evicted, a call fails or its answer is lost, the process is killed, a
  second controller acts on a List of its own. Correct: it never has more pods in the making than
  the scale (`NoOvershoot`; `ContributionBounded` for each of several controllers), stale deletes
  never go below the scale (`NeverBelowScale`), a status that claims the current generation speaks
  of the current scale (`ObservedMeansApplied`), and in the end pods and status agree (`Converges`).
- *Compiler.* A cached compilation must belong to the current specification
  (`ObservedMeansApplied`, again), and the model does not compile one version of a set twice for
  the same process (`AskOncePerVersion`): an old version, read before an edit and answered after it,
  never displaces a newer one in the cache. What a set runs, its label included, was compiled for it and
  not for another one (`OwnWorkload`).
- *Scheduler.* Bind, read back, annotate and emit are four calls, each of which can fail without
  stopping the rest; the snapshot is taken once for a batch and kept up to date by hand. Correct:
  the snapshot misses no pod and has none twice (`SnapshotComplete`, `CountedOnce`), the
  rationale on a pod is its own and explains the node it is on (`RationaleIsOwn`,
  `RationaleMatchesNode`), a pod is placed once and explained where it is (`ImplementsPlacement`), and
  every waiting pod is bound in the end (`EveryPodBound`).
- *Both together.* A pod may be deleted while the scheduler works on it, its node may leave, the
  process may die between any two calls of either loop. Correct: every set ends up with its pods
  running on nodes that exist and a status that says so (`EverySetDeployed`), and after that the
  model is not called any more (`CostsDrop`).
- *Gemini client.* Any server, tool or model call may fail in any round. Correct: every function
  call is answered before the model is called again, in order (`AllCallsAnswered`), the request
  ends (`Terminates`) within five calls of the model and with no session left open
  (`ImplementsExchange`).
- *Answers, prompts, card.* Pure functions with lenient inputs. Correct: whichever accepted spelling
  the model picks, the container is the one it means (`SpellingsAgree`); the count of a set's pods
  misses none of them (`EveryReplicaCounted`); the card shows the whole rationale
  (`WrappingIsTight`) and the scores of the decision (`CardsShowDecisions`).

`PROJECT.json` lists these hazards at their lines.

## The modules

```
WorkloadCompiler    Cluster          Placement             Exchange
        \             /                  |  INSTANCE ... WITH  |  INSTANCE ... WITH
         Controller                  Scheduler             Engine ---- EngineProofs
        /    |     \                 /    |   \               |
MCController |  ControllerProofs    /     |  SchedulerProofs MCEngine
             |        |            /  MCScheduler |
             |  ControllerSafety  /               |
             |        |          /                |
             |  ControllerAsks  /                 |
             |        |        /                  |
             |        +-- OperatorController      |       Prompts  Synthesis  RationaleCard
             |               |   /                |             \     |       /
              \              |  /        OperatorScheduler           MCTexts
               +-------- Operator -----------+                         |
                            |                                     TextsProofs
                        MCOperator
```

The modules ending in `Proofs`, `Safety` and `Asks`, `OperatorController` and `OperatorScheduler` hold
theorems only; see *What is proved*.

**`WorkloadCompiler`** has no state: `SpecHash` (`computeSpecHash`, the fields written one after
another without separators; a text is a sequence of tokens so that this is concatenation),
`ExplicitWorkload` and `SynthesizedWorkload` (the two ways of compiling). Containers are reduced
to the image, labels to the ownership label, annotations to the two the scheduler reads.

**`Cluster`** holds the objects of the API server, `sets` and `pods`, and what Kubernetes does to
them by itself. Pod names are numbers, because a List answers in the order of the names and the
controller's choice of victims depends on it.

**`Controller`** is `Reconcile` cut at its API and model calls: `pc[c]` is the call that controller
`c` makes next, and an action is that call with the code up to the next one: `Tick`, `Get`
(`GetMissing`), `CacheHit` / `CompileExplicit` / `Synthesize`, `ListPods`, `CreatePod`, `DeletePod`,
`Report` / `ReportFailure` (`ReportConflict`), `Panic`, and for each call an action in which it
fails. A call that changes something and fails may have changed it all the same (`CreateFails`).
The choices that abstract the code:

- A resource version is only ever compared with the current one, so `job[c].fresh` says whether the
  version of the Get still is that; every write to the set clears it in the other readers.
- A set may be written that the CRD accepts and the Go types do not hold (`Malformed`): the List skips it
  without a word (`crd_client.go:65`), the Get of a reconcile that had listed it before fails
  (`GetMissing`). `Converges` expects nothing of it until it is corrected.
- A uid is the number of the edit that created the set (in `Scheduler`: of the pod's creation).
- The random suffix of a pod name is any free name; `PrefixOf` says which set's name a pod name
  starts with.
- The sets of a round are reconciled in any order (the code: in the order of the List). A failed
  List of sets changes nothing and is a stuttering step. A Get, compile or List error is logged and
  the round goes on.
- A Delete gives the pod a grace period, whatever its phase; what `Reconcile` does not count any
  more it never looks at again.
- Editing a template does not touch the pods that exist; neither does the code. No property claims
  otherwise.
- A negative scale is allowed, as the CRD allows it. `Panic` is the slice index below zero that
  follows (`controller.go:152`). Scales near the limits of int32 are left out.

**`Scheduler`** is `ScheduleNext`, cut the same way: `ListPending`, `ListNodes`, `ListTelemetryPods`,
then for each pod of the batch `Decide`, `Bind` (`BindRefused`), `ReadBack`, `Update` (`UpdateRefused`),
`EmitSuccess`, and the failures. `Binding` is what the code sends (name, uid and the node of the
decision, unchecked), `Bindable` what the API server accepts of it. `job[s].seen` are the nodes in the
snapshot and `job[s].view[d][p]` is how often it counts pod `p` on node `d`; the code keeps a list of
names per node, and capacities and labels that only the prompt shows. `Strays` are answers outside the
candidate list, which the code passes on. A scheduler's batch is taken in the order of the names. The
last event is kept, no others.

A read-back finds the pod by name, so an answer without a node leaves its rationale on whatever pod
has the name by then; `NodeNamed` says that the model names a node.

**`Placement`** is what the schedulers, however many, amount to for a pod: it appears, is placed once,
may be explained (only where it is), and leaves. `Scheduler!ImplementsPlacement` is the refinement: of
a pod's annotation only the node it speaks of is seen, and everything of the batch, the snapshot and
the four calls is hidden.

**`Operator`** composes `Controller` and `Scheduler` by INSTANCE. They share the Pod objects only, and
each sees the fields its code reads: `pods[p]` is the controller's half, `placed[p]` the scheduler's.
`Follow` changes the second half in the same step in which the first is written. (A finished pod stays
finished for the scheduler when it is deleted, as its status phase does, and takes no room again.) Two
things are decided here that the components leave to their environments: a pod starts only on a node
that exists (`Starts`), and the pod garbage collector takes pods of nodes that left, and the finished
ones (`Lost`). A process may hold a controller, a scheduler, or both; `Panic` and `Crash` end the
process, so both lose their locals, and a shutdown is a crash: `main` stops the loops and returns
without waiting. `PluginSpec` is what `kubectl geminiset create` writes.

**`Prompts`**, **`Synthesis`** and **`RationaleCard`** are pure functions with a property each (two for
the card): names are sequences of pieces of text, so that `strings.Contains` is a contiguous part;
JSON is reduced to the forms the decoders tell apart; a word is its length; the product in `Filled` wraps
around as an int does (`MaxInt`). `MCTexts` makes each small
input a state.

**`Engine`** is one request to the model, of either kind: the two functions of `client.go` share the
loop. **`Exchange`** is what such a request looks like from outside; `Engine!ImplementsExchange`
is the refinement: a model call is counted when it is made (`Asked`), what is owed are the
function calls of the last turn, and a connection is held while any session is open.

## Running the checks

Mutations of the model that a plausible bug would cause are defined next to what they change
("Mutant: ..."); each property has one that breaks it.

| run | question | bounds |
|---|---|---|
| `single` | does one controller keep the scale, report only what it applied, and settle, whatever happens around it? | one set, pod names 1..3, scales 1 and 2 explicit, by template, or left to the model's answer (0 or 2), one template that does not convert; two creates or edits, one delete, one failed call, one crash, one disrupted pod |
| `asks` | does a process have the model compile each version once, and does a set run only what was compiled for it? | two controllers, two sets, pod names 1 and 2, two edits or creations, a delete, a crash; the answer leaves the label alone or makes it the second set's |
| `overlap` | what can two controllers do to each other, and what does a negative scale do? | two controllers, scales -1, 1 and 2, two edits, a delete, a failure, a crash |
| `scaleDown` | do deletes from stale lists go below the scale? | two controllers, one scale (2), pod names 1..4, a failure, a crash, kubelet reports |
| `alone` | is the snapshot right, is a rationale the pod's own, is every pod bound? | one scheduler, three creations under two names, a deletion, a node change, a failure, a crash; the model also answers a node that is not there, or none |
| `pair` | do two schedulers that decide differently place a pod once and explain it where it is? | two schedulers, two pods, two nodes, a deletion, a kubelet write, a failure |
| `operator` | do controller and scheduler together deploy what is asked, and leave the model alone then? | one process, one set, two pod names, one node; a set is created by the plugin, or with a negative scale, and any two more things happen: an edit, a deletion, a failed call, a crash, an evicted pod, the node joining or leaving |
| `request` | does a request answer, end and clean up? | two servers listing the same tool, one more name that nobody lists, one or two function calls per turn, the code's five rounds |
| `texts` | are the pure functions right for every small input? | two pods of three sets in two namespaces on two nodes; two ports, hints and resources in every spelling; five words on lines of five; scores on both sides of each threshold, and at both ends of an int of 16 bits |
| `hash`, `event`, `explained` | statements of the documentation that do not hold, see below | as little as it takes |

Why the bounds suffice: the interesting races need an old version and a new one (two edits), an
object and its successor of the same name (one delete), one lost answer or one crash at the worst
moment, and two actors. Scale 2 with three or four names has a pod to keep, one to make or delete,
and a free name. Every budget (`Limit`, by kind) is used up in some behaviours, and every
failure action occurs at every point it can.

The runs of `Controller` and `Scheduler` check for deadlock: a controller always has its next tick.
So does `operator`. A request of `Engine` ends, so its run does not.

### Fairness

`Controller!Fairness`: each controller takes its next step (`Start` is a ticker in an endless loop and
`Reconcile` makes one call after another, each of which returns), the kubelet removes a pod whose grace
period is over, and the garbage collector deletes a pod whose owner is gone. No fairness on users,
kubelet reports, disruptions, failures or crashes: they are bounded, because no controller converges
under faults that never end. `Scheduler!Fairness` is the same for its ticker. `EveryPodBound` also
assumes that from some time on nodes exist and the model names one (`NodeNamed`). `Operator!Fairness`:
both goroutines of a process take their next step (`go ctrl.Start`, `go sched.Start`), kubelets start
bound pods (`Starts`) and the garbage collectors do their work (`Lost`: without it a pod bound to a node
that left would be counted for ever; that it also takes finished pods frees their names, of which the
run has two and the code a million). Its properties assume that in the end there is a node, every set
converts and none asks for a negative scale (`Serviceable`): a negative one makes the process die on
every round. `Engine` assumes that each call returns: the HTTP client of the MCP sessions has a timeout,
the model's is assumed to answer or fail.

### Findings

- `hash`: `computeSpecHash` writes the fields without separators; prompt `web2` without a scale and
  prompt `web` with scale 2 have the same hash. After an edit from one to the other the cached
  workload of the first is reported as the second's (`compiler.go:53`).
- `event`: a failed binding is only logged, and the event "Successfully assigned ..." follows.
- `explained`: binding and rationale are two writes. If the kubelet writes the pod's status between
  the read-back and the update, the update is refused and logged, the pod is no longer pending, and it
  never gets the rationale the README promises.

### Divergences seen

Met while modelling; no run checks them yet. The model has the behaviour in each case.

- `isPodReady` returns true for every running pod, whatever its Ready condition (`controller.go:238`).
- Each failed compilation appends one more `AICompiled` condition (`controller.go:70`).
- After failed deletions the desired number is reported as `Replicas` (`controller.go:158`).
- Beside a prompt, the template of the specification has no effect (`compiler.go:108`).
- The template-only path does not pass the MCP servers on to the pods (`compiler.go:87`).
- Scaling a set changes its fingerprint, so the model is asked again; README.md (Cost) says that
  replica scaling does not re-synthesize (`compiler.go:52`). `Controller` has it so.
- An answer without `replicas` scales to zero, while a template without a scale means three
  (`types.go:26`, `compiler.go:240`).
- A negative scale panics in the controller's goroutine, which ends the whole operator, the scheduler
  included, on every round until somebody corrects it (`controller.go:152`).
- Pods that succeeded or failed are replaced but never deleted (`controller.go:104`).
- The rationale of an answer without a node may land on a younger pod of the same name
  (`scheduler.go:146`).
- `why` shows the scores 95, 90 and 95 for a pod that has none, as if the model had given them
  (`kubectl-geminiset/main.go:158`).
- The owner's pods are counted by substring, without the namespace: `my-web-1` counts for `web`
  (`prompt.go:114`).
- A port list that mixes numbers and objects, or a hint list with anything but texts, is dropped whole;
  in a list of numbers non-positive ports are kept, in a list of objects they are dropped
  (`types.go:136`).
- A rationale that begins with a word as long as the line starts with a blank line (`format.go:104`).
- A specification that does not fit the Go types is skipped by every List, without a log line or a
  condition on the set (`crd_client.go:65`).
- A pod whose binding was refused or failed is still counted on the node it was decided for, for the rest
  of the batch: the model is shown a node that is fuller than it is (`scheduler.go:139`, `172`).
- A score beyond the largest int divided by 15 overflows, and its bar may be empty (`format.go:80`).
- Labels of the answer may replace the ownership label by which the controller finds its pods
  (`compiler.go:125`). The List selects by the set's name, so it then finds none of them and the full scale
  is created on every round; and if the label names another set, that one counts and deletes them.
- A restart of the controller asks the model about every set again (`compiler.go:36`).
- An answer of the model that names no node is refused by the binding, but the update goes through and
  puts a rationale onto an unscheduled pod (`scheduler.go:146`).

## What is proved

TLAPS checks the theorems below for every value of the constants: any number of controllers,
schedulers, sets, pod names, nodes, specifications, answers and disturbances, any number of MCP
servers and any length of a turn. Where a theorem states a property of a run, the run shows it on
the small instance first. The invariants are strengthenings found by looking at what a step needs,
and TLC checked them on the runs' instances before they were proved.

*Assumptions on the constants*, each stated where the constant is declared. `Controller`: pod names are
a finite set of numbers (`PodsAssumption`), each starts with one set's name (`PrefixAssumption`),
budgets are numbers (`LimitAssumption`), scales are integers (`ScalesAssumption`). `Scheduler`: the same
of pod names and budgets, and an answer outside the candidates names another node or none
(`StraysAssumption`). `Engine`: servers are a sequence, each lists finitely many tools, a turn has a
bounded number of calls. `RationaleCard`: the largest int is a natural number (`MaxIntAssumption`).
`Synthesis`: a quantity is a text that is not empty (`QuantitiesAssumption`); `MCTexts`: the quantities
of its inputs are quantities (`InputsAssumption`). In all of them `None`, which stands for nil and for
absence, is no other value (`NoneAssumption`, `AbsenceAssumption`).

*Hypotheses of single theorems*, where the property holds only under a condition:

| hypothesis | meaning | why |
|---|---|---|
| `HashSeparates` | specifications with one fingerprint have one explicit scale | the run `hash` shows what happens otherwise |
| `Alone` | there is one controller (scheduler) | a second one acts on a list of its own; `ContributionBounded`, `RationaleMatchesNode` and the refinement are what holds for several |
| `OneScale`, `OwnLabels`, `Undisturbed` | one scale is asked for, answers leave the ownership label alone, nobody else removes pods | what "below the scale" means for controllers with different lists |
| `AnswersNamed` | the model's answers name a node | the last entry of *Divergences seen* |

### The controller

`ControllerProofs`, `ControllerSafety`, `ControllerAsks`.

- `TypeCorrect`: `Spec => []TypeOK`, from `Inductive`: `Spec => []IInv`, with
  `IInv == TypeOK /\ FreshIsCurrent`. `TypeOK` alone is not inductive: a status is written into the set
  of the job's name, which must still be there and be the one the job read; `FreshIsCurrent` says so.
  One lemma per action. `TypeOK` includes `LocalsOK`: the set and the compilation that `Reconcile`
  dereferences are there when it does.
- `EachWithinScale`: `[]ContributionBounded`, inductive on top of `IInv`. Most steps are *quiet*: they
  make no pod active and begin no creation, and a contribution can only shrink (`QuietKeeps`). A List
  sets what is still to create to the scale less the pods listed, and a controller's own pods are among
  those (`ListPodsContribution`); a creation moves one pod from still-to-create to made
  (`CreatePodContribution`).
- `NeverOvershoots`: `Alone` implies `[]NoOvershoot`, from `AllScaled`, which says it of every set and
  controller: the pods counted by the List can only become fewer while the controller creates.
- `ObservedIsApplied`: `HashSeparates` implies `[]ObservedMeansApplied`. The strengthening, `AppliedInv`:
  a cache entry has the scale of a specification with its hash, a job's compilation has the scale of the
  set it read, no status is ahead of its set's generation.
- `NegativeIsNeverReported`: `[]NegativeNeverReported`, from `NegativeInv`: a job that creates or
  reports has a scale that is not negative, since the loop over the victims leads to the status write
  for no other.
- `WorkloadsAreOwn`: `[]OwnWorkload`, from `OwnInv`: what is in the cache under a name, in a job, and in
  an active pod was compiled for that name, that set, that owner. Answers may bring any labels; where
  they leave the ownership label alone (`OwnLabels`), it is the set's own, which `ScaleHolds` needs.
- `ScaleHolds`: `OneScale`, `OwnLabels` and `Undisturbed` imply `NeverBelowScale`, an action property.
  From `ScaleInv`: each victim of each list, of any age, has a scale's worth of active pods of the set
  with smaller names (`VictimsSpare`). No delete of another victim takes it away, because
  the victims of a list are its largest names.
- `AskedOnce`: `AskOncePerVersion`, an action property, for any number of controllers and without a
  hypothesis. From `AskInv`: of a version that the model was asked about, the answer is in the cache under
  the hash of that version for as long as the set or the controller's job still has the version, and
  versions (creation and generation) only go up. A restart empties the cache, and what was asked about
  with it; a negative scale ends the process in the same way.

### The scheduler

`SchedulerProofs`.

- `TypeCorrect`: `[]TypeOK`, from `IInv == TypeOK /\ FreshIsCurrent`: a resource version known to be
  current is that of a pod that exists, and on the node that was read, else the update would write into
  nothing. `TypeOK` includes that a decision is made with a batch and with candidates.
- `StepMoves`: every step is one of a few kinds (`Moves`: a pod arrives or is rewritten, a scheduler binds,
  annotates, ...). The theorems below use nothing else of a step, so that they can be carried over.
- `RationaleFollows`: `AnswersNamed` implies `[]RationaleMatchesNode`. `PlacedInv` adds that a decision
  stays named from call to call, and that only a pod on a node is explained: an unplaced pod with a
  rationale would satisfy the property until the next binding.
- `PlacementImplemented`: `AnswersNamed` implies that `Scheduler` implements `Placement`: initial states
  to initial states, and each kind of step to `Appear`, `Place`, `Explain`, `Leave` or a stutter.
- `SnapshotIsComplete`, `NothingCountedTwice`, `RationaleForOwnPod`: `Alone` implies
  `[]SnapshotComplete`, `[]CountedOnce` and `[]RationaleIsOwn`. From `SnapshotInv`: the pods of the batch
  wait, but for the first one, which this scheduler may just have bound (`Waiting`); what occupies a
  candidate is in the snapshot or is that pod (`Shown`); nothing of the batch is counted before it is
  dealt with (`Uncounted`), and nothing twice (`Once`).

### The Gemini client

`EngineProofs`.

- `TypeCorrect`: `[]TypeOK`, with `PhasesOK`: function calls are served only below the round limit, and
  the clean-up knows every open session.
- `CallsAnswered`: `[]AllCallsAnswered`. The property says nothing while calls are being served, so the
  invariant (`AnswersDue`) speaks of the conversation as it will be when the calls still due have their
  responses.
- `ExchangeImplemented`: `Engine` implements `Exchange`: at most five model calls, none while a call is
  unanswered, one end, and every session closed by then.

### The processes

`OperatorController` extends the proofs about the controller and instantiates `Operator`: every step of
the composition is, for the controllers, a step of `Controller`, or one of three kinds *beside* it (`Steps`,
`Beside`): a pod starts without a budget, a pod is lost with its node, a process without a controller
crashes. These keep the inductive invariants, so `TypeOK`, `ContributionBounded`, `NoOvershoot`,
`ObservedMeansApplied`, `NegativeNeverReported`, `OwnWorkload` and `AskOncePerVersion` hold of
`Operator!Spec`, under the hypotheses they have there. `NeverBelowScale` does not carry over and should not:
nodes that leave take pods with them.

`OperatorScheduler` does the same for the schedulers. Here the environment is another one than
`Scheduler`'s, as the pods are the controllers' objects. Each step of the controllers and of the cluster
writes at most one object (`Written`), whatever it writes is, for the schedulers, a pod that arrives or is
rewritten (`FollowMoves`), and a process that dies is a `ScheduleNext` that returns. So every step of the
composition is one of `Moves` (`WholeStep`). The lemma `HalvesInStep` keeps the model's two halves of a pod
together: both programs see a pod from its creation to
its removal and with the same phase, and it runs only once it has a node. `TypeOK`, `RationaleMatchesNode`,
`ImplementsPlacement`, `SnapshotComplete`, `CountedOnce` and `RationaleIsOwn` follow: the operator as a
whole implements `Placement`. Proving this showed that `Operator` let a finished pod count again once it
was deleted; `Half` now keeps its phase.

`WholeTyped` puts `Operator!TypeOK` together from `ControllersTyped`, `SchedulersTyped` and
`HalvesInStep`. The first is proved in `OperatorController`, whose names are those of the other
component, so the two modules cannot be joined and here it is a hypothesis.

### The texts

`TextsProofs`, about the pure functions of `Prompts`, `Synthesis` and `RationaleCard`. Each property is
proved for every input, and from that the invariants of the run `texts` (`TheReplicasAreCounted`,
`TheSpellingsAgree`, `TheWrappingIsTight`, `CardsShowTheDecisions`).

- `EveryReplicaIsCounted`: for any list of pods with any names in any namespaces. Its hypothesis is how
  `Reconcile` names the pods of the set in question, set-suffix; a name then contains the set's, and the
  list of names of a node holds a name for each pod (`NamesCounted`).
- `EverySpellingMeansTheSame`: for every container that can be meant (`Sayable`: ports above zero,
  quantities for some of the fields, hints without repetition) and every spelling the decoders accept
  (`Accepted`), whatever stale texts the nested block repeats.
- `WrapTextIsTight`: for any text and any width. The invariant of the loop (`Laid`) keeps where each line
  ends among the words, and that the word after a line did not fit on it. Any other layout that fits
  therefore has a break within the reach of each line but the last (`WrapNeedsBreaks`), and no two lines
  share one.
- `EveryCardShowsItsDecision`: for any matrix of ints and any size of an int, the ones far outside 0..100
  included; that a better score has no shorter bar only where the product does not overflow (`HasBar`).

The list of names, the length of a line and the wrapping are folds, that is recursive functions on sets
of indexes. The provers cannot instantiate a theorem that has an operator as parameter, so induction
is stated for a set of numbers (`NatSetInduction`, from the well-foundedness of the naturals; `UpTo` for the
rounds of a loop), and a fold is compared with the function its equation defines: that function exists
(`FoldExists`), and along 1..0, 1..1, 1..2 and so on it takes the values of the loop (`FoldPrefixes`).

### Only model-checked

Liveness (`Converges`, `EveryPodBound`, `Terminates`, `EverySetDeployed`, `CostsDrop`): the prover handles
neither fairness nor ENABLED. Every other property of the passing runs is the subject of a theorem.

## Not modelled

The wording of the prompts and the layout of the card; node capacities, labels and taints, which only
the prompt shows; flags, client set-up, and the conversion to and from unstructured objects but for its
failure; generated deep copies, test doubles and manifests. Two controllers or schedulers in `Operator`
at once are in reach of its constants, but not of its run: `overlap`, `scaleDown` and `pair` check the
components for two.

## What could be added

- `ScaleHolds` with disturbances: not below the scale less the pods that others removed.
- The scale of a set whose answers replace its ownership label, and of the set they name.
- The measure by which a controller's rounds end, as a safety property: a first part of `Converges` that
  the prover could check.

## Reproducing

In this directory: `tlc -workers 2 -config MCController_Single.cfg MCController` and likewise for the
other `.cfg` files (`PROJECT.json`, `runs`); `tlapm ControllerProofs.tla` and likewise for
`ControllerSafety`, `ControllerAsks`, `SchedulerProofs`, `EngineProofs`, `OperatorController`,
`OperatorScheduler` and `TextsProofs`.
