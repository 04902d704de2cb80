----------------------------- MODULE Scheduler -----------------------------
(***************************************************************************)
(* The Gemini scheduler (pkg/scheduler/scheduler.go, with the telemetry of *)
(* pkg/scheduler/context.go), one or more instances of it, running against *)
(* the pods and nodes of a cluster.                                        *)
(*                                                                         *)
(* On every tick ScheduleNext lists the pending pods, takes a snapshot of  *)
(* the nodes and of the pods on them, and asks the model for a node for    *)
(* each pending pod in turn.  Then it binds the pod, reads it back, writes *)
(* the rationale into its annotations and emits an event, whatever became  *)
(* of the calls before.  pc[s] is the call that scheduler s makes next; an *)
(* action is that call with the code up to the next one.                   *)
(*                                                                         *)
(*   pods[p] == None or [uid, node, phase, ann]: node is None until the    *)
(*     pod is bound; ann is None or [uid, node], the decision whose        *)
(*     rationale the annotations hold, and the pod it was made for         *)
(*   job[s].seen: the nodes in the snapshot, the candidates                *)
(*   job[s].view[d][p]: how often the snapshot counts pod p on node d      *)
(***************************************************************************)
EXTENDS Integers, FiniteSets

CONSTANTS Pods,         \* names of pods (all in one namespace)
          Nodes,        \* names a node may have
          Schedulers,   \* scheduler processes alive at the same time
          Strays,       \* what the model may answer beside a candidate
          Limit,        \* how often each kind of disturbance may happen
          None          \* no pod, no node, no annotation; the empty answer

\* Bounded: pods created or deleted, nodes joining or leaving, status writes
\* of the kubelet, failed calls, crashes of a scheduler.
Kinds == {"create", "delete", "node", "kubelet", "fault", "crash"}

ASSUME PodNamesAssumption == Pods \subseteq Nat /\ IsFiniteSet(Pods)

ASSUME StraysAssumption == Strays \subseteq Nodes \cup {None} /\ None \notin Nodes

ASSUME LimitAssumption == Limit \in [Kinds -> Nat]

VARIABLES pods, nodes,  \* the API server's objects
          pc,     \* the step each scheduler is at
          job,    \* the locals of each scheduler's ScheduleNext
          event,  \* the event emitted last: [reason, uid, node]
          spent   \* disturbances so far, by kind

vars == <<pods, nodes, pc, job, event, spent>>

NoView == [d \in Nodes |-> [p \in Pods |-> 0]]

\* batch: the pods still to schedule; node: the decision for the first of
\* them; read: the node of the pod as it was read back; fresh: whether the
\* resource version read then is still the current one.
NoJob == [batch |-> {}, seen |-> {}, view |-> NoView, node |-> None,
          read |-> None, fresh |-> FALSE]

Init ==
    /\ pods = [p \in Pods |-> None]
    /\ nodes \in SUBSET Nodes
    /\ pc = [s \in Schedulers |-> "idle"]
    /\ job = [s \in Schedulers |-> NoJob]
    /\ event = None
    /\ spent = [k \in Kinds |-> 0]

Spend(k) == spent[k] < Limit[k] /\ spent' = [spent EXCEPT ![k] = @ + 1]

ClusterUnchanged == UNCHANGED <<pods, nodes, event>>

\* A batch is taken in the order of the names.
First(batch) == CHOOSE item \in batch :
                  \A other \in batch : item.name <= other.name

\* The pod that scheduler s is at.
Head(s) == First(job[s].batch)

\* The resource version of pod p moves on: the schedulers that have read it
\* hold an old one.
Outdated(p) ==
    [s \in Schedulers |->
        IF job[s].batch # {} /\ Head(s).name = p
        THEN [job[s] EXCEPT !.fresh = FALSE] ELSE job[s]]

-----------------------------------------------------------------------------
(***************************************************************************)
(* The batch and the snapshot.                                             *)
(***************************************************************************)
\* Mutant: bound pods are listed again.
PendingAny(p) == pods[p] # None /\ pods[p].phase # "Terminating"

Pending(p) == /\ pods[p] # None
              /\ pods[p].node = None
              /\ pods[p].phase # "Terminating"

Goto(s, step) == pc' = [pc EXCEPT ![s] = step]

\* ScheduleNext returns.
Return(s) ==
    /\ Goto(s, "idle")
    /\ job' = [job EXCEPT ![s] = NoJob]

\* With nothing to schedule the tick is over.
ListPending(s) ==
    /\ pc[s] = "idle"
    /\ LET pending == {p \in Pods : Pending(p)}
       IN  IF pending = {} THEN UNCHANGED <<pc, job>>
           ELSE /\ job' = [job EXCEPT ![s].batch =
                             {[name |-> p, uid |-> pods[p].uid] : p \in pending}]
                /\ Goto(s, "nodes")
    /\ ClusterUnchanged /\ UNCHANGED spent

\* CollectTelemetry lists the nodes; the pods on them are counted later.
ListNodes(s) ==
    /\ pc[s] = "nodes"
    /\ job' = [job EXCEPT ![s].seen = nodes]
    /\ Goto(s, "telemetry")
    /\ ClusterUnchanged /\ UNCHANGED spent

\* A pod takes room on its node until it has finished.
Occupies(p, d) == /\ pods[p] # None
                  /\ pods[p].node = d
                  /\ pods[p].phase # "Done"

\* The pods on the candidates; one on another node is not counted.
TakeSnapshot(s) ==
    /\ job' = [job EXCEPT ![s].view =
                 [d \in Nodes |-> [p \in Pods |->
                    IF d \in job[s].seen /\ Occupies(p, d) THEN 1 ELSE 0]]]
    /\ Goto(s, "decide")

\* Mutant: without candidates the scheduler keeps its empty list of nodes.
ListTelemetryWaits(s) ==
    /\ pc[s] = "telemetry"
    /\ IF job[s].seen = {} THEN UNCHANGED <<pc, job>> ELSE TakeSnapshot(s)
    /\ ClusterUnchanged /\ UNCHANGED spent

\* Mutant: an empty list of candidates is not noticed.
ListTelemetryUnchecked(s) ==
    /\ pc[s] = "telemetry"
    /\ TakeSnapshot(s)
    /\ ClusterUnchanged /\ UNCHANGED spent

\* Without candidates ScheduleNext returns.
ListTelemetryPods(s) ==
    /\ pc[s] = "telemetry"
    /\ IF job[s].seen = {} THEN Return(s) ELSE TakeSnapshot(s)
    /\ ClusterUnchanged /\ UNCHANGED spent

ListFails(s) ==
    /\ pc[s] \in {"nodes", "telemetry"}
    /\ Spend("fault")
    /\ Return(s)
    /\ ClusterUnchanged

-----------------------------------------------------------------------------
(***************************************************************************)
(* One pod of the batch.                                                   *)
(***************************************************************************)
\* On to the next pod of the batch, its snapshot being view.
NextPod(s, view) ==
    LET rest == job[s].batch \ {Head(s)}
    IN  IF rest = {} THEN Return(s)
        ELSE /\ job' = [job EXCEPT ![s] = [NoJob EXCEPT !.batch = rest,
                                                        !.seen = job[s].seen,
                                                        !.view = view]]
             /\ Goto(s, "decide")

Emit(s, reason) == event' = [reason |-> reason, uid |-> Head(s).uid,
                             node |-> job[s].node]

Decide(s) ==
    /\ pc[s] = "decide"
    /\ \E d \in job[s].seen \cup Strays : job' = [job EXCEPT ![s].node = d]
    /\ Goto(s, "bind")
    /\ ClusterUnchanged /\ UNCHANGED spent

\* The model is not reached, or its answer is no decision: a FailedScheduling
\* event, if that call works.
DecideFails(s) ==
    /\ pc[s] = "decide"
    /\ Spend("fault")
    /\ UNCHANGED event \/ Emit(s, "FailedScheduling")
    /\ NextPod(s, job[s].view)
    /\ UNCHANGED <<pods, nodes>>

\* Mutant: the binding does not carry the uid.
BindingByName(s) == [name |-> Head(s).name, uid |-> None, node |-> job[s].node]

\* The binding is for the pod of the batch, its uid included, and names the
\* node of the decision, whatever that is.
Binding(s) == [name |-> Head(s).name, uid |-> Head(s).uid, node |-> job[s].node]

\* The API server binds a pod once, while it is not being deleted, to a node
\* with a name (the node need not exist); a uid must be the pod's, none will
\* do for any.
Bindable(binding) ==
    LET pod == pods[binding.name]
    IN  /\ pod # None
        /\ binding.uid \in {pod.uid, None}
        /\ pod.node = None
        /\ pod.phase # "Terminating"
        /\ binding.node # None

BindTo(s) ==
    LET p == Head(s).name
    IN  /\ pods' = [pods EXCEPT ![p].node = job[s].node]
        /\ job' = Outdated(p)

Bind(s) ==
    /\ pc[s] = "bind"
    /\ Bindable(Binding(s))
    /\ BindTo(s)
    /\ Goto(s, "get")
    /\ UNCHANGED <<nodes, event, spent>>

\* The API server refuses; the error is logged and the code goes on.
BindRefused(s) ==
    /\ pc[s] = "bind"
    /\ ~Bindable(Binding(s))
    /\ Goto(s, "get")
    /\ ClusterUnchanged /\ UNCHANGED <<job, spent>>

\* The call or its answer is lost; the code goes on all the same.
BindFails(s) ==
    /\ pc[s] = "bind"
    /\ Spend("fault")
    /\ Goto(s, "get")
    /\ UNCHANGED <<nodes, event>>
    /\ \/ UNCHANGED <<pods, job>>
       \/ Bindable(Binding(s)) /\ BindTo(s)

\* The pod is read back, by name.
ReadBack(s) ==
    /\ pc[s] = "get"
    /\ IF pods[Head(s).name] = None
       THEN Goto(s, "event") /\ UNCHANGED job
       ELSE /\ job' = [job EXCEPT ![s].read = pods[Head(s).name].node,
                                  ![s].fresh = TRUE]
            /\ Goto(s, "update")
    /\ ClusterUnchanged /\ UNCHANGED spent

ReadBackFails(s) ==
    /\ pc[s] = "get"
    /\ Spend("fault")
    /\ Goto(s, "event")
    /\ ClusterUnchanged /\ UNCHANGED job

\* Mutant: the node is left out of the update.
UpdatableAnywhere(s) == job[s].fresh

\* The update carries the decided node and the rationale.  The API server
\* takes it if the resource version is current and the node unchanged: an
\* update cannot move a pod.
Updatable(s) == job[s].fresh /\ job[s].read = job[s].node

Annotate(s) ==
    LET p == Head(s).name
    IN  /\ pods' = [pods EXCEPT ![p].ann =
                      [uid |-> Head(s).uid, node |-> job[s].node]]
        /\ job' = Outdated(p)

Update(s) ==
    /\ pc[s] = "update"
    /\ Updatable(s)
    /\ Annotate(s)
    /\ Goto(s, "event")
    /\ UNCHANGED <<nodes, event, spent>>

\* The update is refused; the error is logged and the code goes on.
UpdateRefused(s) ==
    /\ pc[s] = "update"
    /\ ~Updatable(s)
    /\ Goto(s, "event")
    /\ ClusterUnchanged /\ UNCHANGED <<job, spent>>

UpdateFails(s) ==
    /\ pc[s] = "update"
    /\ Spend("fault")
    /\ Goto(s, "event")
    /\ UNCHANGED <<nodes, event>>
    /\ \/ UNCHANGED <<pods, job>>
       \/ Updatable(s) /\ Annotate(s)

\* Mutant: the assignment is not added to the snapshot.
CountedNever(s) == job[s].view

\* The rest of the batch is to see this assignment.
Counted(s) ==
    LET d == job[s].node
    IN  IF d \in job[s].seen
        THEN [job[s].view EXCEPT ![d][Head(s).name] = @ + 1]
        ELSE job[s].view

\* The event of a success, and on to the next pod.
EmitSuccess(s) ==
    /\ pc[s] = "event"
    /\ Emit(s, "ScheduledByGeminiFlash")
    /\ NextPod(s, Counted(s))
    /\ UNCHANGED <<pods, nodes, spent>>

\* The event is lost: the error is ignored.
EmitFails(s) ==
    /\ pc[s] = "event"
    /\ Spend("fault")
    /\ NextPod(s, Counted(s))
    /\ ClusterUnchanged

\* The process is killed between any two calls and restarted.
Crash(s) ==
    /\ Spend("crash")
    /\ Return(s)
    /\ ClusterUnchanged

-----------------------------------------------------------------------------
(***************************************************************************)
(* The cluster around the schedulers.  A pod's uid is the number of its    *)
(* creation.                                                               *)
(***************************************************************************)
CreatePod(p) ==
    /\ pods[p] = None
    /\ Spend("create")
    /\ pods' = [pods EXCEPT ![p] = [uid |-> spent["create"] + 1, node |-> None,
                                    phase |-> "Active", ann |-> None]]
    /\ UNCHANGED <<nodes, pc, job, event>>

SetPhase(p, phase) ==
    /\ pods' = [pods EXCEPT ![p].phase = phase]
    /\ job' = Outdated(p)

Remove(p) ==
    /\ pods' = [pods EXCEPT ![p] = None]
    /\ job' = Outdated(p)

\* A pod that runs on a node is given its grace period, others go at once.
DeletePod(p) ==
    /\ pods[p] # None
    /\ pods[p].phase # "Terminating"
    /\ Spend("delete")
    /\ IF pods[p].node = None \/ pods[p].phase = "Done"
       THEN Remove(p)
       ELSE SetPhase(p, "Terminating")
    /\ UNCHANGED <<nodes, pc, event>>

\* The grace period is over, or the node the pod is bound to does not exist.
PodGone(p) ==
    /\ pods[p] # None
    /\ pods[p].node # None
    /\ pods[p].phase = "Terminating" \/ pods[p].node \notin nodes
    /\ Remove(p)
    /\ UNCHANGED <<nodes, pc, event, spent>>

\* The containers of a pod end, and the kubelet of its node says so.
Finish(p) ==
    /\ pods[p] # None
    /\ pods[p].node \in nodes
    /\ pods[p].phase = "Active"
    /\ Spend("kubelet")
    /\ SetPhase(p, "Done")
    /\ UNCHANGED <<nodes, pc, event>>

\* The kubelet writes something else into the status of a pod on its node.
KubeletReport(p) ==
    /\ pods[p] # None
    /\ pods[p].node \in nodes
    /\ Spend("kubelet")
    /\ job' = Outdated(p)
    /\ UNCHANGED <<pods, nodes, pc, event>>

\* A node joins or leaves.
NodeChange(d) ==
    /\ Spend("node")
    /\ nodes' = IF d \in nodes THEN nodes \ {d} ELSE nodes \cup {d}
    /\ UNCHANGED <<pods, pc, job, event>>

-----------------------------------------------------------------------------
\* What a scheduler does by itself, every call reaching the server.
Step(s) ==
    \/ ListPending(s) \/ ListNodes(s) \/ ListTelemetryPods(s)
    \/ Decide(s)
    \/ Bind(s) \/ BindRefused(s)
    \/ ReadBack(s)
    \/ Update(s) \/ UpdateRefused(s)
    \/ EmitSuccess(s)

\* A call that goes wrong.
CallFails(s) ==
    \/ ListFails(s)
    \/ DecideFails(s)
    \/ BindFails(s)
    \/ ReadBackFails(s)
    \/ UpdateFails(s)
    \/ EmitFails(s)

\* What may go wrong for a scheduler.
Fault(s) == CallFails(s) \/ Crash(s)

Environment ==
    \/ \E p \in Pods : \/ CreatePod(p) \/ DeletePod(p) \/ PodGone(p)
                       \/ Finish(p) \/ KubeletReport(p)
    \/ \E d \in Nodes : NodeChange(d)

Next ==
    \/ \E s \in Schedulers : Step(s) \/ Fault(s)
    \/ Environment

Spec == Init /\ [][Next]_vars

\* The ticker of Start fires again and again, and ScheduleNext makes one call
\* after another; the cluster, the failures and the crashes owe nothing.
Fairness == \A s \in Schedulers : WF_vars(Step(s))

FairSpec == Spec /\ Fairness

-----------------------------------------------------------------------------
(***************************************************************************)
(* Properties.                                                             *)
(***************************************************************************)
Steps == {"idle", "nodes", "telemetry", "decide", "bind", "get", "update",
          "event"}

Items == [name : Pods, uid : Nat]

Annotations == [uid : Nat, node : Nodes \cup {None}]

PodObjects == [uid : Nat, node : Nodes \cup {None},
               phase : {"Active", "Done", "Terminating"},
               ann : Annotations \cup {None}]

Views == [Nodes -> [Pods -> Nat]]

Jobs == [batch : SUBSET Items, seen : SUBSET Nodes, view : Views,
         node : Nodes \cup {None}, read : Nodes \cup {None}, fresh : BOOLEAN]

\* What a scheduler's locals are at each step: the names of a batch differ,
\* and the code works on a pod of it, with at least one candidate.
LocalsOK(s) ==
    /\ \A i, j \in job[s].batch : i.name = j.name => i = j
    /\ pc[s] # "idle" => job[s].batch # {}
    /\ pc[s] \in {"decide", "bind", "get", "update", "event"} =>
         job[s].seen # {}

\* The type invariant: the state has the shape the code gives it.
TypeOK ==
    /\ pods \in [Pods -> PodObjects \cup {None}]
    /\ nodes \subseteq Nodes
    /\ pc \in [Schedulers -> Steps]
    /\ job \in [Schedulers -> Jobs]
    /\ event \in {None} \cup
         [reason : {"ScheduledByGeminiFlash", "FailedScheduling"}, uid : Nat,
          node : Nodes \cup {None}]
    /\ spent \in [Kinds -> Nat]
    /\ \A s \in Schedulers : LocalsOK(s)

\* The rationale on a pod explains the node the pod is on, also when two
\* schedulers decide differently about it at the same time: the loser's
\* rationale is never written over the winner's.
RationaleMatchesNode ==
    \A p \in Pods :
        pods[p] # None /\ pods[p].ann # None => pods[p].ann.node = pods[p].node

\* With a single scheduler the rationale on a pod was given for that pod, not
\* for an earlier one of the same name that was deleted after the List, and
\* the pod is on the node it speaks of.  The exception is the rationale of an
\* answer without a node, which may end up on any pod of the name.
RationaleIsOwn ==
    \A p \in Pods :
        LET ann == pods[p].ann
        IN  pods[p] # None /\ ann # None /\ ann.node # None
              => ann.uid = pods[p].uid /\ ann.node = pods[p].node

\* When a single scheduler asks the model, the snapshot it shows has every
\* pod that occupies a candidate node, the ones bound earlier in the same
\* batch included, whatever came of their updates and events.
SnapshotComplete ==
    \A s \in Schedulers :
        pc[s] = "decide" =>
            \A d \in job[s].seen, p \in Pods :
                Occupies(p, d) => job[s].view[d][p] > 0

\* ... and counts no pod twice: on one candidate at most, and once there.  (A
\* pod whose binding was refused or lost counts as well, on the node it was
\* decided for.)
CountedOnce ==
    \A s \in Schedulers, p \in Pods :
        \A d, e \in job[s].seen :
            /\ job[s].view[d][p] <= 1
            /\ job[s].view[d][p] > 0 /\ job[s].view[e][p] > 0 => d = e

\* A decision names a node.  The code does not check it: an answer without
\* one is carried through every call.
NodeNamed == \A s \in Schedulers : pc[s] = "bind" => job[s].node # None

\* Every pod that waits is bound in the end, if there are nodes and the model
\* comes to name them: a failure at any call, or an answer without a node,
\* only delays it to a later tick.
EveryPodBound ==
    <>[](nodes # {} /\ NodeNamed) => \A p \in Pods : <>[](~Pending(p))

PlacedPods == [node : Nodes \cup {None}, why : Nodes \cup {None}]

\* None is the absence of any of these.
ASSUME AbsenceAssumption ==
    None \notin Nat \cup Annotations \cup PodObjects \cup PlacedPods

\* A pod as Placement.tla sees it.
Placed(p) ==
    IF pods[p] = None THEN None
    ELSE [node |-> pods[p].node,
          why  |-> IF pods[p].ann = None THEN None ELSE pods[p].ann.node]

Abstract == INSTANCE Placement WITH pods <- [p \in Pods |-> Placed(p)]

\* The schedulers place a pod once and explain only where it is, whatever
\* they decide at the same time, as long as the model names a node.
ImplementsPlacement == Abstract!Spec

-----------------------------------------------------------------------------
(***************************************************************************)
(* What the documentation says and the code does not do: each of these is  *)
(* refuted by a run of its own.                                            *)
(***************************************************************************)
\* The pod that an event "Successfully assigned ... to node ..." speaks of is
\* on that node, or gone (scheduler.go).
SuccessIsTrue ==
    [][\A s \in Schedulers : EmitSuccess(s) =>
         LET p == Head(s).name
         IN  pods[p] # None /\ pods[p].uid = Head(s).uid
               => pods[p].node = job[s].node]_vars

\* A pod that was scheduled gets its rationale (README.md, Scheduling Decision
\* Rationale Card), as long as it is there.
EveryBindingExplained ==
    \A p \in Pods :
        (pods[p] # None /\ pods[p].node # None)
            ~> (pods[p] = None \/ pods[p].ann # None)
=============================================================================
