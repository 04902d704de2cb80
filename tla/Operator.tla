------------------------------ MODULE Operator ------------------------------
(***************************************************************************)
(* The programs of cmd/: gemini-operator runs the controller of            *)
(* Controller.tla and the scheduler of Scheduler.tla as two goroutines of  *)
(* one process, gemini-controller and gemini-scheduler run one of them.    *)
(* They never call each other: they meet in the Pod objects.               *)
(*                                                                         *)
(* Each component module sees the fields of a Pod that its code reads:     *)
(* pods[p] is the controller's half of the object, placed[p] the           *)
(* scheduler's.  A step of the controller or of the cluster that changes   *)
(* the one half changes the other with it (Follow); binding and annotating *)
(* are no concern of the controller's half.                                *)
(***************************************************************************)
EXTENDS Integers, FiniteSets, Functions

CONSTANTS Names, Pods, None,
          Controllers,          \* processes that run a controller
          Schedulers,           \* processes that run a scheduler
          Specs, Malformed, Answers, PrefixOf, Limit,  \* of Controller.tla
          Nodes, Strays,                               \* of Scheduler.tla
          SchedulerLimit,                              \* its Limit
          MaxDisturbances       \* how much may happen altogether

VARIABLES sets, pods, pc, work, job, cache, asked, spent,   \* Controller.tla
          placed, nodes, spc, sjob, event, sspent           \* Scheduler.tla

controllerVars == <<sets, pods, pc, work, job, cache, asked, spent>>
schedulerVars == <<placed, nodes, spc, sjob, event, sspent>>
vars == <<controllerVars, schedulerVars>>

C == INSTANCE Controller

S == INSTANCE Scheduler WITH pods <- placed, pc <- spc, job <- sjob,
                             spent <- sspent, Limit <- SchedulerLimit

Init == C!Init /\ S!Init

\* Everything that happened but the creation of pods, which in the composition
\* is the controller's.
Disturbances ==
    SumFunctionOnSet(spent, DOMAIN spent)
      + SumFunctionOnSet(sspent, DOMAIN sspent \ {"create"})

Bearable == Disturbances' <= MaxDisturbances

-----------------------------------------------------------------------------
(***************************************************************************)
(* One Pod object, two halves.                                             *)
(***************************************************************************)
\* What the scheduler sees of a phase.
PhaseSeen(phase) == IF phase \in C!ActivePhases THEN "Active" ELSE phase

\* A pod that is new to the scheduler.
Unplaced == [uid |-> sspent["create"] + 1, node |-> None, phase |-> "Active",
             ann |-> None]

\* The scheduler's half after a step of the other side.  The phase of a
\* finished pod stays what it is when the pod is deleted.
Half(p) ==
    CASE pods'[p] = None   -> None
      [] placed[p] = None  -> Unplaced
      [] OTHER             ->
           [placed[p] EXCEPT !.phase =
              IF @ = "Done" THEN @ ELSE PhaseSeen(pods'[p].phase)]

\* The objects are written: their resource versions move on.
Follow ==
    LET written == {p \in Pods : pods'[p] # pods[p]}
        made == {p \in written : pods[p] = None}
    IN  /\ placed' = [p \in Pods |-> IF p \in written THEN Half(p) ELSE placed[p]]
        /\ sjob' = [s \in Schedulers |->
                      IF sjob[s].batch # {} /\ S!Head(s).name \in written
                      THEN [sjob[s] EXCEPT !.fresh = FALSE] ELSE sjob[s]]
        /\ sspent' = [sspent EXCEPT !["create"] = @ + Cardinality(made)]
        /\ UNCHANGED <<nodes, spc, event>>

-----------------------------------------------------------------------------
(***************************************************************************)
(* The processes.                                                          *)
(***************************************************************************)
ControllerCalls(o) == C!Call(o) /\ Follow

ControllerFails(o) == C!CallFails(o) /\ Follow /\ Bearable

SchedulerCalls(o) == S!Step(o) /\ UNCHANGED controllerVars

SchedulerFails(o) == S!CallFails(o) /\ UNCHANGED controllerVars /\ Bearable

\* The process is gone and starts again; a scheduler in it loses its batch.
SchedulerDies(o) ==
    /\ IF o \in Schedulers THEN S!Return(o) ELSE UNCHANGED <<spc, sjob>>
    /\ UNCHANGED <<placed, nodes, event, sspent>>

\* The panic on a negative scale is recovered by nobody: it ends the process,
\* and the scheduler in it.
Panic(o) == C!Panic(o) /\ SchedulerDies(o)

\* A kill, or a shutdown: main stops both loops and returns without waiting
\* for the calls they are in.
Crash(o) ==
    /\ C!Spend("crash")
    /\ IF o \in Controllers THEN C!Restart(o)
                            ELSE UNCHANGED <<sets, pods, pc, work, job, cache, asked>>
    /\ SchedulerDies(o)
    /\ Bearable

-----------------------------------------------------------------------------
(***************************************************************************)
(* Users and the cluster.                                                  *)
(***************************************************************************)
\* What kubectl geminiset create puts into a new set: the arguments make the
\* prompt, and the scale is left to the model.
PluginSpec(prompt, constraints) ==
    [prompt |-> prompt, constraints |-> constraints, mcp |-> <<>>,
     replicas |-> None, template |-> None]

User == C!User /\ UNCHANGED schedulerVars /\ Bearable

Removal(p) == C!Removal(p) /\ Follow

Collection(p) == C!Collection(p) /\ Follow

OnANode(p) == placed[p] # None /\ placed[p].node \in nodes

\* The kubelet of its node starts a bound pod.  (Its later readiness decides
\* nothing: isPodReady counts every running pod.)
Starts(p) ==
    /\ OnANode(p)
    /\ C!PodStarts(p)
    /\ Follow
    /\ C!ControllerUnchanged /\ UNCHANGED spent

\* A pod finishes, on a node, or is deleted, anywhere.
Disruption(p) ==
    /\ C!Disruption(p)
    /\ pods'[p].phase = "Done" => OnANode(p)
    /\ Follow
    /\ Bearable

\* The pod garbage collector removes a pod whose node does not exist (any
\* more), and the finished ones, which the controller leaves behind.
Lost(p) ==
    /\ placed[p] # None
    /\ placed[p].node \notin nodes \cup {None} \/ placed[p].phase = "Done"
    /\ pods' = [pods EXCEPT ![p] = None]
    /\ Follow
    /\ C!ControllerUnchanged /\ UNCHANGED spent

NodeChange(d) == S!NodeChange(d) /\ UNCHANGED controllerVars /\ Bearable

Kubernetes ==
    \/ \E p \in Pods : \/ Removal(p) \/ Collection(p) \/ Starts(p)
                       \/ Disruption(p) \/ Lost(p)
    \/ \E d \in Nodes : NodeChange(d)

Next ==
    \/ \E o \in Controllers : ControllerCalls(o) \/ ControllerFails(o) \/ Panic(o)
    \/ \E o \in Schedulers : SchedulerCalls(o) \/ SchedulerFails(o)
    \/ \E o \in Controllers \cup Schedulers : Crash(o)
    \/ User
    \/ Kubernetes

Spec == Init /\ [][Next]_vars

(***************************************************************************)
(* Each goroutine takes its next step sooner or later, and so do the       *)
(* garbage collectors and the kubelets.                                    *)
(***************************************************************************)
Fairness ==
    /\ \A o \in Controllers : WF_vars(ControllerCalls(o) \/ Panic(o))
    /\ \A o \in Schedulers : WF_vars(SchedulerCalls(o))
    /\ \A p \in Pods : WF_vars(Removal(p) \/ Collection(p) \/ Starts(p) \/ Lost(p))

FairSpec == Spec /\ Fairness

-----------------------------------------------------------------------------
(***************************************************************************)
(* Properties.                                                             *)
(***************************************************************************)
\* The two halves are of one object, and only a bound pod has run.
InStep(p) ==
    IF pods[p] = None
    THEN placed[p] = None
    ELSE /\ placed[p] # None
         /\ \/ placed[p].phase = PhaseSeen(pods[p].phase)
            \/ placed[p].phase = "Done" /\ pods[p].phase = "Terminating"
         /\ pods[p].phase \in {"Running", "Ready", "Done"} => placed[p].node # None

\* The type invariant: both components', and the halves in step.
TypeOK == C!TypeOK /\ S!TypeOK /\ \A p \in Pods : InStep(p)

\* The cluster has nodes, every set converts and none asks for a negative
\* scale.
Serviceable ==
    /\ nodes # {}
    /\ \A n \in Names : sets[n] # None =>
         /\ sets[n].spec \notin Malformed
         /\ sets[n].spec.replicas = None \/ sets[n].spec.replicas >= 0

\* What the operator is for: a set has as many pods as its specification, or
\* the model, asks for and its status says, all of them running on nodes that
\* exist, and the status knows.
Deployed(n) ==
    sets[n] # None =>
        LET status == sets[n].status
        IN  /\ status.observed = sets[n].gen
            /\ status.replicas \in (IF sets[n].spec.replicas = None THEN C!Scales
                                   ELSE {sets[n].spec.replicas})
            /\ status.replicas = Cardinality(C!Managed(n))
            /\ \A p \in C!Managed(n) : OnANode(p) /\ C!IsPodReady(p)
            /\ status.ready = status.replicas

\* From the user's specification to running pods, through both components:
\* whatever crashes, fails, is edited, drained or loses its node on the way,
\* every set is deployed in the end.
EverySetDeployed == <>[]Serviceable => \A n \in Names : <>[]Deployed(n)

\* A goroutine that is about to call the model.
Asking == \/ \E o \in Controllers : C!NeedsModel(o)
          \/ \E o \in Schedulers : spc[o] = "decide"

\* Once everything is deployed the model is not called any more (README.md,
\* Cost: in steady state the costs drop to zero): the compiled workload stays
\* cached, and no pod waits.
CostsDrop == <>[]Serviceable => <>[]~Asking
=============================================================================
