------------------------------ MODULE Cluster ------------------------------
(***************************************************************************)
(* The part of Kubernetes the controller works against: the GeminiSet and  *)
(* Pod objects in the API server, the kubelet that starts, probes and      *)
(* removes pods, disruptions, and the garbage collector.  None of it is    *)
(* code of this repository: it is modelled from how pkg/controller uses    *)
(* it.                                                                     *)
(*                                                                         *)
(* Pod names are numbers because a List answers in the order of the names, *)
(* and the controller's scale-down picks its victims by that order.        *)
(*   sets[n] == None or [uid, gen, spec, status]                           *)
(*   pods[p] == None or [phase, owner, pod, by], where owner is the        *)
(*     controller reference [name, uid], pod the template it was made      *)
(*     from, and by (a history field) the controller that made it          *)
(* "Running" and "Ready" are both the pod phase Running, without and with  *)
(* the Ready condition; "Done" is Succeeded or Failed; "Terminating" has a *)
(* deletion timestamp.                                                     *)
(***************************************************************************)
EXTENDS Integers, FiniteSets

CONSTANTS Names,    \* names of GeminiSets (all in one namespace)
          Pods,     \* names a pod may get
          None

ASSUME PodsAssumption == Pods \subseteq Nat /\ IsFiniteSet(Pods)

VARIABLES sets, pods

clusterVars == <<sets, pods>>

ActivePhases == {"Pending", "Running", "Ready"}

Phases == ActivePhases \cup {"Done", "Terminating"}

\* Neither being deleted nor finished.
Active(p) == pods[p] # None /\ pods[p].phase \in ActivePhases

\* The active pods that carry the ownership label of set n.
Managed(n) == {p \in Pods : Active(p) /\ pods[p].pod.label = n}

SetPhase(p, phase) == pods' = [pods EXCEPT ![p].phase = phase]

\* The kubelet starts a pod.
PodStarts(p) ==
    /\ pods[p] # None
    /\ pods[p].phase = "Pending"
    /\ SetPhase(p, "Running")

\* A readiness probe succeeds or fails.
PodProbed(p) ==
    /\ pods[p] # None
    /\ \/ pods[p].phase = "Running" /\ SetPhase(p, "Ready")
       \/ pods[p].phase = "Ready" /\ SetPhase(p, "Running")

\* The pod's grace period is over: the object is gone, its name free again.
PodRemoved(p) ==
    /\ pods[p] # None
    /\ pods[p].phase = "Terminating"
    /\ pods' = [pods EXCEPT ![p] = None]

\* A pod finishes or fails, or somebody else (a drain, a user) deletes it.
Disrupted(p) ==
    /\ Active(p)
    /\ \E phase \in {"Done", "Terminating"} : SetPhase(p, phase)

OwnerExists(p) ==
    LET owner == pods[p].owner
    IN  sets[owner.name] # None /\ sets[owner.name].uid = owner.uid

\* The garbage collector deletes a pod whose owner no longer exists.
GarbageCollect(p) ==
    /\ pods[p] # None
    /\ pods[p].phase # "Terminating"
    /\ ~OwnerExists(p)
    /\ SetPhase(p, "Terminating")
=============================================================================
