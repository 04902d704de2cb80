----------------------------- MODULE Placement ------------------------------
(***************************************************************************)
(* What the schedulers, however many, promise about a pod: it is placed on *)
(* a node once and stays there for its life, and an explanation it carries *)
(* is of the node it is on.  How they get there (batches, snapshots, four  *)
(* calls for each pod, failures, crashes) is not seen here.                *)
(*                                                                         *)
(*   pods[p] == None or [node, why]: why is None or the explained node     *)
(***************************************************************************)
CONSTANTS Pods, Nodes, None

VARIABLE pods

Init == pods = [p \in Pods |-> None]

Appear(p) ==
    /\ pods[p] = None
    /\ pods' = [pods EXCEPT ![p] = [node |-> None, why |-> None]]

Place(p, d) ==
    /\ pods[p] = [node |-> None, why |-> None]
    /\ pods' = [pods EXCEPT ![p].node = d]

Explain(p) ==
    /\ pods[p] # None
    /\ pods[p].node # None
    /\ pods' = [pods EXCEPT ![p].why = pods[p].node]

Leave(p) ==
    /\ pods[p] # None
    /\ pods' = [pods EXCEPT ![p] = None]

Next == \E p \in Pods :
    \/ Appear(p) \/ Explain(p) \/ Leave(p)
    \/ \E d \in Nodes : Place(p, d)

Spec == Init /\ [][Next]_pods
=============================================================================
