------------------------------ MODULE Prompts -------------------------------
(***************************************************************************)
(* What the scheduling prompt tells the model about the spread of a set:   *)
(* for each candidate node, how many of its pods are the owner's.  The     *)
(* telemetry lists pods by their bare names, so ownership is read off the  *)
(* text of a name.                                                         *)
(*                                                                         *)
(* A name is a sequence of the pieces of text that matter, <<"web">> or    *)
(* <<"web", "-", "a">>; the empty name is <<>>.                            *)
(***************************************************************************)
EXTENDS Integers, Sequences, FiniteSets, SequencesExt

\* The labels by which a pod names its set; the first one wins.
OwnerGeminiSet(labels) ==
    IF labels.geminiset # <<>> THEN labels.geminiset ELSE labels.workload

\* The name Reconcile gives a pod of a set.
PodName(set, suffix) == set \o <<"-">> \o suffix

\* A pod that occupies its node: [name, namespace, node, labels].  The
\* telemetry keeps the names, one for each pod, in the order of the List.
ExistingPods(podList, node) ==
    FoldLeft(LAMBDA names, p : IF p.node = node THEN Append(names, p.name) ELSE names,
             <<>>, podList)

\* Mutant: the arguments are swapped.
TextContainsSwapped(name, part) == name \in SubSeqs(part)

\* strings.Contains
TextContains(name, part) == part \in SubSeqs(name)

\* The count shown for a node; no owner, no count.
OwnerPods(owner, existing) ==
    IF owner = <<>> THEN 0
    ELSE Cardinality({i \in DOMAIN existing : TextContains(existing[i], owner)})

-----------------------------------------------------------------------------
\* The pods of a list on a node for which Test holds.
HowMany(podList, node, Test(_)) ==
    Cardinality({i \in DOMAIN podList : podList[i].node = node /\ Test(podList[i])})

\* The model is asked to keep the replicas of a set apart.  However the other
\* pods of the cluster are called and in whatever namespace, the count it
\* gets for a node misses no replica of the set; and it is exact wherever no
\* foreign pod's name contains the set's.
ReplicasCounted(pod, podList, nodes) ==
    LET owner == OwnerGeminiSet(pod.labels)
        Own(p) == p.namespace = pod.namespace /\ OwnerGeminiSet(p.labels) = owner
        Mistaken(p) == ~Own(p) /\ TextContains(p.name, owner)
    IN  owner # <<>> =>
          \A d \in nodes :
            LET shown == OwnerPods(owner, ExistingPods(podList, d))
            IN  /\ shown >= HowMany(podList, d, Own)
                /\ HowMany(podList, d, Mistaken) = 0 =>
                     shown = HowMany(podList, d, Own)
=============================================================================
