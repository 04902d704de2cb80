---------------------------- MODULE MCScheduler ----------------------------
(***************************************************************************)
(* Small values of the constants of Scheduler.tla for TLC.                 *)
(***************************************************************************)
EXTENDS Scheduler, TLC

CONSTANTS n1, n2     \* node names

\* creations, deletions, node changes, kubelet reports, faults, crashes
Budget(p, d, n, k, f, c) ==
    [kind \in Kinds |-> CASE kind = "create" -> p [] kind = "delete" -> d
                          [] kind = "node" -> n [] kind = "kubelet" -> k
                          [] kind = "fault" -> f [] kind = "crash" -> c]

\* A single scheduler with everything around it.
AloneBudget == Budget(3, 1, 1, 0, 1, 1)

\* Two schedulers at once.
PairBudget == Budget(2, 1, 0, 1, 1, 0)
Alike == Permutations(Schedulers)

\* What the model answers beside the candidates: nothing else, or nodes that
\* are not there and no node at all.
NoStrays == {}
Careless == {n2, None}

\* For the runs that refute a claim: as little as it takes.
OnePodOneFault == Budget(1, 0, 0, 0, 1, 0)
OnePodOneReport == Budget(1, 0, 0, 1, 0, 0)
=============================================================================
