----------------------------- MODULE MCOperator -----------------------------
(***************************************************************************)
(* Small values of the constants of Operator.tla for TLC.                  *)
(***************************************************************************)
EXTENDS Operator

Templated(replicas) ==
    [prompt |-> <<>>, constraints |-> <<<<"spread">>>>, mcp |-> <<>>,
     replicas |-> replicas, template |-> "{tpl}"]

\* What the plugin creates, and a mistake.
SomeSpecs == {PluginSpec(<<"web">>, <<>>), Templated(-1)}
NoSpecs == {}

OneAnswer == {[replicas |-> 1, label |-> None, image |-> "app", hint |-> <<>>,
               mcp |-> None]}

OnePrefix == [p \in Pods |-> CHOOSE n \in Names : TRUE]

\* The creation of a set and any two things more: edits, a deletion, failed
\* calls, crashes, evicted pods, and a node that leaves or returns.
ControllerLimit ==
    [edit |-> 3, delete |-> 1, fault |-> 2, crash |-> 2, disrupt |-> 2, kubelet |-> 0]

LimitOfScheduler ==
    [create |-> 0, delete |-> 0, node |-> 2, kubelet |-> 0, fault |-> 2, crash |-> 0]

NoStrays == {}
=============================================================================
