---------------------------- MODULE MCController ----------------------------
(***************************************************************************)
(* Small values of the constants of Controller.tla for TLC.  The texts are *)
(* single tokens unless a run is about the way they are hashed.            *)
(***************************************************************************)
EXTENDS Controller

Prompted(prompt, replicas) ==
    [prompt |-> <<prompt>>, constraints |-> <<>>, mcp |-> <<>>,
     replicas |-> replicas, template |-> None]

Templated(replicas) ==
    [prompt |-> <<>>, constraints |-> <<<<"spread">>>>, mcp |-> <<>>,
     replicas |-> replicas, template |-> "{tpl}"]

Answer(replicas) ==
    [replicas |-> replicas, label |-> None, image |-> "app", hint |-> <<>>,
     mcp |-> None]

\* One set scaled up and down, its scale explicit or left to the model, whose
\* answer may lack one (that is a zero).
ScaleSpecs == {Prompted("web", 1), Prompted("web", None), Templated(2)}
ScaleAnswers == {Answer(0), Answer(2)}

\* A template the CRD takes and the Go types do not.
MalformedSpecs == {[Templated(1) EXCEPT !.template = "{bad}"]}
MistakenSpecs == ScaleSpecs \cup MalformedSpecs
NoSpecs == {}

\* edits, deletes, faults, crashes, disruptions, kubelet reports
Budget(e, d, f, c, x, k) ==
    [kind \in Kinds |-> CASE kind = "edit" -> e [] kind = "delete" -> d
                          [] kind = "fault" -> f [] kind = "crash" -> c
                          [] kind = "disrupt" -> x [] kind = "kubelet" -> k]

\* With one set every pod name is one of its own.
OnePrefix == [p \in Pods |-> CHOOSE n \in Names : TRUE]

OneOfEach == Budget(2, 1, 1, 1, 1, 0)

\* Enough to make a set anew, or to edit it, around a restart.
Restarted == Budget(2, 1, 0, 1, 0, 0)

\* Two controllers at once; nothing keeps a user from a negative scale.
OverlapSpecs == {Templated(-1), Templated(1), Templated(2)}
OverlapBudget == Budget(2, 1, 1, 1, 0, 0)
Alike == Permutations(Controllers)

\* Two sets, every other pod name drawn for the second.
FirstSet == CHOOSE n \in Names : TRUE
SecondSet == CHOOSE n \in Names : n # FirstSet
Alternate == [p \in Pods |-> IF p % 2 = 1 THEN FirstSet ELSE SecondSet]

\* A text and a template.
TwoSpecs == {Prompted("web", None), Templated(1)}

\* The model may label the pods of any set as the second one's.
LabelAnswers == {Answer(1), [Answer(1) EXCEPT !.label = SecondSet]}

\* One scale only.
FixedSpecs == {Templated(2)}
NoAnswers == {}
FixedBudget == Budget(1, 0, 1, 1, 0, 2)

\* As little as it takes.
OneAnswer == {Answer(1)}

TwoEdits == Budget(2, 0, 0, 0, 0, 0)

\* Two specifications whose fields concatenate to the same text: the prompt
\* ends in the digit the other one has as its scale.
CollidingSpecs ==
    {[Prompted("web", None) EXCEPT !.prompt = <<"web", "2">>], Prompted("web", 2)}
=============================================================================
