------------------------------ MODULE MCTexts -------------------------------
(***************************************************************************)
(* The pure functions of the program over all small inputs: each is a      *)
(* state, chosen in the first step and dropped in the next.                *)
(***************************************************************************)
EXTENDS Prompts, Synthesis, RationaleCard

VARIABLE input

\* The three texts the inputs below use as quantities.
ASSUME InputsAssumption == {"50m", "64Mi", "1Gi"} \subseteq Quantities

-----------------------------------------------------------------------------
\* Three sets' names, the second one part of the third, in two namespaces.
SetNames == {<<"db">>, <<"web">>, <<"my", "-", "web">>}

LabelsOf(set) == {[geminiset |-> set, workload |-> set],
                  [geminiset |-> <<>>, workload |-> set]}

ListedPods ==
    UNION {{[name |-> PodName(set, suffix), namespace |-> ns, node |-> d,
             labels |-> labels] : labels \in LabelsOf(set)}
           : set \in SetNames, suffix \in {<<"a">>, <<"b">>},
             ns \in {"default", "team"}, d \in {"n1", "n2"}}

\* A telemetry List of up to two pods, and the pod to be scheduled.
IsList(list) ==
    \A i, j \in DOMAIN list :
      i # j => <<list[i].namespace, list[i].name>> # <<list[j].namespace, list[j].name>>

CountInputs ==
    [kind : {"count"},
     pod : {p \in ListedPods : p.node = "n1"},
     podList : {list \in BoundedSeq(ListedPods, 2) : IsList(list)}]

\* Up to two ports, hints and resources, in every spelling.
Meant ==
    [ports : {<<>>, <<80>>, <<80, 443>>},
     resources : UNION {[S -> {"50m", "64Mi"}] :
                          S \in {{}, {"cpuRequest"}, {"memoryLimit"},
                                 {"cpuRequest", "memoryLimit"}}},
     probe : {None, 80},
     hints : {<<>>, <<<<"zone", "a">>>>, <<<<"zone", "a">>, <<"spread", "node">>>>}]

Spellings ==
    [ports : {"number", "containerPort", "port", "both"},
     nested : SUBSET {"cpuRequest", "memoryLimit"},
     echoed : BOOLEAN,
     hints : {"list", "object"}]

DecodeInputs == [kind : {"decode"}, meant : Meant, form : Spellings]

\* Up to five words on lines of five, words longer than a line included.
WrapInputs == [kind : {"wrap"}, words : BoundedSeq({1, 2, 4, 5, 6}, 5)]
LineWidth == 5

\* Matrices of none to two scores, on both sides of every threshold and of the
\* ints: beyond them more is shown as nothing.
Scores == {-MaxInt - 1, -7, -1, 0, 6, 7, 59, 60, 84, 85, 93, 94, 100, 101, 150,
           3000, MaxInt}

ScoreInputs ==
    [kind : {"card"},
     scores : UNION {[S -> Scores] : S \in SUBSET {"ResourceFit", "TopologySpread"}}]

-----------------------------------------------------------------------------
Init == input = None

Choose == input = None /\ input' \in
    CountInputs \cup DecodeInputs \cup WrapInputs \cup ScoreInputs

Drop == input # None /\ input' = None

Next == Choose \/ Drop

Spec == Init /\ [][Next]_input

-----------------------------------------------------------------------------
Is(kind) == input # None /\ input.kind = kind

\* The owner pods of the scheduling prompt, for every small cluster.
EveryReplicaCounted ==
    Is("count") => ReplicasCounted(input.pod, input.podList, {"n1", "n2"})

\* The decoders, for every spelling of every small answer.
SpellingsAgree == Is("decode") => FormsAgree(input.meant, input.form, "1Gi")

\* wrapText, for every small text.
WrappingIsTight == Is("wrap") => WrapIsTight(input.words, LineWidth)

\* The bars, around every threshold.
CardsShowDecisions == Is("card") => CardShowsDecision(input.scores)
=============================================================================
