----------------------------- MODULE Synthesis ------------------------------
(***************************************************************************)
(* From the JSON in which the model describes a container and the          *)
(* placement hints to the container of the pod template: the decoders of   *)
(* pkg/gemini/types.go, which accept several forms of one thing, and the   *)
(* last part of Compile, which drops what Kubernetes would not take.       *)
(*                                                                         *)
(* A raw container, as the JSON has it:                                    *)
(*   ports  - a sequence of items, each of the form "number" (port),       *)
(*            "object" (containerPort and port, 0 when absent) or "other"  *)
(*   flat   - each of Fields given beside the name, "" when absent         *)
(*   nested - the same in a resources block, or None                       *)
(*   probe  - the port of the readiness probe, or None                     *)
(***************************************************************************)
EXTENDS Integers, Sequences, SequencesExt

CONSTANTS None,
          Quantities      \* the texts that are a quantity

Fields == {"cpuRequest", "memoryRequest", "cpuLimit", "memoryLimit"}

ASSUME QuantitiesAssumption == Quantities \subseteq STRING \ {""}

\* No block of texts, some of them empty, looks like an absent one.
ASSUME NoneAssumption == None \notin [Fields -> STRING \cup {""}]

-----------------------------------------------------------------------------
\* Mutant: the second spelling is forgotten.
ObjectPortOneKey(item) ==
    IF item.containerPort > 0 THEN <<item.containerPort>> ELSE <<>>

\* The port of one object, if it has one.
ObjectPort(item) ==
    CASE item.containerPort > 0 -> <<item.containerPort>>
      [] item.containerPort <= 0 /\ item.port > 0 -> <<item.port>>
      [] OTHER -> <<>>

\* All numbers or all objects; a list that mixes them is dropped.
DecodePorts(items) ==
    LET AllOf(form) == \A i \in DOMAIN items : items[i].form = form
    IN  IF AllOf("number") THEN [i \in DOMAIN items |-> items[i].port]
        ELSE IF AllOf("object")
             THEN FlattenSeq([i \in DOMAIN items |-> ObjectPort(items[i])])
             ELSE <<>>

\* Mutant: the block replaces what was given beside it.
DecodeFieldNested(raw, field) ==
    IF raw.nested # None THEN raw.nested[field] ELSE raw.flat[field]

\* A field of the resources block counts where the flat one is missing.
DecodeField(raw, field) ==
    IF raw.flat[field] = "" /\ raw.nested # None
    THEN raw.nested[field] ELSE raw.flat[field]

\* The hints: a list of texts is taken as it is; an object becomes one text
\* for each entry, key=value, in the arbitrary order of a Go map; anything
\* else gives none.  A text that says k=v is the pair <<k, v>>.
DecodeHints(raw) ==
    CASE raw.form = "list"   -> {raw.hints}
      [] raw.form = "object" -> SetToSeqs(raw.hints)
      [] OTHER               -> {<<>>}

-----------------------------------------------------------------------------
\* Compile: quantities that do not parse and probes without a port are left
\* out, without an error.
Container(raw) ==
    [ports     |-> DecodePorts(raw.ports),
     resources |-> [f \in {f \in Fields : DecodeField(raw, f) \in Quantities} |->
                      DecodeField(raw, f)],
     probe     |-> IF raw.probe # None /\ raw.probe > 0 THEN raw.probe ELSE None]

-----------------------------------------------------------------------------
(***************************************************************************)
(* What the model means is [ports, resources, probe, hints]; a form says   *)
(* which of the accepted spellings it chooses for it:                      *)
(*   ports  - "number", "containerPort", "port", or "both" keys            *)
(*   nested - the fields it puts into the resources block                  *)
(*   echoed - the block repeats the other fields, with stale values        *)
(*   hints  - "list" or "object"                                           *)
(***************************************************************************)
Item(port, form) ==
    IF form = "number" THEN [form |-> "number", port |-> port]
    ELSE [form |-> "object",
          containerPort |-> IF form = "port" THEN 0 ELSE port,
          port |-> IF form = "containerPort" THEN 0 ELSE
                   IF form = "port" THEN port ELSE port + 1]

RawContainer(meant, form, stale) ==
    [ports  |-> [i \in DOMAIN meant.ports |-> Item(meant.ports[i], form.ports)],
     flat   |-> [f \in Fields |->
                   IF f \in DOMAIN meant.resources \ form.nested
                   THEN meant.resources[f] ELSE ""],
     nested |-> IF form.nested = {} /\ ~form.echoed THEN None
                ELSE [f \in Fields |->
                        IF f \notin DOMAIN meant.resources THEN ""
                        ELSE IF f \in form.nested THEN meant.resources[f]
                        ELSE IF form.echoed THEN stale ELSE ""],
     probe  |-> meant.probe]

RawHints(meant, form) ==
    [form  |-> form.hints,
     hints |-> IF form.hints = "list" THEN meant.hints ELSE ToSet(meant.hints)]

\* Whichever of the accepted spellings the model picks, the pod's container
\* and its hints are the ones it means: nothing is lost between the two
\* decoders and Compile, and a flat value is never replaced by a nested one.
\* Only the order of hints given as an object is left to chance.
FormsAgree(meant, form, stale) ==
    /\ Container(RawContainer(meant, form, stale)) =
         [ports |-> meant.ports, resources |-> meant.resources, probe |-> meant.probe]
    /\ \A hints \in DecodeHints(RawHints(meant, form)) :
         /\ form.hints = "list" => hints = meant.hints
         /\ Len(hints) = Len(meant.hints) /\ ToSet(hints) = ToSet(meant.hints)
=============================================================================
