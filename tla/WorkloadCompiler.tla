-------------------------- MODULE WorkloadCompiler --------------------------
(***************************************************************************)
(* What pkg/controller/compiler.go computes: the fingerprint of a          *)
(* GeminiSet's specification and the pod template and scale it compiles    *)
(* to.  The module has no state; Controller.tla adds the cache.            *)
(*                                                                         *)
(* A text (a prompt, one constraint) is a sequence of tokens, so that      *)
(* writing texts one after another into the hash is concatenation.         *)
(*   spec   == [prompt, constraints, mcp, replicas, template]              *)
(*   answer == [replicas, label, image, hint, mcp]   (the model's reply)   *)
(*   out    == [replicas, pod |-> [label, image, hint, mcp]]               *)
(* label is the value of the ownership label geminiset.io/geminiset, image *)
(* stands for the containers, hint and mcp for the two annotations the     *)
(* scheduler reads.                                                        *)
(***************************************************************************)
EXTENDS Integers, SequencesExt

CONSTANT None       \* an absent optional field, cache entry or object

\* The scale of a GeminiSet that states none and has no prompt to ask about.
DefaultReplicas == 3

\* The container compiled when the model's answer lists none.
DefaultImage == "nginx:1.27-alpine"

\* Mutant: the scale is not part of the fingerprint.
SpecHashWithoutScale(spec) ==
    spec.prompt \o FlattenSeq(spec.constraints)
      \o (IF spec.template = None THEN <<>> ELSE <<spec.template>>)

(***************************************************************************)
(* computeSpecHash: every field is written to the hash with no separator   *)
(* and no length, so the digest stands for the concatenation.  A server's  *)
(* description is not written.                                             *)
(***************************************************************************)
SpecHash(spec) ==
    spec.prompt
      \o FlattenSeq(spec.constraints)
      \o FlattenSeq([i \in DOMAIN spec.mcp |->
                       <<spec.mcp[i].name, spec.mcp[i].endpoint>>])
      \o (IF spec.replicas = None THEN <<>> ELSE <<ToString(spec.replicas)>>)
      \o (IF spec.template = None THEN <<>> ELSE <<spec.template>>)

\* The specification is compiled without the model.
IsExplicit(spec) == spec.template # None /\ spec.prompt = <<>>

(***************************************************************************)
(* The template-only path: the ownership label is forced, the constraints  *)
(* become the placement hint, the MCP servers are not passed on.           *)
(***************************************************************************)
ExplicitWorkload(name, spec) ==
    [replicas |-> IF spec.replicas = None THEN DefaultReplicas
                                          ELSE spec.replicas,
     pod |-> [label |-> name,
              image |-> spec.template,
              hint  |-> spec.constraints,
              mcp   |-> <<>>]]

(***************************************************************************)
(* The synthesis path: an explicit scale wins over the answer's; the       *)
(* answer's labels and annotations win over the controller's own, the      *)
(* ownership label included; the template is not used.                     *)
(***************************************************************************)
SynthesizedWorkload(name, spec, answer) ==
    [replicas |-> IF spec.replicas = None THEN answer.replicas
                                          ELSE spec.replicas,
     pod |-> [label |-> IF answer.label = None THEN name ELSE answer.label,
              image |-> IF answer.image = None THEN DefaultImage
                                               ELSE answer.image,
              hint  |-> answer.hint,
              mcp   |-> IF answer.mcp = None THEN spec.mcp ELSE answer.mcp]]
=============================================================================
