-------------------------- MODULE MCBackendFamily --------------------------
(***************************************************************************)
(* Instances of BackendFamily for TLC: KoboldCpp with one lane and a start *)
(* hook, vLLM with a primary lane and an embeddings lane that survives a   *)
(* family switch.                                                          *)
(***************************************************************************)
EXTENDS BackendFamily, TLC

CONSTANTS r1, r2, r3, r4, kobold, vllm, text, vtext, vembed

MCLaneMode == (text :> kobold @@ vtext :> vllm @@ vembed :> vllm)
MCLaneOf == (r1 :> text @@ r2 :> vtext @@ r3 :> vembed @@ r4 :> vtext)

\* r3's config unloads the text lane of its family first, r4's both lanes.
MCPolicy == (r1 :> {} @@ r2 :> {} @@ r3 :> {vtext} @@ r4 :> {vtext, vembed})
=============================================================================
