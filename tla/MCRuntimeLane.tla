--------------------------- MODULE MCRuntimeLane ---------------------------
(***************************************************************************)
(* Instances of RuntimeLane for TLC.                                       *)
(***************************************************************************)
EXTENDS RuntimeLane, TLC

CONSTANTS r1, r2, r3, u1, a, a2, b

\* a and a2 are two profiles of one physical model, b is another model.
MCFingerprint == (a :> "fa" @@ a2 :> "fa" @@ b :> "fb")

\* A borrowed request for a, an exact one for a2, one for b.
SafetyWant == (r1 :> a @@ r2 :> a2 @@ r3 :> b)

\* Two endless streams for a against a request for b.
StreamWant == (r1 :> a @@ r2 :> a @@ r3 :> b)
TwoWant == (r1 :> a @@ r2 :> a)
=============================================================================
