---------------------------- MODULE MCRelayStall ----------------------------
(***************************************************************************)
(* Instance of RelayStall for TLC.  Two requests make the entry be deleted *)
(* and made again, and change while the helper is asked; two expired       *)
(* timers overlap.  Three requests with one expired timer also pass.       *)
(***************************************************************************)
EXTENDS RelayStall

=============================================================================
