------------------------- MODULE MCRequestResponse -------------------------
(* Small instances of RequestResponse for TLC. *)
EXTENDS RequestResponse

CONSTANTS h1, h2

MCHosts == {h1, h2}
============================================================================
