--------------------------- MODULE MCWritePipeline ---------------------------
(* Small instances of WritePipeline. *)
EXTENDS WritePipeline

CONSTANTS alice, bob
TwoUsers == {alice, bob}
=============================================================================
