---------------------- MODULE MCAskImplementsContract ----------------------
(* Small instances of AskImplementsContract for TLC. *)
EXTENDS AskImplementsContract, MCAskPipeline
=============================================================================
