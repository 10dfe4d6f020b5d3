---------------------------- MODULE MCAskServer ----------------------------
(* Small instances of AskServer for TLC. *)
EXTENDS AskServer, MCAskPipeline
=============================================================================
