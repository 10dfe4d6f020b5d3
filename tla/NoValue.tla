------------------------------ MODULE NoValue ------------------------------
(* What a variable or field holds when it has no value: the None of Python. *)
CONSTANT None
=============================================================================
