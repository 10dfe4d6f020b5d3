---------------------------- MODULE MCKitSchema ----------------------------
(* Small instances of KitSchema for TLC. *)
EXTENDS KitSchema, TLC

CONSTANTS k1, k2, t1, t2, t3, d1, d2

MCTwoKits == (t1 :> k1 @@ t2 :> k1 @@ t3 :> k2)
MCTwoDbs == (k1 :> d1 @@ k2 :> d2)
=============================================================================
