--------------------------- MODULE MCKeyProvider ---------------------------
(* Instances of KeyProvider for TLC.                                       *)
EXTENDS KeyProvider

CONSTANTS r1, r2, r3
=============================================================================
