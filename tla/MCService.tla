------------------------------ MODULE MCService ------------------------------
(* Instances of Service for TLC.                                           *)
EXTENDS Service

CONSTANTS v1, v2
=============================================================================
