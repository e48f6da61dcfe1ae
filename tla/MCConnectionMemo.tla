-------------------------- MODULE MCConnectionMemo --------------------------
(* TLC instances of ConnectionMemo. *)
EXTENDS ConnectionMemo, TLC

CONSTANTS a, b, s1, s2, s3, s4
=============================================================================
