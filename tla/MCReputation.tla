---------------------------- MODULE MCReputation ----------------------------
(* Two addresses, the second with a checksum spelling as well.             *)
EXTENDS Reputation, TLC

CONSTANTS a, b, B

MCLower == (a :> a) @@ (b :> b) @@ (B :> b)
=============================================================================
