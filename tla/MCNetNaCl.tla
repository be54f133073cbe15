------------------------------ MODULE MCNetNaCl ------------------------------
(* Instances of NetNaCl for TLC.                                           *)
EXTENDS NetNaCl

OneWay == [A |-> 4, B |-> 0]
=============================================================================
