--------------------------- MODULE MCAddressCache ---------------------------
(* Instance of AddressCache for TLC: a name with two addresses that the    *)
(* resolver returns together or alone.                                     *)
EXTENDS AddressCache

CONSTANTS v4, v6

BothAddrs == {v4, v6}
OneOrTwo == {<<v6, v4>>, <<v4>>}
=============================================================================
