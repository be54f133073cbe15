------------------------------- MODULE Errors -------------------------------
(***************************************************************************)
(* Return codes of the proxy (src/include/errors.h) and of netnacl         *)
(* (src/netnacl/src/netnacl.h).  The numbers are kept because the two      *)
(* enumerations share them: callers compare a code of one enumeration with *)
(* a constant of the other (NN_ERR is PROXY_ERR).                          *)
(***************************************************************************)
EXTENDS Integers

PROXY_MAX_EVENTS        == -7
PROXY_INTR              == -6
PROXY_CONNECT_ERR       == -5
PROXY_INCOMPLETE_ACCEPT == -4
PROXY_WOULD_BLOCK       == -3
PROXY_DISCONNECT        == -2
PROXY_ERR               == -1
PROXY_SUCCESS           == 0

NN_DISCONNECT == -5
NN_CRYPTO_ERR == -4
NN_WANT_READ  == -3
NN_WANT_WRITE == -2
NN_ERR        == -1
NN_SUCCESS    == 0

ProxyCodes == PROXY_MAX_EVENTS .. PROXY_SUCCESS
=============================================================================
