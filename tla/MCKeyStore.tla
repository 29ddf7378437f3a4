----------------------------- MODULE MCKeyStore -----------------------------
(* Small key directories for KeyStore. *)
EXTENDS KeyStore

CONSTANTS p1, p2   \* processes
=============================================================================
