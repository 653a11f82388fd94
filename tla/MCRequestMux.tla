---------------------------- MODULE MCRequestMux -----------------------------
(* A small instance of RequestMux for TLC.  Two readers are more than one  *)
(* socket has: they let two Complete calls for the same id overlap.        *)
EXTENDS RequestMux, TLC
==============================================================================
