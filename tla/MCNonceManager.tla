--------------------------- MODULE MCNonceManager ---------------------------
(* NonceHistory on a clock long enough for nonces to be issued, used,      *)
(* forgotten by Cleanup (2 * MaxAge + 1 ticks later) and offered again.    *)
EXTENDS NonceHistory
=============================================================================
