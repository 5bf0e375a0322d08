------------------------- MODULE MCConcurrencyQueue -------------------------
(* ConcurrencyQueue for TLC: more calls than slots, so that some wait, some *)
(* are removed and the process is restarted in between.                    *)
EXTENDS ConcurrencyQueue
=============================================================================
