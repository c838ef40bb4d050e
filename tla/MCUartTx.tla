------------------------------ MODULE MCUartTx ------------------------------
(* Model-checking instance of UartTx: a ring of a few slots, so that it    *)
(* wraps, fills and refuses frames within a handful of frames.             *)
EXTENDS UartTx
=============================================================================
