----------------------------- MODULE MCFlashLog -----------------------------
(* Model-checking instances of FlashLog: a few small sectors of few pages,  *)
(* so that the log wraps after a few frames and a frame spans two pages.   *)
EXTENDS FlashLog
=============================================================================
