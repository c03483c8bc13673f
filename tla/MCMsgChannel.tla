---------------------------- MODULE MCMsgChannel -----------------------------
(* MsgChannel with a small channel: it gets full, and messages queue up    *)
(* before it.                                                              *)
EXTENDS MsgChannel
=============================================================================
