------------------------- MODULE MCServerLifecycle -------------------------
(***************************************************************************)
(* ServerLifecycle for TLC.  Bounds: the connections are the ones of the   *)
(* cfg, and the backoff doubles from 5 to a cap that is not a multiple of  *)
(* it, so that both branches of NextBackoff and the cap are reached.       *)
(***************************************************************************)
EXTENDS ServerLifecycle
=============================================================================
