---------------------------- MODULE MCEventLoop ----------------------------
(***************************************************************************)
(* EventLoop on small instances: at most MaxWaiting items wait at each     *)
(* input.                                                                  *)
(***************************************************************************)
EXTENDS EventLoop
=============================================================================
