-------------------------- MODULE MCHandlerPort --------------------------
(***************************************************************************)
(* Instances of HandlerPort for TLC: every kind of packet, and host paths  *)
(* that leave the handler or lead back to it.                              *)
(***************************************************************************)
EXTENDS HandlerPort

AllKinds == {"other", "locate", "free", "update", "die"}
AllRoutes == {"host", "own"}
=============================================================================
