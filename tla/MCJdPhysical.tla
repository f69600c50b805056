---------------------------- MODULE MCJdPhysical ----------------------------
(***************************************************************************)
(* Two builds: a sensor with two send buffers, one receive slot, and a     *)
(* client or bridge with a send queue and a receive queue with loopback;   *)
(* both have the urgent frame of power.c.                                  *)
(***************************************************************************)
EXTENDS JdPhysical

MCBuilds ==
  {[SEND_FRAME |-> FALSE, FrameCap |-> 2, SendCap |-> 1, RxCap |-> 1, MaxFalls |-> 2],
   [SEND_FRAME |-> TRUE, FrameCap |-> 1, SendCap |-> 2, RxCap |-> 2, MaxFalls |-> 1]}
=============================================================================
