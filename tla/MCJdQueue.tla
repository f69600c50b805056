----------------------------- MODULE MCJdQueue -----------------------------
(***************************************************************************)
(* JdQueue with frames of 16 and 20 bytes (payloads of 4 and 7, the second *)
(* one rounded up) in a queue of 56: it holds two or three frames, wraps   *)
(* after every combination of sizes, and meets its end both exactly        *)
(* (16 + 20 + 20) and with a gap.                                          *)
(***************************************************************************)
EXTENDS JdQueue
=============================================================================
