---------------------------- MODULE MCJdServices ----------------------------
(* Two cells; the intensity is never set to 0, or in MCSleepInHandler it is. *)
EXTENDS JdServices
=============================================================================
