------------------------------ MODULE MCJdPipe ------------------------------
(* Two sessions over a bus that holds two frames in each direction; the    *)
(* counter wraps within a session.                                         *)
EXTENDS JdPipe
=============================================================================
