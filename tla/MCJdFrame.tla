------------------------------ MODULE MCJdFrame -------------------------------
(* Frame packing on its own, with bytes of data that look like the mark of jd_shift_frame. *)
EXTENDS JdFrame
=============================================================================
