------------------------------ MODULE JdDisplay ------------------------------
(***************************************************************************)
(* Sending pixels: the LED display and the LED strip                       *)
(* (services/leddisplay.c, ledstrip.c, led_internal.h), and the dot matrix *)
(* (services/dotmatrix.c).  The buffer is handed to the hardware, which    *)
(* reads it while the main loop goes on and reports the end in an          *)
(* interrupt.  A client changes pixels, brightness and the power budget at *)
(* any time; the strip's pixels are painted by a program, here a sequence  *)
(* of pictures (JdStrip has the programs).  A picture is one brightness    *)
(* for all its pixels.                                                     *)
(***************************************************************************)
EXTENDS Integers, Sequences

CONSTANTS Kinds,     \* of "display", "strip" and "dots", what a behaviour may be about
          Pictures,  \* pixel values
          NUMPIXELS, \* how many pixels there are
          Levels,    \* brightness a client asks for
          Budgets,   \* power budgets, in mA
          MaxProgram \* bound: the longest program of the strip

VARIABLES kind,    \* the service
          has_pwr, \* built with PIN_PWR >= 0: the LEDs' power can be switched off
          s,       \* its state
          sent,    \* the transmission under way, or the last one
          shown    \* what the LEDs show

vars == <<kind, has_pwr, s, sent, shown>>

-----------------------------------------------------------------------------
(* The power budget, in micro-amperes.                                     *)

SCALE0(c, i) == (c * (1 + i)) \div 256

Current(px, inten) == 3 * NUMPIXELS * SCALE0(px, inten) * 46
Limit(maxp) == maxp * 1000 - (14000 + 930 * NUMPIXELS)

\* Towards the requested brightness while the budget allows it.
limit_intensity(t) ==
  LET up == t.inten + 1 + t.inten \div 32
      try == IF up > t.req THEN t.req ELSE up
      limit == Limit(t.maxpower)
      fit == limit \div ((3 * NUMPIXELS * t.px * 46) \div 256) - 1
  IN  CASE Current(t.px, try) <= limit -> [t EXCEPT !.inten = try]
        [] Current(t.px, try) > limit /\ Current(t.px, t.inten) <= limit -> t
        [] OTHER -> [t EXCEPT !.inten = IF fit < 0 THEN 0 ELSE fit]

-----------------------------------------------------------------------------
(* Transmissions.                                                          *)

is_enabled(t) == t.req > 0

\* Switch the power off for a dark buffer, if it can be, else send the buffer.
Transmit(t, dark_is_off) ==
  LET u == limit_intensity([t EXCEPT !.dirty = FALSE]) IN
  IF dark_is_off /\ t.px = 0
  THEN /\ s' = [t EXCEPT !.dirty = FALSE]
       /\ shown' = [px |-> 0, inten |-> 0]
       /\ UNCHANGED sent
  ELSE /\ s' = [u EXCEPT !.in_tx = TRUE, !.needs_clear = FALSE, !.pll = @ + 1]
       /\ sent' = [px |-> u.px, inten |-> u.inten, limit |-> Limit(u.maxpower)]
       /\ UNCHANGED shown

\* The interrupt at the end of a transmission.  A buffer that was changed under
\* way has been shown in part (-1).
tx_done ==
  /\ s.in_tx
  /\ s' = [s EXCEPT !.in_tx = FALSE, !.pll = @ - 1]
  /\ shown' = [px |-> IF s.px = sent.px THEN s.px ELSE -1, inten |-> sent.inten]
  /\ UNCHANGED <<kind, has_pwr, sent>>

\* refresh: the time of auto_refresh has come.
leddisplay_process(refresh) ==
  /\ kind = "display"
  /\ LET t == [s EXCEPT !.dirty = @ \/ refresh] IN
     IF (is_enabled(t) \/ t.needs_clear) /\ t.dirty /\ ~t.in_tx
     THEN Transmit(t, has_pwr /\ ~t.needs_clear)
     ELSE s' = t /\ UNCHANGED <<sent, shown>>
  /\ UNCHANGED <<kind, has_pwr>>

\* Mutant: programs run while a picture is being sent.
prog_processAlways(t, step) ==
  IF ~step \/ (t.prog_ptr > Len(t.prog) /\ t.num_repeats = 1) THEN t
  ELSE LET u == IF t.prog_ptr > Len(t.prog) THEN [t EXCEPT !.prog_ptr = 1] ELSE t IN
       IF u.prog = <<>> THEN u
       ELSE [u EXCEPT !.px = u.prog[u.prog_ptr], !.prog_ptr = @ + 1, !.dirty = TRUE]

\* One picture of the program, unless a picture is being sent or it is not yet
\* time; a program that has ended starts again if it is to be repeated (for
\* ever when num_repeats is 0).
prog_process(t, step) ==
  LET ended == t.prog_ptr > Len(t.prog)
      u == IF ended THEN [t EXCEPT !.prog_ptr = 1, !.num_repeats = IF @ = 0 THEN 0 ELSE @ - 1]
           ELSE t
  IN  CASE t.in_tx \/ ~step \/ (ended /\ t.num_repeats = 1) -> t
        [] OTHER -> IF u.prog = <<>> THEN u
                    ELSE [u EXCEPT !.px = u.prog[u.prog_ptr], !.prog_ptr = @ + 1, !.dirty = TRUE]

ledstrip_process(refresh, step) ==
  /\ kind = "strip"
  /\ LET u == prog_process(s, step)
         t == [u EXCEPT !.dirty = @ \/ (refresh /\ s.inited)]
     IN  IF is_enabled(t) /\ t.dirty /\ ~t.in_tx THEN Transmit(t, has_pwr)
         ELSE s' = t /\ UNCHANGED <<sent, shown>>
  /\ UNCHANGED <<kind, has_pwr>>

\* Keep the processor awake while there is something to refresh.
dotmatrix_process ==
  /\ kind = "dots"
  /\ LET on == s.req > 0 /\ s.px > 0 IN
     /\ s' = [s EXCEPT !.in_tx = on, !.pll = IF on = s.in_tx THEN @ ELSE IF on THEN @ + 1 ELSE @ - 1]
     /\ shown' = IF on THEN [px |-> s.px, inten |-> s.req] ELSE shown
  /\ UNCHANGED <<kind, has_pwr, sent>>

-----------------------------------------------------------------------------
(* Packets.                                                                *)

\* After any packet: a display that is dark or disabled is to be sent once more.
NeedsClear(t) ==
  IF kind = "display" /\ (t.px = 0 \/ ~is_enabled(t)) THEN [t EXCEPT !.needs_clear = TRUE] ELSE t

handle_set(v) ==
  /\ kind \in {"display", "dots"}
  /\ s' = NeedsClear([s EXCEPT !.px = v, !.dirty = TRUE])
  /\ UNCHANGED <<kind, has_pwr, sent, shown>>

handle_brightness(v) ==
  /\ s' = NeedsClear([s EXCEPT !.req = v, !.inten = v])
  /\ UNCHANGED <<kind, has_pwr, sent, shown>>

handle_max_power(v) ==
  /\ kind # "dots"
  /\ s' = NeedsClear([s EXCEPT !.maxpower = v])
  /\ UNCHANGED <<kind, has_pwr, sent, shown>>

handle_num_repeats(n) ==
  /\ kind = "strip"
  /\ s' = [s EXCEPT !.num_repeats = n]
  /\ UNCHANGED <<kind, has_pwr, sent, shown>>

\* A new program, and sync_config: power and the strip's type, if it is enabled.
handle_run_cmd(prog) ==
  /\ kind = "strip"
  /\ s' = [s EXCEPT !.prog = prog, !.prog_ptr = 1, !.inited = @ \/ is_enabled(s)]
  /\ shown' = IF has_pwr /\ ~is_enabled(s) THEN [px |-> 0, inten |-> 0] ELSE shown
  /\ UNCHANGED <<kind, has_pwr, sent>>

Programs == UNION {[1..n -> Pictures] : n \in 0..MaxProgram}

-----------------------------------------------------------------------------
\* leddisplay_init sends the empty buffer, the other two do nothing yet.
Init ==
  /\ kind \in Kinds
  /\ has_pwr \in IF kind = "dots" THEN {FALSE} ELSE BOOLEAN
  /\ s = [px |-> 0, req |-> 15, inten |-> 15, maxpower |-> CHOOSE b \in Budgets : \A c \in Budgets : b >= c,
          in_tx |-> kind = "display", dirty |-> FALSE, needs_clear |-> FALSE, inited |-> FALSE,
          prog |-> <<>>, prog_ptr |-> 1, num_repeats |-> 1,
          pll |-> IF kind = "display" THEN 1 ELSE 0]
  /\ sent = [px |-> 0, inten |-> 15, limit |-> 0]
  /\ shown = [px |-> 0, inten |-> 0]

Next ==
  \/ \E refresh, step \in BOOLEAN : leddisplay_process(refresh) \/ ledstrip_process(refresh, step)
  \/ dotmatrix_process
  \/ kind # "dots" /\ tx_done
  \/ \E v \in Pictures : handle_set(v)
  \/ \E v \in Levels : handle_brightness(v)
  \/ \E v \in Budgets : handle_max_power(v)
  \/ \E n \in {0, 1, 2} : handle_num_repeats(n)
  \/ \E p \in Programs : handle_run_cmd(p)

-----------------------------------------------------------------------------
(* Properties.                                                             *)

\* No transmission draws more than the power budget in force when it began,
\* but for the quarter milliampere that limit_intensity's division loses.
WithinBudget ==
  kind # "dots" /\ s.in_tx /\ sent.px > 0 =>
    Current(sent.px, sent.inten) <= (IF sent.limit > 0 THEN sent.limit ELSE 0) + 255

\* A display that is idle with nothing to send shows its buffer, and shows
\* nothing once it was disabled; the strip's buffer is never painted while it is
\* being sent; and a transmission (a picture of the dot matrix) keeps the
\* processor's clock up exactly as long as it lasts.
PicturesArrive ==
  /\ kind = "display" /\ ~s.in_tx =>
       /\ is_enabled(s) /\ ~s.dirty => shown.px = s.px
       /\ ~is_enabled(s) /\ ~s.needs_clear => shown.inten = 0 \/ shown.px = 0
  /\ kind = "strip" /\ s.in_tx => s.px = sent.px
  /\ s.pll = IF s.in_tx THEN 1 ELSE 0
=============================================================================
