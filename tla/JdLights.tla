------------------------------ MODULE JdLights -------------------------------
(***************************************************************************)
(* The status light (services/jd_status_light.c) and the LED service       *)
(* (services/ledsingle.c).  Both move a colour channel towards its target, *)
(* a frame at a time, in 8.8 fixed point.  The status light also glows (a  *)
(* value per channel of importance), is left alone for a while after a     *)
(* client has set it, and blinks patterns from a queue of three, during    *)
(* which a blink colour overrides the channel.  The three colours are      *)
(* computed alike and one of them is modelled; glow and protection times   *)
(* count frames, blink times are left open.  How a colour gets to the pins *)
(* of a light that the configuration describes is a part of its own.       *)
(***************************************************************************)
EXTENDS Integers, Sequences

CONSTANTS Kinds,       \* of "status", "led" and "rgb", the lights a behaviour may be about
          Targets,     \* the brightness a client asks for
          Speeds,      \* the speeds it asks for
          PROTECT_FOR, \* frames without glow after a client has set the light
          MaxAsked     \* bound: requests of a client (and blinks queued) in a behaviour

VARIABLES kind, \* the light
          s,    \* its state; lit and locks are the LED and the timer lock
          asked \* what the clients asked for: the last target, and how often

vars == <<kind, s, asked>>

NoGlow == "none"
PROTECT == "protect"
Glows == {"on", "fast_blink"}
Patterns == {1, 2, 3}

\* A pattern: how often it blinks; a faint one is over at once.
_JD_BLINK_REPETITIONS(e) == IF e = 2 THEN 2 ELSE 1
Faint(e) == e = 3

-----------------------------------------------------------------------------
(* Colour channels.                                                        *)

\* Mutant: the lock is taken whenever the light is shown lit.
rgbled_showAgain(t) ==
  LET c == IF t.color_override # 0 THEN 65280 ELSE t.value
      sum == (c * 255) \div 32768
  IN  [t EXCEPT !.lit = c, !.in_tim = sum # 0,
                !.locks = IF sum # 0 THEN @ + 1 ELSE IF t.in_tim THEN @ - 1 ELSE @]

\* rgbled_show: what the LED shows, and the lock that keeps the timer running.
rgbled_show(t) ==
  LET c == IF t.color_override # 0 THEN 65280 ELSE t.value
      sum == (c * 255) \div 32768
  IN  [t EXCEPT !.lit = c,
                !.locks = CASE sum = 0 /\ t.in_tim -> @ - 1
                            [] sum # 0 /\ ~t.in_tim -> @ + 1
                            [] OTHER -> @,
                !.in_tim = sum # 0]

led_show(t) == rgbled_show(t)

jd_status_set(t, to, speed) ==
  [t EXCEPT !.target = to, !.speed = ((to - (t.value \div 256)) * speed) \div 2]

led_animate(t, to, speed) == jd_status_set(t, to, speed)

\* One frame of a channel; at or past the target it stops there.
StepChannel(t) ==
  LET v == t.value + t.speed IN
  IF \/ t.speed = 0
     \/ t.speed < 0 /\ v \div 256 < t.target
     \/ t.speed > 0 /\ v \div 256 > t.target
  THEN [t EXCEPT !.speed = 0, !.value = t.target * 256]
  ELSE [t EXCEPT !.value = v]

Shown(t, u) == IF u.value # t.value THEN rgbled_show(u) ELSE u

led_process(t) == Shown(t, StepChannel(t))

-----------------------------------------------------------------------------
(* Glowing.                                                                *)

TopGlow(t) == IF t.glow_ch[2] # NoGlow THEN t.glow_ch[2] ELSE t.glow_ch[1]

re_glow(t) ==
  LET u == IF t.glow = TopGlow(t) THEN t
           ELSE [t EXCEPT !.glow = TopGlow(t), !.glow_phase = 0, !.glow_step = 0]
  IN  CASE t.glow = PROTECT -> t
        [] t.glow # PROTECT /\ u.glow = NoGlow -> jd_status_set(u, 0, 100)
        [] OTHER -> u

\* The frame's share of the glow: its dark phase, then its bright one.
GlowStep(t) ==
  LET speed == IF t.glow = "on" THEN 50 ELSE 0
      on == t.glow_phase = 1
  IN  CASE t.glow = NoGlow \/ t.glow_step > 0 -> t
        [] t.glow = PROTECT /\ t.glow_step = 0 -> re_glow([t EXCEPT !.glow = NoGlow])
        [] t.glow \in Glows /\ t.glow_step = 0 ->
             jd_status_set([t EXCEPT !.glow_step = IF t.glow = "on" /\ ~on THEN 0 ELSE 1,
                                     !.glow_phase = 1 - @],
                           IF on THEN 8 ELSE 0, speed)

-----------------------------------------------------------------------------
(* Blinking.                                                               *)

set_blink_color(t, c) == rgbled_show([t EXCEPT !.color_override = c])

\* The front pattern's next step; at its end the patterns behind it move up.
BlinkStep(t) ==
  LET e == t.queued_blinks[1]
      u == IF Faint(e)
           THEN [set_blink_color(set_blink_color(t, e), 0) EXCEPT !.blink_rep = (@ + 2) % 256]
           ELSE [set_blink_color(t, IF t.blink_rep % 2 = 1 THEN 0 ELSE e)
                   EXCEPT !.blink_rep = (@ + 1) % 256]
  IN  IF u.blink_rep \div 2 >= _JD_BLINK_REPETITIONS(e)
      THEN [u EXCEPT !.queued_blinks = <<@[2], @[3], @[3]>>]
      ELSE u

\* A pattern that is queued already is not queued again, a faint one never behind
\* another.
Blinked(t, e) ==
  LET q == t.queued_blinks
      free == {i \in 1..3 : q[i] = 0}
      i == CHOOSE k \in free : \A j \in free : k <= j
  IN  CASE free = {} -> t
        [] free # {} /\ (\E j \in 1..(i - 1) : q[j] = e) -> t
        [] free # {} /\ ~(\E j \in 1..(i - 1) : q[j] = e) ->
             IF i = 1 THEN [t EXCEPT !.queued_blinks[1] = e, !.blink_rep = 0]
             ELSE IF Faint(e) THEN t ELSE [t EXCEPT !.queued_blinks[i] = e]

-----------------------------------------------------------------------------
(* The pins of the light, with PWM for a light of three colours.           *)

LED_PERIOD == 256
Colours == {<<0, 0, 0>>, <<255, 0, 1>>, <<0, 128, 0>>}

\* A light of one colour is a pin.
jd_rgb_init(mono, high) ==
  [mono |-> mono, high |-> high, in_tim |-> FALSE, locks |-> 0, pin |-> ~high,
   ch |-> [i \in 1..3 |-> [duty |-> 0, on |-> TRUE, pin |-> FALSE]]]

\* The level of a pin is TRUE when it is high; the duty is the share of time it is.
\* A duty of none is not left to the PWM.
SetChannel(t, ch, v) ==
  LET c == IF t.high THEN (IF v >= LED_PERIOD THEN LED_PERIOD - 1 ELSE v) ELSE LED_PERIOD - v
  IN  [duty |-> c, on |-> c # 0, pin |-> IF c = 0 THEN ~t.high ELSE ch.pin]

jd_rgb_set(t, v) ==
  LET sum == v[1] + v[2] + v[3] IN
  IF t.mono THEN [t EXCEPT !.in_tim = sum # 0, !.pin = IF sum # 0 THEN t.high ELSE ~t.high]
  ELSE [t EXCEPT !.ch = [i \in 1..3 |-> SetChannel(t, @[i], v[i])],
                 !.locks = CASE sum = 0 /\ t.in_tim -> @ - 1
                             [] sum # 0 /\ ~t.in_tim -> @ + 1
                             [] OTHER -> @,
                 !.in_tim = sum # 0]

\* How bright a channel is.
Brightness(t, ch) ==
  CASE ~ch.on -> IF ch.pin = t.high THEN 255 ELSE 0
    [] ch.on /\ t.high -> ch.duty
    [] ch.on /\ ~t.high -> LED_PERIOD - ch.duty

-----------------------------------------------------------------------------
(* Actions.                                                                *)

\* jd_status_init or led_service_init: the light is dark.
jd_status_init ==
  [value |-> 0, speed |-> 0, target |-> 0, color_override |-> 0, lit |-> 0, in_tim |-> FALSE,
   locks |-> 0, glow |-> NoGlow, glow_ch |-> <<NoGlow, NoGlow>>, glow_phase |-> 0,
   glow_step |-> 0, queued_blinks |-> <<0, 0, 0>>, blink_rep |-> 0]

Init ==
  /\ kind \in Kinds
  /\ IF kind = "rgb" THEN \E mono, high \in BOOLEAN : s = jd_rgb_init(mono, high)
     ELSE s = jd_status_init
  /\ asked = [to |-> IF kind = "rgb" THEN <<0, 0, 0>> ELSE 0, times |-> 0]

Asking == asked.times < MaxAsked

\* The status light is set by a client of the control service.
jd_status_handle_packet(to, speed) ==
  /\ kind = "status" /\ Asking
  /\ s' = jd_status_set([s EXCEPT !.glow = PROTECT, !.glow_step = PROTECT_FOR], to, speed)
  /\ asked' = [to |-> to, times |-> asked.times + 1]
  /\ UNCHANGED kind

led_handle_packet(to, speed) ==
  /\ kind = "led" /\ Asking
  /\ s' = led_animate(s, to, speed)
  /\ asked' = [to |-> to, times |-> asked.times + 1]
  /\ UNCHANGED kind

\* rgbled_show of a configured light: the pins are set only when the colour is
\* not the one before, black at the start.
ShowColour(v) ==
  /\ kind = "rgb" /\ Asking
  /\ v # asked.to
  /\ s' = jd_rgb_set(s, v)
  /\ asked' = [to |-> v, times |-> asked.times + 1]
  /\ UNCHANGED kind

jd_glow(ch, v) ==
  /\ kind = "status" /\ Asking
  /\ s.glow_ch[ch] # v
  /\ s' = re_glow([s EXCEPT !.glow_ch[ch] = v])
  /\ asked' = [asked EXCEPT !.times = @ + 1]
  /\ UNCHANGED kind

jd_blink(e) ==
  /\ kind = "status" /\ Asking
  /\ s' = Blinked(s, e)
  /\ asked' = [asked EXCEPT !.times = @ + 1]
  /\ UNCHANGED kind

\* A frame: glow, then the channel.
Frame(t) ==
  LET u == GlowStep([t EXCEPT !.glow_step = IF @ > 0 THEN @ - 1 ELSE 0])
  IN  Shown(u, StepChannel(u))

\* Whichever of the blink's and the frame's times have come.
jd_status_process(blink, frame) ==
  /\ kind = "status"
  /\ blink => s.queued_blinks[1] # 0
  /\ LET t == IF blink THEN BlinkStep(s) ELSE s
     IN  s' = IF frame THEN Frame(t) ELSE t
  /\ UNCHANGED <<kind, asked>>

Next ==
  \/ \E to \in Targets, speed \in Speeds :
       jd_status_handle_packet(to, speed) \/ led_handle_packet(to, speed)
  \/ \E ch \in {1, 2}, v \in Glows \cup {NoGlow} : jd_glow(ch, v)
  \/ \E e \in Patterns : jd_blink(e)
  \/ \E blink, frame \in BOOLEAN : jd_status_process(blink, frame)
  \/ \E v \in Colours : ShowColour(v)
  \/ kind = "led" /\ s' = led_process(s) /\ UNCHANGED <<kind, asked>>

Spec == Init /\ [][Next]_vars

-----------------------------------------------------------------------------
(* Properties.                                                             *)

\* What a client has set stays until the protection ends; a channel always
\* moves towards its target and never past it; and the light glows as its most
\* important channel says.
LightObeys ==
  kind # "rgb" =>
  /\ (kind = "led" \/ s.glow = PROTECT) => s.target = asked.to
  /\ s.speed > 0 => s.value \div 256 <= s.target
  /\ s.speed < 0 => s.value \div 256 >= s.target
  /\ kind = "status" => s.glow \in {PROTECT, TopGlow(s)}

\* The LED shows what the state says, and the timer that drives it is kept
\* running exactly while it is lit.
LightLocksBalance ==
  kind # "rgb" =>
  /\ s.lit = IF s.color_override # 0 THEN 65280 ELSE s.value
  /\ s.locks = IF (s.lit * 255) \div 32768 > 0 THEN 1 ELSE 0

\* From the first colour on the pins show the colour that was set, whichever
\* level lights them, and the timer of the PWM is kept running while there is light.
PinsShowColour ==
  (kind = "rgb" /\ asked.times > 0) =>
  /\ s.mono => (s.pin = s.high) = (asked.to # <<0, 0, 0>>)
  /\ ~s.mono => /\ \A i \in 1..3 : Brightness(s, s.ch[i]) = asked.to[i]
               /\ s.locks = IF asked.to = <<0, 0, 0>> THEN 0 ELSE 1

\* Lights come to what was asked for, show it, and lock the timer while they are lit.
LightsSound == LightObeys /\ LightLocksBalance /\ PinsShowColour
=============================================================================
