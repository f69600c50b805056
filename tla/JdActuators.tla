----------------------------- MODULE JdActuators -----------------------------
(***************************************************************************)
(* The services that move, sound, switch or type something                 *)
(* (services/motor.c, servo.c, buzzer.c, vibrationmotor.c with             *)
(* drivers/aw86224fcr.c, relay.c, lightbulb.c, powersupply.c, hidmouse.c,  *)
(* hidkeyboard.c, hidjoystick.c and gpio.c).  A client writes registers    *)
(* and sends commands at any time, the main loop runs the process          *)
(* functions.  A behaviour is about one service.  Duties, angles, pulses   *)
(* and durations are small numbers.                                        *)
(***************************************************************************)
EXTENDS Integers, Sequences, FiniteSets

LOCAL INSTANCE SequencesExt

CONSTANTS Kinds,   \* the services among which a behaviour has one
          MaxCmds  \* bound: commands in a behaviour of the vibration motor and HID services

VARIABLES kind, \* the service
          s,    \* its state and its registers
          out,  \* what it drives: pins, PWM, power locks, USB reports
          told  \* what the client has asked for, summed up

vars == <<kind, s, out, told>>

Abs(a) == IF a < 0 THEN -a ELSE a

\* C's division rounds towards zero.
Quot(a, b) == IF a * b >= 0 THEN Abs(a) \div Abs(b) ELSE -(Abs(a) \div Abs(b))
Clamp(low, v, hi) == IF v < low THEN low ELSE IF v > hi THEN hi ELSE v

-----------------------------------------------------------------------------
(* Motor: one PWM channel per direction.                                   *)

DUTY_STEP == 2  \* SERVO_PERIOD / 32

\* Mutant: both directions change by steps.
duty_stepBoth(target, current) ==
  IF target > current + DUTY_STEP THEN current + DUTY_STEP
  ELSE IF target < current - DUTY_STEP THEN current - DUTY_STEP ELSE target

\* Up by steps, never above the target, down at once.
duty_step(target, current) ==
  IF target > current + DUTY_STEP THEN current + DUTY_STEP ELSE target

\* The channels are written one after the other; s.next is the one to write.
motor_process ==
  /\ kind = "motor"
  /\ s' = [s EXCEPT !.current[s.next] = duty_step(s.target[s.next], @), !.next = 3 - @]
  /\ out' = [out EXCEPT !.duty[s.next] = s'.current[s.next]]
  /\ UNCHANGED <<kind, told>>

\* Speeds are 2^15 and PWM steps 2^PWM_BITS in the code, 10 and 5 here.
pwm_value(v) == Clamp(0, v \div 2, 4)

\* Switching on or off stops both channels.
motor_set_pwr(on) ==
  IF on = s.is_on THEN [s |-> s, out |-> out]
  ELSE [s |-> [s EXCEPT !.is_on = on, !.target = <<0, 0>>, !.current = <<0, 0>>],
        out |-> [out EXCEPT !.duty = <<0, 0>>, !.en = on, !.locks = IF on THEN @ + 1 ELSE @ - 1]]

\* A register was written.
motor_handle_packet(value, intensity) ==
  /\ kind = "motor" /\ s.next = 1
  /\ LET p == motor_set_pwr(intensity > 0) IN
     /\ s' = IF intensity = 0 THEN p.s
             ELSE [p.s EXCEPT !.target =
                     IF value < 0 THEN <<0, pwm_value(-value)>> ELSE <<pwm_value(value), 0>>]
     /\ out' = p.out
  /\ told' = [told EXCEPT !.on = intensity > 0]
  /\ UNCHANGED kind

-----------------------------------------------------------------------------
(* Servo.  fixed: the limits cannot be written.                            *)

UNIT == 4          \* what the shifts by 8 divide by
LOW == -12         \* the clamps of angles and pulses
HIGH == 20
PULSE_MAX == 30

\* An int32_t, here of 6 bits.
Wrapped(a) == ((a + 32) % 64) - 32

\* The configured angles and pulses; the pulses may be given in either order.
Params0 == [min_angle |-> -8, max_angle |-> 9, min_pulse |-> 24, max_pulse |-> 6]

\* The limits in use: the configured ones, or the written ones within bounds.
Params(w) ==
  IF w.fixed THEN Params0
  ELSE [min_angle |-> Clamp(LOW, w.min_angle, HIGH), max_angle |-> Clamp(LOW, w.max_angle, HIGH),
        min_pulse |-> Clamp(0, w.min_pulse, PULSE_MAX),
        max_pulse |-> Clamp(0, w.max_pulse, PULSE_MAX)]

servo_set_pwr(on) ==
  IF on = s.is_on THEN out
  ELSE [out EXCEPT !.en = on, !.locks = IF on THEN @ + 1 ELSE @ - 1]

EffectiveAngle(p, angle, offset) == Clamp(p.min_angle, Wrapped(angle + offset), p.max_angle)

\* undef: what the division by zero gives for limits less than UNIT apart.
servo_handle_packet(w, undef) ==
  /\ kind = "servo"
  /\ LET p == Params(w)
         offset == Clamp(p.min_angle, w.offset, p.max_angle)
         angle == EffectiveAngle(p, w.angle, offset)
         width == (p.max_angle - p.min_angle) \div UNIT
         over == (angle - p.min_angle) \div UNIT
         on == w.intensity > 0
     IN  /\ s' = [f \in DOMAIN w |->
                    CASE f \in DOMAIN Params0 -> p[f]
                      [] f = "offset" -> offset
                      [] f = "angle" -> angle - offset
                      [] f = "is_on" -> on
                      [] f = "pulse" -> p.min_pulse + IF width = 0 THEN undef
                                          ELSE Quot(over * (p.max_pulse - p.min_pulse), width)
                      [] OTHER -> w[f]]
         /\ out' = [servo_set_pwr(on) EXCEPT !.duty = <<IF on THEN s'.pulse ELSE @[1], 0>>]
  /\ told' = [told EXCEPT !.on = w.intensity > 0]
  /\ UNCHANGED kind

ServoWrites ==
  {[s EXCEPT !.angle = a] : a \in {-9, 31}} \cup {[s EXCEPT !.offset = 3]}
    \cup {[s EXCEPT !.min_angle = a] : a \in {-30, 5}}
    \cup {[s EXCEPT !.max_angle = a] : a \in {-2, 8, 30}}
    \cup {[s EXCEPT !.min_pulse = a] : a \in {6, 40}} \cup {[s EXCEPT !.max_pulse = 12]}
    \cup {[s EXCEPT !.intensity = a] : a \in {0, 1}}

-----------------------------------------------------------------------------
(* Buzzer.  s.left: until end_tone_time.                                   *)

buzzer_process(t) ==
  LET u == IF t.left <= 0 THEN [t EXCEPT !.period = 0] ELSE t
  IN  [u EXCEPT !.on = IF u.period = 0 THEN FALSE ELSE @]

Buzz(t) ==
  /\ s' = buzzer_process(t)
  /\ out' = [out EXCEPT !.en = s'.on,
                        !.locks = @ + (IF s'.on THEN 1 ELSE 0) - (IF s.on THEN 1 ELSE 0)]

\* The tone starts at once, and buzzer_process is called.
buzzer_handle_packet(period, duration) ==
  /\ kind = "buzzer"
  /\ Buzz([s EXCEPT !.left = duration, !.period = period, !.on = TRUE])
  /\ UNCHANGED <<kind, told>>

buzzer_tick ==
  /\ kind = "buzzer"
  /\ \/ Buzz(s)
     \/ s' = [s EXCEPT !.left = IF @ > -1 THEN @ - 1 ELSE @] /\ UNCHANGED out
  /\ UNCHANGED <<kind, told>>

-----------------------------------------------------------------------------
(* Vibration motor.  A sequence of steps, longer than the chip plays at    *)
(* once (MAXDUR); the chip may be busy.  out.played has a tick per unit of *)
(* time.  Sequences are shorter than the array, so that a step of length 0 *)
(* follows them.                                                           *)

MAXDUR == 2
Ticks(step) == [i \in 1..step.duration |-> step.intensity]
Plays(steps) == FlattenSeq([i \in DOMAIN steps |-> Ticks(steps[i])])
Left == SubSeq(s.sequence, s.idx, Len(s.sequence))

\* The chip refuses to start while it plays.
write_amplitude(busy) == IF busy THEN -1 ELSE 0

AfterPiece(t, dur) ==
  IF t.sequence[t.idx].duration = dur THEN [t EXCEPT !.idx = @ + 1]
  ELSE [t EXCEPT !.sequence[t.idx].duration = @ - dur]

vibration_process(busy) ==
  /\ kind = "vibration"
  /\ s.idx <= Len(s.sequence)
  /\ LET curr == s.sequence[s.idx]
         dur == IF curr.duration > MAXDUR THEN MAXDUR ELSE curr.duration
     IN  IF curr.intensity = 0
         THEN /\ s' = [s EXCEPT !.idx = @ + 1]
              /\ out' = [out EXCEPT !.played = @ \o Ticks(curr)]
         ELSE IF write_amplitude(busy) = -1 THEN UNCHANGED <<s, out>>
         ELSE /\ s' = AfterPiece(s, dur)
              /\ out' = [out EXCEPT !.played = @ \o Ticks([curr EXCEPT !.duration = dur])]
  /\ UNCHANGED <<kind, told>>

handle_vibrate_cmd(steps) ==
  /\ kind = "vibration" /\ told.cmds < MaxCmds
  /\ s' = [sequence |-> steps, idx |-> 1]
  /\ told' = [told EXCEPT !.cmds = @ + 1, !.steps = Plays(steps)]
  /\ out' = [out EXCEPT !.played = <<>>]
  /\ UNCHANGED kind

Steps == [intensity : {0, 1}, duration : {1, 3}]

-----------------------------------------------------------------------------
(* Switched outputs: the pin follows the register, whatever its polarity.  *)

Level(on, active_lo) == IF on = active_lo THEN 0 ELSE 1

\* reflect_register_state of the relay: its drive and its light.
RelayOut(r) ==
  [out EXCEPT !.pin = Level(r.intensity > 0, r.active_lo), !.led = Level(r.intensity > 0, r.led_lo)]

\* A lamp that is off is an input with a pull to its off state; one that can be
\* dimmed has a PWM instead of a level, of MAXV steps of DIM (1023 and 64 in the
\* code).
MAXV == 3
DIM == 4
BulbOut(r) ==
  [out EXCEPT !.en = r.intensity > 0,
              !.pin = IF r.intensity > 0 /\ r.dimmable THEN @ ELSE Level(r.intensity > 0, r.active_lo),
              !.duty = IF r.intensity > 0 /\ r.dimmable
                       THEN LET v == r.intensity \div DIM IN
                            <<IF r.active_lo THEN MAXV - v ELSE v, 0>>
                       ELSE @]

\* The power supply: duty[1] is the wiper of the potentiometer.
PsuOut(r) ==
  [out EXCEPT !.pin = Level(r.enabled, r.active_lo), !.duty = IF r.enabled THEN <<r.voltage, 0>> ELSE @]

Switched(r, o) == s' = r /\ out' = o /\ UNCHANGED kind

relay_handle_packet(intensity) ==
  LET r == [s EXCEPT !.intensity = intensity] IN
  kind = "relay" /\ Switched(r, RelayOut(r)) /\ told' = [told EXCEPT !.on = intensity > 0]

bulb_handle_packet(intensity) ==
  LET r == [s EXCEPT !.intensity = intensity] IN
  kind = "bulb" /\ Switched(r, BulbOut(r)) /\ told' = [told EXCEPT !.on = intensity > 0]

\* The voltage is put between the limits when it is written, and not when they are.
psu_handle_packet(reg, v) ==
  LET w == [s EXCEPT ![reg] = v]
      r == IF reg = "voltage" THEN [w EXCEPT !.voltage = Clamp(w.min, v, w.max)] ELSE w
  IN  /\ kind = "psu" /\ Switched(r, PsuOut(r))
      /\ told' = [told EXCEPT !.on = r.enabled]

-----------------------------------------------------------------------------
(* HID services: reports to the USB host.                                  *)

STEP_MS == 20
Final == {0, 6, 67}  \* BTN_OFF, BTN_CLICK_OFF, BTN_DBL_CLICK_END
is_btn_on(b) == b # 0 /\ ~(55 <= b /\ b < 62)
next_btn_state(b) == IF b \in Final THEN 0 ELSE IF b = 255 THEN b ELSE b + 1
state_map == <<0, 255, 1, 50>>

compute_step(ax, d, time) ==
  LET target == ax.target + d IN
  [target |-> target, step |-> Clamp(-127, Quot(STEP_MS * target, IF time = 0 THEN 1 ELSE time), 127)]

current_step(ax) == IF Abs(ax.target) < Abs(ax.step) THEN ax.target ELSE ax.step

\* A report of zeros is not repeated.
hidmouse_process ==
  /\ kind = "mouse"
  /\ LET step == current_step(s.axis)
         btn == is_btn_on(s.button)
         zero == step = 0 /\ ~btn
     IN  /\ s' = [s EXCEPT !.axis.target = @ - step, !.button = next_btn_state(@), !.last_zero = zero]
         /\ out' = IF zero /\ s.last_zero THEN out
                   ELSE [out EXCEPT !.en = btn, !.moved = @ + step]
         /\ told' = [told EXCEPT !.on = btn]
  /\ UNCHANGED kind

hidmouse_handle_packet ==
  /\ kind = "mouse" /\ told.cmds < MaxCmds
  /\ \/ \E d \in {3, -300}, time \in {0, 40} :
          /\ s' = [s EXCEPT !.axis = compute_step(@, d, time)]
          /\ told' = [told EXCEPT !.cmds = @ + 1, !.sum = @ + d]
     \/ \E ev \in 1..4 :
          /\ s' = [s EXCEPT !.button = state_map[ev]]
          /\ told' = [told EXCEPT !.cmds = @ + 1]
  /\ UNCHANGED <<kind, out>>

KEYCODES == 2
Codes == 1..KEYCODES
index_of_key(r, k) ==
  LET at == {i \in Codes : r[i] = k} IN
  IF at = {} THEN 0 ELSE CHOOSE i \in at : \A j \in at : i <= j

\* Reports go out when they change (and every two seconds); then keys that were
\* only pressed come up.
hidkeyboard_process ==
  /\ kind = "keyboard"
  /\ LET r == s.keycode
         modifier == IF \A i \in Codes : r[i] = 0 THEN 0 ELSE s.modifier
         left == [i \in Codes |-> IF s.steps_left[i] > 0 THEN s.steps_left[i] - 1 ELSE 0]
     IN  /\ out' = [out EXCEPT !.keys = r, !.mods = modifier]
         /\ s' = [s EXCEPT !.steps_left = left, !.modifier = modifier,
                           !.keycode = [i \in Codes |-> IF s.steps_left[i] = 1 THEN 0 ELSE r[i]]]
  /\ UNCHANGED <<kind, told>>

StepsLeft(action) == IF action = "press" THEN 2 ELSE 0

\* UP, DOWN and PRESS of a key with modifiers; with all places taken the first
\* one goes.
hidkeyboard_handle_packet(action, k, modifiers) ==
  /\ kind = "keyboard" /\ told.cmds < MaxCmds
  /\ LET has == index_of_key(s.keycode, k)
         free == index_of_key(s.keycode, 0)
         idx == IF has # 0 THEN has ELSE IF free # 0 THEN free ELSE 1
         t == [s EXCEPT !.modifier = modifiers]
     IN  s' = CASE action = "clear" -> [s EXCEPT !.keycode = [i \in Codes |-> 0], !.modifier = 0]
                [] action = "up" -> IF has = 0 THEN t ELSE [t EXCEPT !.keycode[has] = 0]
                [] action \in {"press", "down"} ->
                     [t EXCEPT !.keycode[idx] = k, !.steps_left[idx] = StepsLeft(action)]
  /\ LET full == action \in {"press", "down"} /\ \A i \in Codes : s.keycode[i] \notin {0, k}
     IN  told' = [told EXCEPT !.cmds = @ + 1,
                    !.held = CASE action = "clear" -> {}
                               [] action = "down" -> @ \cup {k}
                               [] OTHER -> @ \ {k},
                    !.lost = IF action = "clear" THEN {}
                             ELSE (@ \ {k}) \cup {h \in told.held : full /\ s.keycode[1] = h}]
  /\ UNCHANGED <<kind, out>>

\* The axes, or the buttons, are set; values that are not sent are 0.
hidjoystick_handle_packet(part, v) ==
  /\ kind = "joystick"
  /\ s' = [s EXCEPT !.r[part] = v]
  /\ UNCHANGED <<kind, out, told>>

\* The report goes out at the next step if it changed, and now and then.
hidjoystick_process ==
  /\ kind = "joystick"
  /\ LET send == s.num_skips > 2 \/ s.r # s.prev_r IN
     /\ s' = [s EXCEPT !.prev_r = s.r, !.num_skips = IF send THEN 0 ELSE @ + 1]
     /\ out' = IF send THEN [out EXCEPT !.keys = s.r] ELSE out
  /\ UNCHANGED <<kind, told>>

-----------------------------------------------------------------------------
(* GPIO: two pins, each off, an input or an output.                        *)

\* What the configuration says of a pin (sPin): -1 is nothing, other numbers do nothing.
gpiosrv_config(spin) ==
  [mode |-> [i \in 1..2 |-> CASE spin[i] = 0 -> "low" [] spin[i] = 1 -> "high" [] OTHER -> "off"],
   values |-> <<0, 0>>, prev |-> <<0, 0>>, timer |-> 0]

\* An output without a level, and an analog input, are refused.
cmd_configure(i, mode) ==
  /\ kind = "gpio"
  /\ IF mode \in {"out", "analog"} THEN UNCHANGED <<s, out>>
     ELSE s' = [s EXCEPT !.mode[i] = mode] /\ out' = [out EXCEPT !.keys[i] = mode]
  /\ UNCHANGED <<kind, told>>

\* levels: of the two pins; a change is told at once, but not twice in a while.
gpiosrv_process(levels) ==
  /\ kind = "gpio"
  /\ LET values == [i \in 1..2 |-> IF s.mode[i] = "in" THEN levels[i] ELSE 0]
         send == s.timer = 0 /\ values # s.prev
     IN  /\ s' = [s EXCEPT !.values = values, !.prev = IF send THEN values ELSE @,
                           !.timer = IF send THEN 2 ELSE @]
         /\ told' = [told EXCEPT !.values = IF send THEN values ELSE @]
  /\ UNCHANGED <<kind, out>>

gpio_tick ==
  /\ kind = "gpio" /\ s.timer > 0
  /\ s' = [s EXCEPT !.timer = @ - 1]
  /\ UNCHANGED <<kind, out, told>>

-----------------------------------------------------------------------------
Fresh ==
  CASE kind = "motor" -> {[is_on |-> FALSE, target |-> <<0, 0>>, current |-> <<0, 0>>, next |-> 1]}
    [] kind = "servo" ->
         {[fixed |-> f, angle |-> 0, offset |-> 0, intensity |-> 0, is_on |-> FALSE, pulse |-> 0,
           min_angle |-> Params0.min_angle, max_angle |-> Params0.max_angle,
           min_pulse |-> Params0.min_pulse, max_pulse |-> Params0.max_pulse] : f \in BOOLEAN}
    [] kind = "buzzer" -> {[left |-> 0, period |-> 0, on |-> FALSE]}
    [] kind = "vibration" -> {[sequence |-> <<>>, idx |-> 1]}
    [] kind = "relay" -> [intensity : {0, 1}, active_lo : BOOLEAN, led_lo : BOOLEAN]
    [] kind = "bulb" -> [intensity : {0}, active_lo : BOOLEAN, dimmable : BOOLEAN]
    [] kind = "psu" -> [enabled : {TRUE}, voltage : {3}, min : {2}, max : {4}, active_lo : BOOLEAN]
    [] kind = "mouse" -> {[axis |-> [target |-> 0, step |-> 0], button |-> 0, last_zero |-> FALSE]}
    [] kind = "keyboard" -> {[keycode |-> <<0, 0>>, steps_left |-> <<0, 0>>, modifier |-> 0]}
    [] kind = "joystick" -> {[r |-> <<0, 0>>, prev_r |-> <<0, 0>>, num_skips |-> 3]}
    [] kind = "gpio" -> {gpiosrv_config(<<-1, spin>>) : spin \in {-1, 0, 1, 2}}

Init ==
  /\ kind \in Kinds
  /\ s \in Fresh
  /\ LET on == (kind = "psu") \/ (kind = "relay" /\ s.intensity = 1) IN
     /\ out = [duty |-> <<IF kind = "psu" THEN s.voltage ELSE 0, 0>>, en |-> FALSE, locks |-> 0,
               moved |-> 0, played |-> <<>>, mods |-> 0,
               pin |-> IF kind \in {"relay", "bulb", "psu"} THEN Level(on, s.active_lo) ELSE 0,
               led |-> IF kind = "relay" THEN Level(on, s.led_lo) ELSE 0,
               keys |-> IF kind = "gpio" THEN s.mode ELSE <<0, 0>>]
     /\ told = [on |-> on, cmds |-> 0, steps |-> <<>>, sum |-> 0, held |-> {}, lost |-> {},
                values |-> <<0, 0>>]

Next ==
  \/ motor_process
  \/ \E v \in {-10, 1, 6}, i \in {0, 1} : motor_handle_packet(v, i)
  \/ kind = "servo" /\ \E w \in ServoWrites, u \in {0, 30} : servo_handle_packet(w, u)
  \/ \E p, d \in 0..2 : buzzer_handle_packet(p, d)
  \/ buzzer_tick
  \/ \E busy \in BOOLEAN : vibration_process(busy)
  \/ \E n \in 1..2 : \E steps \in [1..n -> Steps] : handle_vibrate_cmd(steps)
  \/ \E i \in {0, 1, 6, 15} : relay_handle_packet(i) \/ bulb_handle_packet(i)
  \/ \E b \in BOOLEAN : psu_handle_packet("enabled", b)
  \/ \E v \in {0, 3, 5} : \E reg \in {"voltage", "min", "max"} : psu_handle_packet(reg, v)
  \/ hidmouse_process
  \/ hidmouse_handle_packet
  \/ hidkeyboard_process
  \/ \E a \in {"clear", "up", "down", "press"}, k \in 1..3, m \in {0, 1} :
       hidkeyboard_handle_packet(a, k, m)
  \/ \E part \in 1..2, v \in {0, 1} : hidjoystick_handle_packet(part, v)
  \/ hidjoystick_process
  \/ \E i \in 1..2, m \in {"off", "in", "high", "low", "out", "analog"} : cmd_configure(i, m)
  \/ \E l \in [1..2 -> {0, 1}] : gpiosrv_process(l)
  \/ gpio_tick

-----------------------------------------------------------------------------
(* Properties.                                                             *)

\* Outputs are driven as they were asked to be and no longer: a motor not while
\* it is disabled and never in both directions, but for the moment between the
\* two writes of motor_process that reverse it one way, when channel 2 is about
\* to be set to 0; a servo within its limits, as far as these are UNIT apart (a
\* division by zero gives anything otherwise, see the README); a buzzer not
\* after its tone; a lamp at the PWM step below its brightness, which for less
\* than a step is dark though the lamp is on; timers and clocks are held exactly
\* while something needs them.
OutputsSafe ==
  /\ kind = "motor" =>
       /\ out.duty[1] > 0 /\ out.duty[2] > 0 =>
            s.next = 2 /\ s.target[2] = 0 /\ out.duty[1] <= DUTY_STEP
       /\ ~told.on => out.duty = <<0, 0>>
       /\ out.en = told.on /\ out.locks = IF told.on THEN 1 ELSE 0
  /\ kind = "servo" =>
       /\ out.en = told.on /\ out.locks = IF told.on THEN 1 ELSE 0
       /\ s.max_angle - s.min_angle >= UNIT /\ told.on =>
            /\ \/ out.duty[1] \in s.min_pulse..s.max_pulse
               \/ out.duty[1] \in s.max_pulse..s.min_pulse
            /\ s.angle + s.offset \in s.min_angle..s.max_angle
  /\ kind = "buzzer" => out.locks = (IF out.en THEN 1 ELSE 0) /\ (out.en => s.period > 0)
  /\ kind = "relay" => (out.pin = 1) = (told.on # s.active_lo) /\ (out.led = 1) = (told.on # s.led_lo)
  /\ kind = "bulb" =>
       /\ out.en = told.on
       /\ ~ (told.on /\ s.dimmable) => (out.pin = 1) = (told.on # s.active_lo)
       /\ told.on /\ s.dimmable =>
            LET shown == IF s.active_lo THEN MAXV - out.duty[1] ELSE out.duty[1] IN
            shown * DIM <= s.intensity /\ s.intensity < (shown + 1) * DIM
  /\ kind = "psu" =>
       /\ (out.pin = 1) = (told.on # s.active_lo)
       /\ told.on => out.duty[1] = s.voltage

\* What was asked for is neither repeated nor stuck, and dropped only for want
\* of room: the vibrations played and to be played are the last command's, the
\* mouse has moved or will move as far as it was told to and the host knows its
\* buttons, the keys that stay down are the ones held, except that a key sent
\* while all places are taken drops the one in the first place, held or not;
\* and a pin's change is measured against what was told.
CommandsKept ==
  /\ kind = "vibration" => out.played \o Plays(Left) = told.steps
  /\ kind = "mouse" => out.moved + s.axis.target = told.sum /\ out.en = told.on
  /\ kind = "keyboard" =>
       /\ out.mods # 0 => out.keys # <<0, 0>>
       /\ {s.keycode[i] : i \in {j \in Codes : s.keycode[j] # 0 /\ s.steps_left[j] = 0}} =
            told.held \ told.lost
  /\ kind = "joystick" => out.keys = s.prev_r
  /\ kind = "gpio" => s.prev = told.values /\ out.keys = s.mode
=============================================================================
