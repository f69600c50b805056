------------------------------ MODULE JdInputs -------------------------------
(***************************************************************************)
(* The services that watch something and send events about it              *)
(* (services/button.c, switch.c, motion.c, magneticfieldlevel.c,           *)
(* gamepad.c, multicaptouch.c, rotaryencoder.c, analogsensor.c, flex.c and *)
(* accelerometer.c).  The world changes as it likes; each service samples  *)
(* it from the main loop, at its period or later, and keeps what it needs  *)
(* to tell a change from noise.  A behaviour is about one of them.         *)
(* Readings are reduced to the values the thresholds tell apart.           *)
(***************************************************************************)
EXTENDS Integers, Sequences, FiniteSets

LOCAL INSTANCE SequencesExt

CONSTANTS Kinds,    \* the services among which a behaviour has one
          DAMPING,  \* accelerometer: samples before a posture counts
          COUNT,    \* accelerometer: zero crossings that make a shake
          DECAY,    \* accelerometer: samples after which a crossing is forgotten
          RTX,      \* accelerometer: samples between two shakes
          IMPULSE,  \* accelerometer: weak samples after which a force is told again
          SWIPE,    \* multicaptouch: the longest time between two pads of a swipe
          MaxTime   \* bound: how long a behaviour of the buttons is

VARIABLES kind,  \* the service
          world, \* what it watches
          st,    \* its state
          time,  \* in ticks of half a second for the button
          seen   \* what its clients have been told, and what really happened

vars == <<kind, world, st, time, seen>>

PADS == 3
Pads == 1..PADS

-----------------------------------------------------------------------------
(* Buttons, switches and detectors: what is sampled, what is remembered,   *)
(* and the events one sample sends.                                        *)

Sampled(s, ev) == [s |-> s, ev |-> ev]
Edge(changed, value) == IF changed THEN <<<<"edge", value>>>> ELSE <<>>

\* DOWN, then HOLD every half second, then UP.
button_update(s, w) ==
  LET edge == w # s.prev
      t == IF edge /\ w = 1 THEN [s EXCEPT !.prev = w, !.press_time = time, !.next_hold = 1]
           ELSE [s EXCEPT !.prev = w]
      hold == w = 1 /\ time - t.press_time >= t.next_hold
  IN  Sampled(IF hold THEN [t EXCEPT !.next_hold = @ + 1] ELSE t,
              Edge(edge, w) \o (IF hold THEN <<<<"hold", 1>>>> ELSE <<>>))

switch_update(s, w) ==
  Sampled([s EXCEPT !.prev = w], Edge(w # s.prev, w))

motion_update(s, w) ==
  Sampled([s EXCEPT !.prev = w], Edge(w # s.prev, w))

Detected(pole) == IF pole = 0 THEN 0 ELSE 1

\* The field is strong, weak (between the two thresholds of a pole) or none;
\* a pole once detected is kept while the field is weak.  Either pole is told
\* as ACTIVE.
magneticfieldlevel_update(s, w) ==
  LET pole == IF w.level = "strong" \/ (w.level = "weak" /\ s.prev = w.pole)
              THEN w.pole ELSE 0
  IN  Sampled([s EXCEPT !.prev = pole], Edge(pole # s.prev, Detected(pole)))

\* The stick's axis as a pair of buttons, with the same hysteresis.
gamepad_update(s, w) ==
  LET btn == IF w.level = "strong" \/ (w.level = "weak" /\ s.prev = w.pole) THEN w.pole ELSE 0
  IN  Sampled([s EXCEPT !.prev = btn], Edge(btn # s.prev, btn))

-----------------------------------------------------------------------------
(* Touch pads: a pad is pressed while its tick counter, which saturates,   *)
(* is positive.                                                            *)

\* Three pads touched one after the other, each soon after its neighbour.
detect_swipe(s) ==
  LET d(i) == s.start[i] - s.start[i - 1]
      up == Cardinality({i \in Pads \ {1} : d(i) > 0})
      down == Cardinality({i \in Pads \ {1} : d(i) < 0})
  IN  IF \E i \in Pads \ {1} : d(i) > SWIPE \/ d(i) < -SWIPE THEN Sampled(s, <<>>)
      ELSE Sampled([s EXCEPT !.start = [i \in Pads |-> 0]],
                   IF up - down > -2 /\ up - down < 2 THEN <<>>
                   ELSE <<<<"swipe", IF up > down THEN 1 ELSE -1>>>>)

\* A pad touched again within the debounce time keeps its first time.
PadStart(s, i) == IF time - s.start[i] > SWIPE THEN time ELSE s.start[i]

\* Pad i of update(), after the pads before it.
PadUpdate(r, w, i) ==
  LET was == r.s.ticks[i] >= 1
      t == IF w[i] THEN r.s.ticks[i] + 1 ELSE r.s.ticks[i] - 1
      s == [r.s EXCEPT !.ticks[i] = IF t > 2 THEN 2 ELSE IF t < 0 THEN 0 ELSE t]
      down == [s EXCEPT !.start[i] = PadStart(s, i)]
  IN  IF was = (s.ticks[i] >= 1) THEN [r EXCEPT !.s = s]
      ELSE IF was THEN Sampled(s, r.ev \o <<<<"release", i>>>>)
      ELSE Sampled(detect_swipe(down).s,
                   r.ev \o <<<<"touch", i>>>> \o detect_swipe(down).ev)

multicaptouch_update(s, w) ==
  PadUpdate(PadUpdate(PadUpdate(Sampled(s, <<>>), w, 1), w, 2), w, 3)

-----------------------------------------------------------------------------
(* The rotary encoder: two pins, four positions of a Gray code.            *)

\* The code of the shaft at a position: bit 0 is pin0, bit 1 is pin1.
Gray(p) == <<0, 2, 3, 1>>[(p % 4) + 1]

posMap(s) == <<0, 1, -1, 2, -1, 0, -2, 1, 1, -2, 0, -1, 2, -1, 1, 0>>[s + 1]

rotaryencoder_update(s, w) ==
  LET step == posMap(s.code + 4 * Gray(w)) IN
  Sampled([s EXCEPT !.code = Gray(w), !.position = @ + step], <<>>)

-----------------------------------------------------------------------------
(* The analog sensors: power on, wait if the sensor needs it, read, power  *)
(* off.  wait is nextSample - now, power how long the sensor has had its   *)
(* power, delay sampling_delay.                                            *)

PowerOn(s) == [s EXCEPT !.on = TRUE, !.power = 0]

analog_read(s) ==
  [s EXCEPT !.pending = FALSE, !.on = FALSE, !.early = @ \/ ~s.on \/ s.power < s.delay]

analog_update(s) ==
  CASE s.pending -> analog_read(s)
    [] ~s.pending /\ s.delay > 0 -> [PowerOn(s) EXCEPT !.wait = s.delay, !.pending = TRUE]
    [] ~s.pending /\ s.delay = 0 -> analog_read(PowerOn(s))

flex_update(s) == analog_read(PowerOn(s))

-----------------------------------------------------------------------------
(* The accelerometer.  A sample is x, one axis' acceleration (strong to    *)
(* either side, which a shake is made of), the posture the board is in,    *)
(* and the total force: 0 up to 2g, 1 up to 3g, 2 above.  The service      *)
(* keeps the last one it read, all zero before the first.                  *)

Zeros == [x |-> 0, posture |-> "freefall", force |-> 0]

instantaneousPosture(s, w) ==
  LET cross == (w.x < 0 /\ s.x) \/ (w.x > 0 /\ ~s.x)
      a == IF cross THEN [s EXCEPT !.x = ~@] ELSE s
      b == IF cross /\ a.count < COUNT
           THEN [a EXCEPT !.count = @ + 1, !.timer = IF a.count = 0 THEN 0 ELSE @]
           ELSE a
      c == [b EXCEPT !.timer = @ + 1]
  IN  IF b.count = COUNT /\ a.count # COUNT
      THEN [s |-> [b EXCEPT !.shaken = TRUE, !.timer = 0], g |-> "shake"]
      ELSE [s |-> CASE b.count = 0 -> b
                    [] b.count > 0 /\ b.shaken /\ c.timer >= RTX ->
                         [b EXCEPT !.shaken = FALSE, !.timer = 0, !.count = 0]
                    [] b.count > 0 /\ ~b.shaken /\ c.timer >= DECAY ->
                         [b EXCEPT !.timer = 0, !.count = @ - 1]
                    [] OTHER -> c,
            g |-> w.posture]

\* Mutant: the counter of equal samples is not started again.
SigmaKept(s, g) == IF g = s.current /\ s.sigma < DAMPING THEN s.sigma + 1 ELSE s.sigma

\* How many samples in a row have shown the current posture.
Sigma(s, g) ==
  IF g # s.current THEN 0 ELSE IF s.sigma < DAMPING THEN s.sigma + 1 ELSE s.sigma

\* A force event is sent once, until the force has been weak for a while.
emit_g_event(s, w) ==
  LET new == 1..w.force \ s.g_events
      sigma == IF w.force > 0 THEN 0 ELSE s.impulseSigma
  IN  Sampled([s EXCEPT !.impulseSigma = IF sigma < IMPULSE THEN sigma + 1 ELSE sigma,
                        !.g_events = IF sigma < IMPULSE THEN @ \cup new ELSE {}],
              SetToSeq({<<"force", f>> : f \in new}))

process_events(s0, w) ==
  LET e == emit_g_event(s0, w)
      p == instantaneousPosture(e.s, w)
      t == [p.s EXCEPT !.current = p.g, !.sigma = Sigma(p.s, p.g)]
      settled == t.current # t.last /\ t.sigma >= DAMPING
  IN  IF p.g = "shake" THEN Sampled(p.s, e.ev \o <<<<"shake", 1>>>>)
      ELSE Sampled(IF settled THEN [t EXCEPT !.last = t.current] ELSE t,
                   e.ev \o IF settled /\ t.current # "none" THEN <<<<"posture", t.current>>>> ELSE <<>>)

\* A sensor that is asked for is initialised and read; events come from the last
\* reading in any case.
accelerometer_process(s, w) ==
  LET v == IF s.got_query THEN w ELSE s.sample IN
  process_events([s EXCEPT !.sample = v], v)

-----------------------------------------------------------------------------
(* Behaviours.                                                             *)

Update(s, w) ==
  CASE kind = "button" -> button_update(s, w)
    [] kind = "switch" -> switch_update(s, w)
    [] kind = "motion" -> motion_update(s, w)
    [] kind = "magnetic" -> magneticfieldlevel_update(s, w)
    [] kind = "gamepad" -> gamepad_update(s, w)
    [] kind = "captouch" -> multicaptouch_update(s, w)
    [] kind = "rotary" -> rotaryencoder_update(s, w)
    [] kind = "accel" -> accelerometer_process(s, w)

Worlds ==
  CASE kind \in {"button", "switch", "motion"} -> {0, 1}
    [] kind \in {"magnetic", "gamepad"} ->
         [level : {"none", "weak", "strong"}, pole : {-1, 1}]
    [] kind = "captouch" -> [Pads -> BOOLEAN]
    [] kind = "rotary" -> -3..3
    [] kind = "accel" -> [x : {-1, 0, 1}, posture : {"none", "left"}, force : 0..2]
                           \cup {Zeros}
    [] kind \in {"analog", "flex"} -> {0}

\* How the world may change between two samples: a shaft turns by at most one
\* position, the rest as it likes.
Moves(w) == IF kind = "rotary" THEN {v \in Worlds : v - w \in -1..1} ELSE Worlds

\* The states the init functions leave.
Fresh ==
  CASE kind = "button" -> [prev |-> 0, press_time |-> 0, next_hold |-> 0]
    [] kind \in {"switch", "motion", "magnetic", "gamepad"} -> [prev |-> 0]
    [] kind = "captouch" -> [ticks |-> [i \in Pads |-> 0], start |-> [i \in Pads |-> 0]]
    [] kind = "rotary" -> [code |-> 0, position |-> 0]
    [] kind = "accel" -> [x |-> FALSE, count |-> 0, timer |-> 0, shaken |-> FALSE,
                          current |-> "none", last |-> "none", sigma |-> 0,
                          impulseSigma |-> 0, g_events |-> {}, sample |-> Zeros,
                          got_query |-> FALSE]
    [] kind \in {"analog", "flex"} ->
         [wait |-> 0, pending |-> FALSE, on |-> FALSE, power |-> 0, early |-> FALSE, delay |-> 0,
          got_query |-> FALSE, jd_inited |-> FALSE]

\* told: the last edge event; again: an edge event that repeats it, other than
\* for a magnetic field that is reversed between two samples; holds: HOLD
\* events since DOWN; origin: the shaft's position when the encoder was started;
\* same and quiet: samples since the posture changed, and since a shake was
\* sent; calm and forces: samples since a strong force, and the force events
\* sent until then; touched: when each pad was touched lately; wrong: an event
\* that what happened does not justify.
SeenInit(w) ==
  [told |-> 0, again |-> FALSE, holds |-> 0, origin |-> IF kind = "rotary" THEN w ELSE 0, same |-> 0,
   quiet |-> RTX, posture |-> "none", calm |-> 0, forces |-> {}, touched |-> [i \in Pads |-> {}], wrong |-> FALSE]

Init ==
  /\ kind \in Kinds
  /\ world \in Worlds
  /\ time = SWIPE + 1
  /\ seen = SeenInit(world)
  /\ \E d \in {0, 2} :
       st = CASE kind = "rotary" -> [rotaryencoder_update(Fresh, world).s EXCEPT !.position = 0]
              [] kind = "analog" -> [Fresh EXCEPT !.delay = d]
              [] OTHER -> Fresh

\* The events of one sample, as the clients see them.
EdgeSeen(s, ev) ==
  LET edges == SelectSeq(ev, LAMBDA e : e[1] = "edge")
      reversed == kind = "magnetic" /\ s.prev # 0 /\ s.prev = -st.prev
  IN
  [seen EXCEPT !.told = IF edges = <<>> THEN @ ELSE Head(edges)[2],
               !.again = @ \/ (edges # <<>> /\ (Head(edges)[2] = seen.told <=> ~reversed)),
               !.holds = (IF edges = <<>> THEN @ ELSE 0) + Len(ev) - Len(edges)]

\* The touches and swipes of one sample, in the order they are sent.
PadSeen(s, e) ==
  CASE e[1] = "touch" -> [s EXCEPT !.touched[e[2]] = {t \in @ : time - t <= 2 * SWIPE} \cup {time}]
    [] e[1] = "swipe" ->
         LET to == IF e[2] = 1 THEN PADS ELSE 1 IN
         [s EXCEPT !.wrong = @ \/ ~ \E t \in s.touched[PADS + 1 - to], v \in s.touched[to] :
                                      \E u \in s.touched[2] : t < u /\ u < v]
    [] OTHER -> s

PadsSeen(ev) == FoldLeft(PadSeen, seen, ev)

\* w is the sample the service goes by; a service that nobody asked for, or
\* that was put to sleep, goes by an old one.
AccelSeen(w, ev) ==
  LET shook == \E i \in DOMAIN ev : ev[i][1] = "shake"
      settled == \E i \in DOMAIN ev : ev[i][1] = "posture"
      told == {ev[i][2] : i \in {j \in DOMAIN ev : ev[j][1] = "force"}}
      before == IF seen.calm >= IMPULSE THEN {} ELSE seen.forces
      same == IF shook THEN seen.same
              ELSE IF w.posture # seen.posture THEN 0
              ELSE IF seen.same < DAMPING THEN seen.same + 1 ELSE seen.same
  IN  [seen EXCEPT !.same = same, !.posture = IF shook THEN @ ELSE w.posture,
                   !.quiet = IF shook THEN 0 ELSE IF @ < RTX THEN @ + 1 ELSE @,
                   !.wrong = \/ @
                             \/ shook /\ seen.quiet < RTX
                             \/ settled /\ same < DAMPING
                             \/ ~st.got_query /\ (shook \/ told # {})
                             \/ ~st.got_query /\ settled /\ <<"posture", st.sample.posture>> \notin Range(ev)
                             \/ told \cap before # {} \/ ~(1..w.force \subseteq told \cup before),
                   !.forces = before \cup told,
                   !.calm = IF w.force > 0 THEN 0 ELSE IF @ < IMPULSE THEN @ + 1 ELSE @]

\* How long after the last sample the next one may come: a button's samples are
\* closer than its half seconds, a touch pad's are the unit of its time.
Later ==
  CASE kind = "button" -> {0, 1} [] kind = "captouch" -> {1, 2} [] OTHER -> {0}

\* One sample of what the world has become.
Sample ==
  \E w \in Moves(world) :
    LET r == Update(st, w) IN
    /\ kind \notin {"analog", "flex"}
    /\ st' = r.s
    /\ world' = w
    /\ seen' = CASE kind = "captouch" -> PadsSeen(r.ev)
                 [] kind = "accel" -> AccelSeen(r.s.sample, r.ev)
                 [] OTHER -> EdgeSeen(r.s, r.ev)
    /\ \E d \in Later : time + d <= MaxTime /\ time' = time + d
    /\ UNCHANGED kind

\* The service's own update function.
UpdateOf(x) == IF kind = "analog" THEN analog_update(x) ELSE flex_update(x)

\* A sample when the service is first asked for one, and when the period is over.
SampleWhenDue ==
  LET a == IF st.got_query /\ ~st.jd_inited THEN UpdateOf([st EXCEPT !.jd_inited = TRUE]) ELSE st
      b == [a EXCEPT !.wait = IF @ > 0 THEN @ ELSE IF @ + 3 > 0 THEN @ + 3 ELSE 3]
  IN  /\ st' = IF a.wait <= 0 /\ b.jd_inited THEN UpdateOf(b) ELSE b
      /\ UNCHANGED <<kind, world, time, seen>>

analog_process == kind = "analog" /\ SampleWhenDue

flex_process == kind = "flex" /\ SampleWhenDue

\* A client reads or streams: sensor_handle_packet.
Query ==
  /\ kind \in {"analog", "flex", "accel"}
  /\ st' = [st EXCEPT !.got_query = TRUE]
  /\ UNCHANGED <<kind, world, time, seen>>

\* A client puts the accelerometer to sleep: the other services have no sleep
\* function.
Asleep ==
  /\ kind = "accel"
  /\ st' = [st EXCEPT !.got_query = FALSE]
  /\ UNCHANGED <<kind, world, time, seen>>

\* Time passes for the analog sensors, which measure it by distances.
Tick ==
  /\ kind \in {"analog", "flex"}
  /\ st' = [st EXCEPT !.wait = IF @ > -3 THEN @ - 1 ELSE @,
                      !.power = IF st.on /\ @ < 2 THEN @ + 1 ELSE @]
  /\ UNCHANGED <<kind, world, time, seen>>

Next == Sample \/ analog_process \/ flex_process \/ Query \/ Asleep \/ Tick

-----------------------------------------------------------------------------
(* Properties.                                                             *)

\* The edge events of a button, switch, motion or gamepad service alternate,
\* the last one says what the reading says, and HOLD comes only while the
\* button is down and not more often than every half second.  So do those of a
\* magnetic field, but for one that is reversed between two samples: then, and
\* only then, ACTIVE is sent twice in a row.
EdgesAlternate ==
  kind \in {"button", "switch", "motion", "magnetic", "gamepad"} =>
    /\ ~seen.again
    /\ seen.told = IF kind = "magnetic" THEN Detected(st.prev) ELSE st.prev
    /\ kind = "button" => seen.holds <= IF st.prev = 1 THEN time - st.press_time ELSE MaxTime

\* The encoder counts every position the shaft passed, whatever position and
\* pin levels it was started with.
EncoderTracks == kind = "rotary" => st.position = world - seen.origin

\* No shake, posture, force or swipe event without the samples it stands for:
\* a posture has lasted, shakes are spaced, a force is told once until it has
\* been weak for a while, the pads of a swipe were touched in its direction.
\* An accelerometer that nobody reads still goes by its last sample: it sends
\* no shake or force, but it does send the posture of that sample, which before
\* the first reading is FREEFALL, see the README.  An analog sensor is read only
\* after it had its power for the sampling delay, and has it only until then.
GesturesJustified ==
  ~seen.wrong /\ (kind \in {"analog", "flex"} => ~st.early /\ st.on = st.pending)
=============================================================================
