------------------------------ MODULE JdSensors ------------------------------
(***************************************************************************)
(* The sensor framework (services/jd_sensor.c, services/jd_env.c and the   *)
(* services built from nothing else) over the sensor drivers of drivers/.  *)
(* One chip serves one or more services, all run from the main loop: a     *)
(* client's query makes a service initialise the driver, its process       *)
(* callback runs the driver's state machine, and intensity 0 puts the chip *)
(* to sleep.  The device may restart at any time; the chip does not.       *)
(*                                                                         *)
(* Values, calibration and error tables are left out.  Time is kept as     *)
(* distances: c.wait is nextsample - now and c.left what remains of the    *)
(* chip's current job, both in ticks of about 10ms.  What the scd40 waits  *)
(* for in its init and process functions, with other packets handled in    *)
(* between, is part of their step.                                         *)
(***************************************************************************)
EXTENDS Integers, Sequences, FiniteSets

CONSTANT Drivers  \* the drivers among which a behaviour has one

VARIABLES driver,   \* the driver of the chip
          srv,      \* the services that use it
          c,        \* the driver's static state and the chip
          told      \* the status each service last told its clients

vars == <<driver, srv, c, told>>

SHORT == 2  \* the delay between a command and its read
LONG == 3   \* SAMPLING_MS

\* The lists jd_scan_i2c walks: which services a chip found on the bus gets.
i2c_lists ==
  [accel |-> {"lsm6ds", "kxtj3", "kx023"}, gyro |-> {"lsm6ds"},
   temp |-> {"dps310", "lps33hwtr", "mpl3115a2", "scd40", "sht30", "shtc3", "th02"},
   pressure |-> {"dps310", "lps33hwtr", "mpl3115a2"},
   humidity |-> {"scd40", "sht30", "shtc3", "th02"}, co2 |-> {"scd40", "sgp30"},
   tvoc |-> {"sgp30"}, uvi |-> {"ltr390uv"}, illum |-> {"ltr390uv"}]

\* The drivers that a board's own code hands to the service's init function.
board_lists ==
  [accel |-> {"qma7981"}, temp |-> {"cps122", "ds18b20", "max31855", "max6675"},
   pressure |-> {"cps122"}, tvoc |-> {"sgpc3"}, ethanol |-> {"sgpc3"},
   color |-> {"color"}]

jd_scan_all(d) ==
  {l \in DOMAIN i2c_lists : d \in i2c_lists[l]}
    \union {l \in DOMAIN board_lists : d \in board_lists[l]}

-----------------------------------------------------------------------------
(* What the chips accept.  A command a chip does not accept is not         *)
(* acknowledged, and the drivers panic.                                    *)

Refused(x) == [x EXCEPT !.panic = TRUE]
Enable(x) == [x EXCEPT !.mode = "run", !.left = 0]
Disable(x) == [x EXCEPT !.mode = "off", !.left = 0]

\* A one-shot measurement is commanded; how long it takes depends on the chip.
Measure(x, times) ==
  IF x.mode \in {"off", "busy"} THEN {Refused(x)}
  ELSE {[x EXCEPT !.mode = "busy", !.left = t] : t \in times}

\* The result is read, which needs the measurement to be over.
Fetch(x, mode) == IF x.mode # "done" THEN Refused(x) ELSE [x EXCEPT !.mode = mode]

-----------------------------------------------------------------------------
(* The drivers.  An init, sleep or process gives the set of states it may  *)
(* leave.                                                                  *)

\* Mutant: the next sample is placed a period after the last one, not after now.
jd_should_sample_delayCatchUp(x, period) ==
  [x EXCEPT !.wait = IF @ + period > 0 THEN @ + period ELSE period]

jd_should_sample_delay(x, period) == [x EXCEPT !.wait = period]

jd_should_sample(x, period) ==
  [x EXCEPT !.wait = IF @ + period > 0 THEN @ + period ELSE period]

Start(x, wait) == [x EXCEPT !.inited = 1, !.wait = wait]

sht30_process(x) ==
  LET y == jd_should_sample_delay(x, SHORT) IN
  IF y.step = "idle" THEN Measure([y EXCEPT !.step = "issued"], 1..SHORT)
  ELSE {[Fetch(y, "idle") EXCEPT !.step = "idle", !.wait = LONG, !.inited = 2]}

\* The chip sleeps between measurements.
wake(x) == IF x.mode = "off" THEN [x EXCEPT !.mode = "idle"] ELSE x

shtc3_process(x) ==
  LET y == jd_should_sample_delay(x, SHORT) IN
  IF y.step = "idle" THEN Measure(wake([y EXCEPT !.step = "issued"]), 1..SHORT)
  ELSE {[Fetch(y, "off") EXCEPT !.step = "idle", !.wait = LONG, !.inited = 2]}

cps122_process(x) ==
  LET y == jd_should_sample_delay(x, 1) IN
  IF y.step = "idle" THEN Measure([y EXCEPT !.step = "issued"], {1})
  ELSE {[Fetch(y, "idle") EXCEPT !.step = "idle", !.wait = LONG, !.inited = 2]}

ds18b20_process(x) ==
  LET y == jd_should_sample_delay(x, SHORT) IN
  IF y.step = "idle" THEN Measure([y EXCEPT !.step = "issued"], 1..SHORT)
  ELSE {[Fetch(y, "idle") EXCEPT !.step = "idle", !.wait = 1, !.inited = 2]}

\* Some chips say when they are done: the driver asks at every turn.
Poll(x, done) == IF x.mode = "done" THEN done ELSE {x}

mpl3115a2_process(x) ==
  LET y == jd_should_sample_delay(x, 1) IN
  IF y.step = "idle" THEN Measure([y EXCEPT !.step = "issued"], 1..LONG)
  ELSE Poll(y, {[Fetch(y, "idle") EXCEPT !.step = "idle", !.wait = LONG, !.inited = 2]})

th02_process(x) ==
  LET y == jd_should_sample_delay(x, SHORT) IN
  CASE y.step = "idle" -> Measure([y EXCEPT !.step = "temp"], 1..LONG)
    [] y.step = "temp" -> Poll(y, Measure([Fetch(y, "idle") EXCEPT !.step = "hum"], 1..LONG))
    [] y.step = "hum" -> Poll(y, {[Fetch(y, "idle") EXCEPT !.step = "idle", !.wait = LONG,
                                                   !.inited = 2]})

ltr390uv_process(x) ==
  LET y == jd_should_sample_delay(x, 1) IN
  CASE y.step = "idle" -> Measure([wake(y) EXCEPT !.step = "ambient"], 1..LONG)
    [] y.step = "ambient" -> Poll(y, Measure([Fetch(y, "idle") EXCEPT !.step = "uvi"], 1..LONG))
    [] y.step = "uvi" -> Poll(y, {[Fetch(y, "off") EXCEPT !.step = "idle", !.wait = LONG,
                                                   !.inited = 2]})

\* These measure on their own once enabled and are read at any time.
lps33hwtr_process(x) == {[jd_should_sample_delay(x, LONG) EXCEPT !.inited = 2]}

max31855_process(x) == {[jd_should_sample(x, LONG) EXCEPT !.inited = 2]}

max6675_process(x) == {[jd_should_sample(x, LONG) EXCEPT !.inited = 2]}

\* Reads what the chip has, which is nothing new unless its background
\* measurement is on; the pressure needs a temperature first (raw_temp).
dps310_process(x) ==
  LET y == jd_should_sample(x, LONG)
      temp == IF y.mode = "run" THEN {y, [y EXCEPT !.step = "temp"]} ELSE {y}
  IN  temp \union {[t EXCEPT !.inited = 3] : t \in {u \in temp : u.step = "temp" /\ u.mode = "run"}}

\* The two gas sensors.  The first measurement after the start only warms
\* the sgp30 up.  set_temp_humidity has no caller, so the states for humidity
\* compensation are never entered.
SgpMeasure(x) == IF x.mode = "busy" THEN Refused(x) ELSE [x EXCEPT !.mode = "busy", !.left = 1]

sgp30_process(x) ==
  LET y == jd_should_sample_delay(x, SHORT) IN
  IF y.step = "idle" THEN {SgpMeasure([y EXCEPT !.step = "issued", !.cold = y.mode # "run"])}
  ELSE {[Fetch(y, IF y.cold THEN "off" ELSE "run") EXCEPT !.step = "idle",
                                                   !.wait = LONG, !.inited = IF y.inited = 1 THEN 2 ELSE 3]}

sgpc3_process(x) ==
  LET y == jd_should_sample_delay(x, SHORT) IN
  IF y.step = "idle" THEN {SgpMeasure([y EXCEPT !.step = "issued", !.cold = y.mode # "run"])}
  ELSE {[Fetch(y, IF y.cold THEN "off" ELSE "run") EXCEPT !.step = "idle",
                                                   !.wait = LONG, !.inited = 3]}

\* Periodic measurement is started once, and refused when it is on already.
scd40_process(x) ==
  LET y == jd_should_sample_delay(x, LONG) IN
  IF y.inited = 1
  THEN {IF y.mode # "idle" THEN Refused(y) ELSE [Enable(y) EXCEPT !.inited = 2]}
  ELSE {y, [y EXCEPT !.inited = 3]}

-----------------------------------------------------------------------------
(* Init and sleep.                                                         *)

\* An init function does its work once, until something resets "inited".
Once(x, y) == IF x.inited # 0 THEN {x} ELSE {y}

Idle(x) == [x EXCEPT !.mode = "idle", !.left = 0]

\* Chips without a sleep function.  Two drivers leave nextsample as it is.
th02_init(x) == Once(x, Idle(Start(x, x.wait)))

ds18b20_init(x) == Once(x, Idle(Start(x, x.wait)))

sht30_init(x) == Once(x, Idle(Start(x, 0)))

shtc3_init(x) == Once(x, Disable(Start(x, 0)))

cps122_init(x) == Once(x, Idle(Start(x, 0)))

mpl3115a2_init(x) == Once(x, Idle(Start(x, 0)))

ltr390uv_init(x) == Once(x, Disable(Start(x, 0)))

lps33hwtr_init(x) == Once(x, Enable(Start(x, 0)))

max31855_init(x) == Once(x, Enable(Start(x, 0)))

max6675_init(x) == Once(x, Enable(Start(x, 0)))

\* These can be put to sleep.
dps310_init(x) == Once(x, Enable([Start(x, 0) EXCEPT !.step = "idle"]))

dps310_sleep(x) == Disable(x)

sgp30_init(x) == Once(x, Enable(Start(x, SHORT)))

sgpc3_init(x) == Once(x, Enable(Start(x, LONG)))

sgp30_sleep(x) == Disable(x)

\* Stops the chip, in case it measures since before a restart, and waits.
scd40_init(x) == Once(x, Idle(Start(x, 1)))

\* The stop command is sent, and then send_cmd waits, which is not allowed in
\* the handler of a packet, the only caller: the device panics.
scd40_sleep(x) == [Refused(Idle(x)) EXCEPT !.inited = 0]

\* A shared driver sleeps with the last of its services.
ENV_INIT_N(s, x) == x.status # {} /\ x.status \ {s} = {}

\* The accelerometers: enabled by init, written off by sleep.
kx023_init(x) == {Enable(x)}

kxtj3_init(x) == {Enable(x)}

qma7981_init(x) == {Enable(x)}

lsm6ds_init(x) == Once(x, Enable(Start(x, 0)))

lsm6ds_sleep(x) == [Disable(x) EXCEPT !.inited = 0]

glue_color_init(x) == {Enable(x)}

-----------------------------------------------------------------------------
(* The driver tables: the sensor_api_t of the chip.                        *)

Counted == {"dps310", "sgp30", "sgpc3", "scd40"}
Immediate == {"kx023", "kxtj3", "qma7981", "lsm6ds", "color"}
HasSleep == Counted \union Immediate

api_init(s, x) ==
  LET y == [x EXCEPT !.status = @ \union {s}] IN
  CASE driver \in Counted ->
         IF x.status # {} THEN {y}
         ELSE (CASE driver = "dps310" -> dps310_init(y)
                 [] driver = "sgp30" -> sgp30_init(y)
                 [] driver = "sgpc3" -> sgpc3_init(y)
                 [] driver = "scd40" -> scd40_init(y))
    [] driver = "lsm6ds" -> lsm6ds_init(x)
    [] driver = "kx023" -> kx023_init(x)
    [] driver = "kxtj3" -> kxtj3_init(x)
    [] driver = "qma7981" -> qma7981_init(x)
    [] driver = "color" -> glue_color_init(x)
    [] driver = "th02" -> th02_init(x)
    [] driver = "ds18b20" -> ds18b20_init(x)
    [] driver = "sht30" -> sht30_init(x)
    [] driver = "shtc3" -> shtc3_init(x)
    [] driver = "cps122" -> cps122_init(x)
    [] driver = "mpl3115a2" -> mpl3115a2_init(x)
    [] driver = "ltr390uv" -> ltr390uv_init(x)
    [] driver = "lps33hwtr" -> lps33hwtr_init(x)
    [] driver = "max31855" -> max31855_init(x)
    [] driver = "max6675" -> max6675_init(x)

api_sleep(s, x) ==
  LET y == [x EXCEPT !.status = @ \ {s}] IN
  CASE driver \in Counted /\ ~ENV_INIT_N(s, x) -> y
    [] driver = "dps310" -> dps310_sleep(y)
    [] driver \in {"sgp30", "sgpc3"} -> sgp30_sleep(y)
    [] driver = "scd40" -> scd40_sleep(y)
    [] driver = "lsm6ds" -> lsm6ds_sleep(x)
    [] driver \in {"kx023", "kxtj3", "qma7981", "color"} -> Disable(x)

\* NULL until the driver has a first reading; the accelerometers and the
\* color sensor are read on the spot.
api_get_reading(x) ==
  \/ driver \in Immediate
  \/ x.inited >= IF driver \in Counted THEN 3 ELSE 2

api_process(x) ==
  CASE driver \in Immediate \/ x.wait > 0 -> {x}
    [] driver = "sht30" -> sht30_process(x)
    [] driver = "shtc3" -> shtc3_process(x)
    [] driver = "cps122" -> cps122_process(x)
    [] driver = "ds18b20" -> ds18b20_process(x)
    [] driver = "mpl3115a2" -> mpl3115a2_process(x)
    [] driver = "th02" -> th02_process(x)
    [] driver = "ltr390uv" -> ltr390uv_process(x)
    [] driver = "lps33hwtr" -> lps33hwtr_process(x)
    [] driver = "max31855" -> max31855_process(x)
    [] driver = "max6675" -> max6675_process(x)
    [] driver = "dps310" -> dps310_process(x)
    [] driver = "sgp30" -> sgp30_process(x)
    [] driver = "sgpc3" -> sgpc3_process(x)
    [] driver = "scd40" -> scd40_process(x)

-----------------------------------------------------------------------------
(* The framework.                                                          *)

SensorInit == [got_query |-> FALSE, jd_inited |-> FALSE, got_reading |-> FALSE,
               streaming |-> FALSE]

\* "lapsed" is history: what was in use has been put to sleep, see UsedChipRuns.
CtxInit == [inited |-> 0, step |-> "idle", wait |-> 0, status |-> {}, lapsed |-> FALSE]

ChipInit == [mode |-> "off", left |-> 0, cold |-> FALSE, panic |-> FALSE]

\* The scd40 is idle, not off, when it has power.
PoweredUp(d) == [ChipInit EXCEPT !.mode = IF d = "scd40" THEN "idle" ELSE "off"]

Join(ctx, chip) == [f \in DOMAIN CtxInit \union DOMAIN ChipInit |->
                      IF f \in DOMAIN CtxInit THEN ctx[f] ELSE chip[f]]

get_status_code(s) ==
  IF ~s.jd_inited THEN "sleeping" ELSE IF ~s.got_reading THEN "initializing" ELSE "ready"

Init ==
  /\ driver \in Drivers
  /\ srv = [l \in jd_scan_all(driver) |-> SensorInit]
  /\ told = [l \in jd_scan_all(driver) |-> "sleeping"]
  /\ c = Join(CtxInit, PoweredUp(driver))

\* A service and its status event, if its status is sent again.
Became(l, s, sent) ==
  /\ srv' = [srv EXCEPT ![l] = s]
  /\ told' = IF sent THEN [told EXCEPT ![l] = get_status_code(s)] ELSE told
  /\ UNCHANGED driver

\* The drivers whose "inited" outlives the chip's sleep.
StaysInited == {"dps310", "sgp30", "sgpc3"}

\* The first reading a service gets makes it ready.
sensor_get_reading(s, x) ==
  LET first == s.jd_inited /\ api_get_reading(x) /\ ~s.got_reading IN
  [s |-> IF first THEN [s EXCEPT !.got_reading = TRUE] ELSE s, sent |-> first]

sensor_maybe_init(l, s, x) ==
  IF s.got_query /\ ~s.jd_inited
  THEN {[s |-> [s EXCEPT !.jd_inited = TRUE, !.got_reading = api_get_reading(y)],
         x |-> [y EXCEPT !.lapsed = @ /\ driver \in StaysInited], sent |-> TRUE] :
          y \in api_init(l, x)}
  ELSE {[s |-> s, x |-> x, sent |-> FALSE]}

\* Initialise when asked for, run the driver, stream the reading if there is one.
env_sensor_process(l) ==
  \E i \in sensor_maybe_init(l, srv[l], c) :
  \E y \in IF i.s.jd_inited THEN api_process(i.x) ELSE {i.x} :
    LET r == IF i.s.streaming THEN sensor_get_reading(i.s, y)
             ELSE [s |-> i.s, sent |-> FALSE]
    IN  /\ ~c.panic
        /\ c' = y
        /\ Became(l, r.s, i.sent \/ r.sent)

\* Intensity 1, or streaming: the service initialises at its next turn.
sensor_handle_packetOn(l, stream) ==
  /\ ~c.panic
  /\ Became(l, [srv[l] EXCEPT !.got_query = TRUE, !.streaming = @ \/ stream], FALSE)
  /\ UNCHANGED c

\* Intensity 0.
sensor_handle_packetOff(l) ==
  LET s == [srv[l] EXCEPT !.got_query = FALSE, !.streaming = FALSE]
      sleeps == driver \in HasSleep /\ s.jd_inited
  IN  /\ ~c.panic
      /\ c' = IF ~sleeps THEN c
              ELSE [api_sleep(l, c) EXCEPT !.lapsed =
                      @ \/ driver = "lsm6ds" \/ \A m \in DOMAIN srv \ {l} : ~srv[m].jd_inited]
      /\ Became(l, IF sleeps THEN [s EXCEPT !.got_reading = FALSE, !.jd_inited = FALSE]
                   ELSE s, sleeps /\ ~c'.panic)

\* A reading is asked for: it wakes the service, and is sent if there is one.
env_sensor_handle_packet(l) ==
  LET r == sensor_get_reading([srv[l] EXCEPT !.got_query = TRUE], c) IN
  /\ ~c.panic
  /\ Became(l, r.s, r.sent)
  /\ UNCHANGED c

\* The last sample of a stream was sent.
StreamEnds(l) ==
  /\ ~c.panic /\ srv[l].streaming
  /\ Became(l, [srv[l] EXCEPT !.streaming = FALSE], FALSE)
  /\ UNCHANGED c

\* The range register: setting it writes all of the chip's control registers.
\* Before the driver is initialised r_accel is NULL, see the README.
set_range(l) ==
  /\ ~c.panic /\ driver \in {"lsm6ds", "kxtj3"}
  /\ l \in {"accel", "gyro"} /\ srv[l].jd_inited
  /\ c' = [Enable(c) EXCEPT !.lapsed = FALSE]
  /\ UNCHANGED <<driver, srv, told>>

\* Time passes, on the chip as well.  To be late by a whole period or by more
\* is the same to jd_should_sample.
Tick ==
  /\ ~c.panic
  /\ c' = [c EXCEPT !.wait = IF @ > -LONG THEN @ - 1 ELSE @, !.left = IF @ > 0 THEN @ - 1 ELSE 0,
                    !.mode = IF c.left = 1 THEN "done" ELSE @]
  /\ UNCHANGED <<driver, srv, told>>

\* The device restarts, by command, watchdog or panic; the chip finishes what
\* it does.
Restart ==
  /\ c' = Join(CtxInit, [ChipInit EXCEPT !.cold = c.cold, !.mode =
                           IF c.mode = "busy" THEN "done" ELSE c.mode])
  /\ srv' = [l \in DOMAIN srv |-> SensorInit]
  /\ told' = [l \in DOMAIN srv |-> "sleeping"]
  /\ UNCHANGED driver

Next ==
  \/ Tick \/ Restart
  \/ \E l \in DOMAIN srv :
       \/ env_sensor_process(l) \/ env_sensor_handle_packet(l)
       \/ sensor_handle_packetOff(l) \/ StreamEnds(l) \/ set_range(l)
       \/ \E stream \in BOOLEAN : sensor_handle_packetOn(l, stream)

-----------------------------------------------------------------------------
(* Properties.                                                             *)

TypeOK ==
  /\ driver \in Drivers
  /\ c.mode \in {"off", "idle", "busy", "done", "run"}
  /\ c.wait \in -LONG..LONG /\ c.left \in 0..LONG /\ c.inited \in 0..3
  /\ \A l \in DOMAIN srv : srv[l] \in [DOMAIN SensorInit -> BOOLEAN]

InUse == {l \in DOMAIN srv : srv[l].jd_inited}

\* However late and in whatever order the services' process callbacks run,
\* no driver reads a result before the chip has it, or commands a chip that
\* does not accept it, which would make the device panic.  There are two ways
\* to a panic, see the README: the packet that puts the last service of a scd40
\* to sleep always causes one (scd40_sleep waits in the handler), and a gas
\* sensor that is reset by its sleep function, between a command and the read
\* of its result, causes one when it is next in use.
ChipKeepsUp ==
  /\ c.panic => \/ driver = "scd40" /\ InUse = {} /\ c.lapsed
                \/ driver \in {"sgp30", "sgpc3"} /\ c.mode = "off" /\ c.lapsed
  /\ driver = "scd40" /\ c.lapsed => c.panic

Measures(x) == x.mode = "run" \/ (x.mode \in {"busy", "done"} /\ ~x.cold)

\* While a service of a chip that can sleep is in use, the chip measures:
\* another service's sleep does not stop it (ENV_INIT_N), nor does a restart,
\* and a service that wakes up starts it again.  Four drivers do less, and
\* "lapsed" says exactly when: a dps310, sgp30 or sgpc3 whose last service was
\* put to sleep stays off until the device restarts, because init finds it
\* "inited"; a lsm6ds is off once either of its two services was put to sleep,
\* until one is initialised or a range is set.
UsedChipRuns ==
  driver \in HasSleep /\ InUse # {} /\ ~c.panic /\ (driver = "scd40" => c.inited > 1) =>
    (Measures(c) <=> ~c.lapsed)

\* The clients of a service know its status: every change of it is sent, by
\* whichever of the framework's functions made it.
StatusTold == ~c.panic => \A l \in DOMAIN srv : told[l] = get_status_code(srv[l])
=============================================================================
