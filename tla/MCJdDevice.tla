------------------------------ MODULE MCJdDevice ------------------------------
(***************************************************************************)
(* The parts of a device that share no state, each checked on a small      *)
(* instance of its own: a behaviour chooses one of them and is a behaviour *)
(* of that part.  The variables of a part are v1, v2, ... in the order in  *)
(* which its module declares them; the others stay 0.                      *)
(***************************************************************************)
EXTENDS Integers, Sequences, SequencesExt, TLC

VARIABLES which,
          v1, v2, v3, v4, v5, v6, v7, v8, v9, v10, v11, v12, v13, v14, v15, v16, v17, v18, v19,
          v20, v21, v22, v23

-----------------------------------------------------------------------------
(* Frames and text for the USB bridge, with bytes that need an escape.     *)

UsbFrames == {<<"1", "M", "1">>, <<"S", "2">>}
UsbText == <<"a", "M", "b", "c", "d">>

\* Values of a register that are kept inline, or in a buffer.
RegisterValues == {[size |-> 2, data |-> "s"], [size |-> 6, data |-> "l"], [size |-> 8, data |-> "n"]}

SensorDrivers ==
  {"sht30", "shtc3", "cps122", "ds18b20", "mpl3115a2", "th02", "ltr390uv", "lps33hwtr", "max31855",
   "max6675", "dps310", "sgp30", "sgpc3", "scd40", "kx023", "kxtj3", "qma7981", "lsm6ds", "color"}

InputKinds ==
  {"button", "switch", "motion", "magnetic", "gamepad", "captouch", "rotary", "accel", "analog",
   "flex"}

ActuatorKinds ==
  {"motor", "servo", "buzzer", "vibration", "relay", "bulb", "psu", "mouse", "keyboard", "joystick",
   "gpio"}

\* Commands of a strip, with numbers of one and of two bytes, or left out.
Com(op, a, b, cols) == [op |-> op, a |-> a, b |-> b, cols |-> cols]
Red == <<200, 0, 9>>
Green == <<0, 209, 130>>   \* 209 is the code of a command
Blue == <<1, 2, 255>>

StripCommands ==
  {Com("set", 0, 0, <<Red>>), Com("set", 0, 0, <<Red, Green, Blue>>),
   Com("set", 0, 0, <<Red, Green, Blue, Green>>), Com("fade", 0, 0, <<Red, Green>>),
   Com("fade", 0, 0, <<Red, Green, Blue, Red>>), Com("fade_hsv", 0, 0, <<Green, Blue>>),
   Com("fwd", -1, -1, <<>>), Com("fwd", 130, -1, <<>>), Com("back", 3, -1, <<>>),
   Com("range", 1, 2, <<>>), Com("range", -1, -1, <<>>), Com("range", 2, 200, <<>>),
   Com("range", 9, 0, <<>>), Com("mode", 1, -1, <<>>), Com("mode1", 3, -1, <<>>),
   Com("mode1", 2, -1, <<>>), Com("mode", 7, -1, <<>>), Com("set1", 1, -1, <<Blue>>),
   Com("show", 20, -1, <<>>), Com("show", -1, -1, <<>>)}

\* Keys and images: entries in any order, with any jump table and, of one key, a wrong hash.
Key(i, n) == <<ToString(i), n>>
KeyHash(k) ==
  IF Len(k) = 2 /\ k[2] = "service" THEN (CASE k[1] = "0" -> 1 [] k[1] = "2" -> 5 [] OTHER -> 3)
  ELSE IF Len(k) = 1 THEN 2 ELSE 3
Ent(k, t, s, v) == [key |-> k, hash |-> KeyHash(k), type |-> t, size |-> s, value |-> v]

Img(entries, jump, zeros) ==
  [entries |-> entries, jump |-> jump, total |-> 8, zeros |-> zeros, magic |-> TRUE]

UserEntries ==
  {Ent(Key(0, "service"), "string", 1, 5), Ent(Key(1, "service"), "string", 0, 7),
   Ent(Key(2, "service"), "string", 0, 6), Ent(Key(1, "name"), "u32", 0, 12),
   Ent(Key(3, "service"), "string", 1, 6), Ent(Key(0, "variant"), "i32", 0, 14),
   [Ent(<<"0">>, "blob", 0, 6) EXCEPT !.hash = 4]}

UserImages ==
  {Img(es, jump, {6}) : es \in UNION {[1..n -> UserEntries] : n \in 0..2}, jump \in [1..2 -> 0..2]}

FlashImages ==
  {[Img(<<>>, <<0, 0>>, {}) EXCEPT !.magic = FALSE],
   Img(<<Ent(Key(0, "service"), "string", 1, 5), Ent(Key(0, "variant"), "i32", 0, 14),
         Ent(Key(2, "service"), "string", 0, 6)>>, <<0, 2>>, {6, 7}),
   Img(<<Ent(Key(0, "service"), "string", 1, 5), Ent(Key(1, "service"), "string", 0, 7),
         Ent(Key(2, "service"), "string", 0, 6)>>, <<0, 2>>, {6, 7})}

AskedKeys ==
  {Key(i, n) : i \in 0..3, n \in {"service", "name", "variant"}} \cup {<<"0">>, <<"0", "service", "x">>}

\* Functions that start two services, one, none; and a name that is not known.
StartedBy(e) == CASE e.value = 5 -> 2 [] e.value = 6 -> 1 [] e.value = 7 -> 0 [] OTHER -> -1

\* Calls of the utilities.
UpTo(S, n) == UNION {[1..i -> S] : i \in 0..n}
NonEmpty(S, n) == UpTo(S, n) \ {<<>>}
NumberFormats ==
  {[signed |-> s, bits |-> b, shift |-> h, wide |-> b > 4] : s \in BOOLEAN, b \in {4, 6}, h \in {0, 1, 3}}

UtilCalls ==
  [fn : {"crc16", "crc7"}, data : UpTo({0, 1, 16, 127, 128, 165, 255}, 3)]
  \cup [fn : {"sprintf"}, size : 0..6, pieces : NonEmpty({<<>>, <<1>>, <<2, 3>>, <<4, 5, 6>>}, 3)]
  \cup [fn : {"sprintf_a"}, pieces : NonEmpty({<<>>, <<1>>, <<2, 3>>}, 3)]
  \cup [fn : {"itoa"}, n : -128..127]
  \cup [fn : {"from_hex"}, src : UpTo({0, 9, 15, 16}, 5)]
  \cup [fn : {"urlencode"}, src : UpTo({7, 200}, 3)]
  \cup [fn : {"sample"}, start : {0, 100, 120, 126, 250, 255}, period : {3, 20},
        gaps : UpTo({0, 1, 3, 5, 20, 50}, 4)]
  \cup [fn : {"around"}, n : {0, 1, 2, 3, 100, 150, 512, 1023, 1000000, 2^30}]
  \cup [fn : {"concat"}, pieces : NonEmpty({<<>>, <<1>>, <<2, 3>>}, 3)]
  \cup [fn : {"double"}, n : {1, 5, 10, 200, 314, 12345, 10001, 99994, 99995, 99999, 999999999}, e : -14..24,
        digits : {1, 5, 7, 20}]
  \cup [fn : {"error"}, n : -12..70, table : {<<<<-10, 5>>, <<0, 3>>, <<25, 3>>, <<60, 12>>>>}]
  \cup [fn : {"humidity"}, n : {512 * k : k \in -60..110}, percent : {0, 1, 50, 100}]
  \cup [fn : {"numfmt"}, n : -300..300, fmt : NumberFormats]

\* Register tables: every three types in a row (no table of the services has bytes right
\* behind bits), and one with more bits than a byte holds and a read-only register.
Reg(tp, size, code) == [tp |-> tp, size |-> size, code |-> code]
RegTypes ==
  {Reg("uint", 1, "rw"), Reg("int", 2, "rw"), Reg("uint", 4, "rw"), Reg("bit", 1, "rw"),
   Reg("bytes", 3, "rw"), Reg("opt", 2, "rw")}

RegisterTables ==
  [1..3 -> RegTypes]
  \cup {[i \in 1..11 |-> IF i <= 9 THEN Reg("bit", 1, "rw")
                         ELSE IF i = 10 THEN Reg("uint", 2, "ro") ELSE Reg("int", 1, "rw")]}

WrittenData == {<<0>>, <<1>>, <<128>>, <<5, 200>>, <<1, 2, 3, 4, 9>>}

\* Frames of one or two packets, to this device, to another, to a class of services.
P(idx, what) == [idx |-> idx, what |-> what]
DispatchFrames ==
  [cmd : {TRUE}, to : {"self", "other", "a"},
   pkts : {<<P(1, "variant"), P(2, "other")>>, <<P(2, "name"), P(0, "other"), P(1, "other")>>}]
  \cup [cmd : {FALSE}, to : {"other"},
        pkts : {<<P(0, "announce")>>, <<P(1, "other"), P(0, "announce")>>, <<P(1, "other")>>}]

\* Cards with log files in one piece or several, too short, long or missing, another
\* file, and the header of some log, right or not, where one may look for it.
LogHeader(version, spb, num) ==
  [kind |-> "header", version |-> version, spb |-> spb, num |-> num, magic |-> 1]
LogCards ==
  {c \in [files : [1..2 -> {<<>>, <<0, 1>>, <<4, 6>>, <<3>>, <<5, 6, 7>>}],
          alien : {<<2>>, <<1, 3, 5, 7>>}, at : {0, 6, 10},
          header : {[kind |-> "blank"], LogHeader(4, 1, 4), LogHeader(5, 1, 4), LogHeader(5, 3, 1),
                    LogHeader(5, 2, 3)}] :
     /\ c.files[1] # <<>> => c.files[1] # c.files[2]
     /\ c.alien # <<2>> => \A i \in 1..2 : c.files[i] \in {<<>>, <<4, 6>>}
     /\ {c.files[1], c.files[2]} # {<<4, 6>>, <<5, 6, 7>>}
     /\ c.header.kind = "blank" => c.at = 0
     /\ ~ (c.alien # <<2>> /\ c.at \in {6, 10})}

\* Keys of no, one, two and three bytes, with a value, an empty one or none.
SettingsPayloads ==
  {<<>>, <<1>>, <<1, 0, 2>>, <<1, 2>>, <<1, 2, 0, 3>>, <<1, 2, 1>>, <<1, 2, 1, 0, 3>>, <<0, 4>>}

-----------------------------------------------------------------------------
(* The parts.                                                              *)

Power == INSTANCE JdPower WITH
  Providers <- {1, 2}, Watchdog <- {2}, ShutdownIn <- {1, 3}, ReEnableIn <- {4}, SwitchIn <- {5},
  OverloadIn <- {3}, MaxEvents <- 2, allowed <- v1, power_status <- v2, prev_power_status <- v3,
  power_on_complete <- v4, next_shutdown <- v5, power_switch_time <- v6, re_enable <- v7, rawFrame
  <- v8, en <- v9, det <- v10, received <- v11, processed <- v12, shorted <- v13, events <- v14,
  revoked <- v15, dark <- v16, both <- v17

Usb == INSTANCE JdUsb WITH
  Frames <- UsbFrames, Text <- UsbText, CHUNK <- 5, SERIAL <- 2, QUEUE <- 2, RXMAX <- 4, LOG <- 4,
  MaxFrames <- 3, MaxLost <- 1, usb_queue <- v1, usb_frame_ptr <- v2, usb_frame_gap <- v3,
  usb_panic_mode <- v4, usb_fwd_en <- v5, serial_buf <- v6, dst <- v7, pulling <- v8, usb_rx_buf
  <- v9, usb_rx_state <- v10, usb_rx_was_magic <- v11, log <- v12, log_ptr <- v13, dmesg_ptr <-
  v14, line <- v15, accepted <- v16, dropped <- v17, printed <- v18, lost <- v19, hit <- v20, gaps
  <- v21, got <- v22, serial <- v23

Register == INSTANCE JdRegister WITH
  Regs <- {1, 2, 3}, Missing <- {3}, Values <- RegisterValues, MAX_INLINE <- 4, Buffers <- 1..5,
  MaxChanges <- 2, queries <- v1, heap <- v2, lost_buffers <- v3, remote <- v4, requests <- v5,
  answers <- v6, told <- v7, refused <- v8, changes <- v9

Frame == INSTANCE JdFrame WITH
  PAYLOAD <- 24, Sizes <- {0, 1, 4, 5}, Bytes <- {3, 7}, MaxSent <- 5, data <- v1, size <- v2,
  pushed <- v3, sent <- v4, rx <- v5, handled <- v6

Bqueue == INSTANCE JdBqueue WITH
  Sizes <- {2, 4}, Values <- 5, q <- v1, next <- v2, text <- v3, taken <- v4, lent <- v5,
  step <- v6, raced <- v7, fault <- v8

Alloc == INSTANCE JdAlloc WITH
  HEAP <- 4, STACK <- 2, WORD <- 4, Sizes <- {0, 4, 5}, aptr <- v1, ram <- v2, maxStack <- v3,
  deepest <- v4, blocks <- v5, panic <- v6

Settings == INSTANCE JdSettings WITH
  MAX_KEY_SIZE <- 2, Payloads <- SettingsPayloads, MaxRequests <- 3, store <- v1, report <- v2,
  requests <- v3

PanicLog == INSTANCE JdPanicLog WITH
  SIZE <- 10, HDR <- 1, SPARE <- 2, MINLEN <- 2, LONGEST <- 4, BLOCKS <- 6, MaxChars <- 7, MaxEnds
  <- 3, s <- v1, printed <- v2, before <- v3, ends <- v4

LogFile == INSTANCE JdLogFile WITH
  CLUSTERS <- 8, CSIZE <- 2, FILE_SIZE <- 4, Shift <- <<1, 0>>, MAXSPB <- 2, Cards <- LogCards,
  MaxCrashes <- 1, MaxWrites <- 1, files <- v1, alien <- v2, disk <- v3, lf <- v4, magic <- v5,
  born <- v6, count <- v7

Events == INSTANCE JdEvents WITH
  Bases <- {125}, QueueCap <- 2, FIRST_DELAY <- 1, SECOND_DELAY <- 2, MaxEvents <- 4, MaxTime <-
  5, MaxExpiries <- 1, base <- v1, now <- v2, sent <- v3, queue <- v4, device <- v5,
  _event_counter <- v6, delivered <- v7, lastArrived <- v8, burst <- v9, expiries
  <- v10

Sensors == INSTANCE JdSensors WITH
  Drivers <- SensorDrivers, driver <- v1, srv <- v2, c <- v3, told <- v4

Inputs == INSTANCE JdInputs WITH
  Kinds <- InputKinds, DAMPING <- 2, COUNT <- 2, DECAY <- 2, RTX <- 4, IMPULSE <- 2, SWIPE <- 2,
  MaxTime <- 8, kind <- v1, world <- v2, st <- v3, time <- v4, seen <- v5

Lights == INSTANCE JdLights WITH
  Kinds <- {"status", "led", "rgb"}, Targets <- {0, 200}, Speeds <- {0, 100}, PROTECT_FOR <- 2,
  MaxAsked <- 3, kind <- v1, s <- v2, asked <- v3

Display == INSTANCE JdDisplay WITH
  Kinds <- {"display", "strip", "dots"}, Pictures <- {0, 255}, NUMPIXELS <- 64, Levels <- {0,
  15}, Budgets <- {100, 300}, MaxProgram <- 1, kind <- v1, has_pwr <- v2, s <- v3, sent <- v4,
  shown <- v5

Strip == INSTANCE JdStrip WITH
  NUMPIXELS <- 5, Repeats <- {0, 2}, Commands <- StripCommands, MaxCommands <- 3, program <- v1, m
  <- v2, at <- v3, want <- v4

Actuators == INSTANCE JdActuators WITH
  Kinds <- ActuatorKinds, MaxCmds <- 3, kind <- v1, s <- v2, out <- v3, told <- v4

Chips == INSTANCE JdChips WITH
  Kinds <- {"bridge", "daisy", "flash", "adc"}, Channels <- {1, 7, 12}, Chain <- {0, 11, 35},
  CHIPS <- 3, PAGE <- 2, BYTES <- 4, Gains <- {0, 256, 257, 2000, 6144}, Volts <- {0, 7, 33000,
  255999, 700000}, MaxOps <- 3, kind <- v1, drv <- v2, chip <- v3, want <- v4, ops <- v5

Dcfg == INSTANCE JdDcfg WITH
  Hash <- KeyHash, SENTINEL <- 7, BUCKET <- 4, KEYSIZE <- 2, LIMIT <- 100, W <- 16, USER <- 2,
  Images <- UserImages, Flash <- FlashImages, Keys <- AskedKeys, Known <- StartedBy, mfr <- v1,
  user <- v2, idx <- v3, srvs <- v4, idx_map <- v5

Util == INSTANCE JdUtil WITH
  W <- 256, Calls <- UtilCalls, call <- v1, out <- v2

Control == INSTANCE JdControl WITH
  Layouts <- RegisterTables, Data <- WrittenData, PTRSIZE <- 4, SIZE <- 20, W <- 16, Deltas <- {0,
  2, 5, 8, 9, 13}, Floods <- {0, 3}, SLACK <- 2, MaxTime <- 20, MaxSets <- 2, desc <- v1, mem <- v2, vals <-
  v3, ctl <- v4, time <- v5, seen <- v6

Dispatch == INSTANCE JdDispatch WITH
  Classes <- {"a", "b"}, MAX <- 3, Frames <- DispatchFrames, W <- 16, TIMEOUT <- 3, STEADY <- 2,
  COUNTER <- 3, SLACK <- 2, MaxTime <- 17, MaxSent <- 3, build <- v1, services <- v2, phase <- v3,
  rx <- v4, counters <- v5, brain <- v6, time <- v7, seen <- v8

Threads == INSTANCE JdThreads WITH
  Apps <- {"a1", "a2"}, Roles <- {"r1", "r2"}, Devs <- {"d1", "d2"}, NoDev <- "none", Nobody <-
  "nobody", MaxWakes <- 1, pc <- v1, arg <- v2, list <- v3, roles <- v4, service <- v5, alive <-
  v6, owner <- v7, going <- v8, pending <- v9, wakes <- v10, locked <- v11, list_ptr <- v12,
  list_pipe <- v13, panic <- v14, raced <- v15

-----------------------------------------------------------------------------
\* The variables a part with so many variables does not use.
\* They start as 0, and stay.
Zero17 == v18 = 0 /\ v19 = 0 /\ v20 = 0 /\ v21 = 0 /\ v22 = 0 /\ v23 = 0
Zero15 == v16 = 0 /\ v17 = 0 /\ Zero17
Zero10 == v11 = 0 /\ v12 = 0 /\ v13 = 0 /\ v14 = 0 /\ v15 = 0 /\ Zero15
Zero9 == v10 = 0 /\ Zero10
Zero8 == v9 = 0 /\ Zero9
Zero7 == v8 = 0 /\ Zero8
Zero6 == v7 = 0 /\ Zero7
Zero5 == v6 = 0 /\ Zero6
Zero4 == v5 = 0 /\ Zero5
Zero3 == v4 = 0 /\ Zero4
Zero2 == v3 = 0 /\ Zero3
After17 == <<v18, v19, v20, v21, v22, v23>>
After15 == <<v16, v17, After17>>
After10 == <<v11, v12, v13, v14, v15, After15>>
After9 == <<v10, After10>>
After8 == <<v9, After9>>
After7 == <<v8, After8>>
After6 == <<v7, After7>>
After5 == <<v6, After6>>
After4 == <<v5, After5>>
After3 == <<v4, After4>>
After2 == <<v3, After3>>

Init ==
  \/ which = "power" /\ Power!Init /\ Zero17
  \/ which = "usb" /\ Usb!Init
  \/ which = "register" /\ Register!Init /\ Zero9
  \/ which = "frame" /\ Frame!Init /\ Zero6
  \/ which = "bqueue" /\ Bqueue!Init /\ Zero8
  \/ which = "alloc" /\ Alloc!Init /\ Zero6
  \/ which = "settings" /\ Settings!Init /\ Zero3
  \/ which = "paniclog" /\ PanicLog!Init /\ Zero4
  \/ which = "logfile" /\ LogFile!Init /\ Zero7
  \/ which = "events" /\ Events!Init /\ Zero10
  \/ which = "sensors" /\ Sensors!Init /\ Zero4
  \/ which = "inputs" /\ Inputs!Init /\ Zero5
  \/ which = "lights" /\ Lights!Init /\ Zero3
  \/ which = "display" /\ Display!Init /\ Zero5
  \/ which = "strip" /\ Strip!Init /\ Zero4
  \/ which = "actuators" /\ Actuators!Init /\ Zero4
  \/ which = "chips" /\ Chips!Init /\ Zero5
  \/ which = "dcfg" /\ Dcfg!Init /\ Zero5
  \/ which = "util" /\ Util!Init /\ Zero2
  \/ which = "control" /\ Control!Init /\ Zero6
  \/ which = "dispatch" /\ Dispatch!Init /\ Zero8
  \/ which = "threads" /\ Threads!Init /\ Zero15

Parts ==
  \/ which = "power" /\ Power!Next /\ UNCHANGED After17
  \/ which = "usb" /\ Usb!Next
  \/ which = "register" /\ Register!Next /\ UNCHANGED After9
  \/ which = "frame" /\ Frame!Next /\ UNCHANGED After6
  \/ which = "bqueue" /\ Bqueue!Next /\ UNCHANGED After8
  \/ which = "alloc" /\ Alloc!Next /\ UNCHANGED After6
  \/ which = "settings" /\ Settings!Next /\ UNCHANGED After3
  \/ which = "paniclog" /\ PanicLog!Next /\ UNCHANGED After4
  \/ which = "logfile" /\ LogFile!Next /\ UNCHANGED After7
  \/ which = "events" /\ Events!Next /\ UNCHANGED After10
  \/ which = "sensors" /\ Sensors!Next /\ UNCHANGED After4
  \/ which = "inputs" /\ Inputs!Next /\ UNCHANGED After5
  \/ which = "lights" /\ Lights!Next /\ UNCHANGED After3
  \/ which = "display" /\ Display!Next /\ UNCHANGED After5
  \/ which = "strip" /\ Strip!Next /\ UNCHANGED After4
  \/ which = "actuators" /\ Actuators!Next /\ UNCHANGED After4
  \/ which = "chips" /\ Chips!Next /\ UNCHANGED After5
  \/ which = "dcfg" /\ Dcfg!Next /\ UNCHANGED After5
  \/ which = "util" /\ Util!Next /\ UNCHANGED After2
  \/ which = "control" /\ Control!Next /\ UNCHANGED After6
  \/ which = "dispatch" /\ Dispatch!Next /\ UNCHANGED After8
  \/ which = "threads" /\ Threads!Next /\ UNCHANGED After15

Next == Parts /\ UNCHANGED which

vars == <<which, v1, v2, v3, v4, v5, v6, v7, v8, v9, v10, v11, v12, v13, v14, v15, v16, v17, v18,
         v19, v20, v21, v22, v23>>

Spec == Init /\ [][Next]_vars

-----------------------------------------------------------------------------
\* Power (services/power.c): among providers that negotiate, the bus has power as
\* long as one may give it, two do not for long, and each limiter follows the
\* status of its device.
PowerSound == which = "power" => Power!PowerSound

\* USB bridge (source/jd_usb.c): what the other side decodes are the queued frames,
\* each whole, and the console's text, with a mark wherever something was lost.
BridgeDelivers == which = "usb" => Usb!BridgeDelivers

\* Register queries (client/routing.c): the cache, its buffers and what the
\* application was told agree, whatever lengths the values take.
CacheInSync == which = "register" => Register!CacheInSync

\* Frame packing, the byte queue, the panic log, the files of the log store and the
\* allocator (jd_shift_frame, jd_bqueue.c, the panic handler and jd_lstore_init of
\* storage/lstore.c, simple_alloc.c): what is put into a buffer comes out whole and in
\* order, once but for a block of the log that a panic found written and not yet
\* cleared, and unless a push met one of the unmasked assignments of the byte queue;
\* what is written to the card goes into the file it is meant for, and blocks of memory
\* do not overlap.
BuffersKeepOrder ==
  /\ which = "frame" => Frame!EveryPacketHandled
  /\ which = "bqueue" => Bqueue!BytesInOrder
  /\ which = "paniclog" => PanicLog!PanicTextKept
  /\ which = "logfile" => LogFile!FilesApart /\ LogFile!LogsFound
  /\ which = "alloc" => Alloc!BlocksApart

\* Events (event_queue.c, the filter of routing.c): handled at most once and in
\* order, all of them if their last copies arrive and no more of them wait at once
\* than the filter tells apart, and the queue has no holes.
EventsDelivered == which = "events" => Events!EventsDelivered

\* Sensors (services/jd_sensor.c and the drivers): no driver reads a chip that is
\* not ready, but for a scd40 put to sleep and a gas sensor reset before it was read,
\* a chip in use measures unless its driver let it lapse, and clients are told when a
\* sensor is ready.
SensorsSound ==
  which = "sensors" =>
    Sensors!TypeOK /\ Sensors!ChipKeepsUp /\ Sensors!UsedChipRuns /\ Sensors!StatusTold

\* Inputs (buttons, encoder, gestures): events alternate, but for a magnetic field
\* reversed between two samples, and match the samples, which an accelerometer that
\* nobody reads does not renew.
InputsSound ==
  which = "inputs" =>
    Inputs!EdgesAlternate /\ Inputs!EncoderTracks /\ Inputs!GesturesJustified

\* Lights (services/jd_status_light.c, ledsingle.c): they come to what was asked
\* for, the lock on the timer is given back when they are dark, and the pins show
\* the colour that was set.
LightsSound == which = "lights" => Lights!LightsSound

\* Displays and strips (leddisplay.c, dotmatrix.c, ledstrip.c): within the power
\* budget, the last picture is shown, and a strip's program paints what it means.
PicturesRight ==
  /\ which = "display" => Display!WithinBudget /\ Display!PicturesArrive
  /\ which = "strip" => Strip!StripPaints

\* Motors, relays, sounds, HID, half bridges, flash, converter: outputs are what the
\* commands ask for, are not driven both ways but between the two writes that reverse a
\* motor, and no command is repeated or dropped, but for a key when all places are taken.
OutputsRight ==
  /\ which = "actuators" => Actuators!OutputsSafe /\ Actuators!CommandsKept
  /\ which = "chips" => Chips!ChipsObey

\* Configuration (jd_dcfg.c, jd_srvcfg.c): whatever images are offered, keys are
\* found and enumerated, and services are linked to their entries.  Settings over the
\* bus (settings.c): what is got is what was set for that key.
ConfigSound ==
  /\ which = "dcfg" => Dcfg!LookupsRight /\ Dcfg!EnumerationComplete /\ Dcfg!ServicesMapped
  /\ which = "settings" => Settings!GetsWhatWasSet

\* Utilities (jd_util.c, jd_numfmt.c, crc32.c): they compute what they stand for.
Computes == which = "util" => Util!Computes

\* Registers and the control service (service_handle_register, jd_control.c):
\* registers do not disturb each other, but for bytes right behind bits, the watchdog
\* bites when it is due and never before, but for deadlines that the clock shows as 0
\* or that are half the clock away, and a flood has the pings that were asked for.  The
\* table of services (jd_services.c): packets reach the services they are meant for and
\* no others, announcements count every packet, and the brain is shown as it is heard.
ControlSound ==
  /\ which = "control" => Control!RegistersKept /\ Control!ControlKeepsCount
  /\ which = "dispatch" => Dispatch!Dispatched /\ Dispatch!PacketsTold /\ Dispatch!BrainShown

\* Clients on threads (hclient.c, thr_pthread.c, rolemgr.c): no service of a freed
\* device is used, no circle of waits, and the role manager's assertions hold as long
\* as clients are created between two turns of the main loop.
ThreadsSound == which = "threads" => Threads!ThreadsSound
=============================================================================
