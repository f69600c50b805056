----------------------------- MODULE JdServices -----------------------------
(***************************************************************************)
(* The main loop of source/jd_services.c with two services that sleep in   *)
(* their process(): a Braille display (services/braille_display.c) and an  *)
(* environment sensor (services/jd_env.c, jd_sensor.c) on the SCD40 driver *)
(* (drivers/scd40.c).  A sleep runs the loop again, nested in process().   *)
(*                                                                         *)
(* Between two sleeps a service's code is one step.  The display has one   *)
(* column per cell; i2c transfers succeed (their failure is JD_PANIC).     *)
(***************************************************************************)
EXTENDS Integers, Sequences, SequencesExt

CONSTANTS
  Cells,       \* number of braille cells, state->length
  Patterns,    \* what a cell may show; 0 is blank
  Intensities  \* values written to the sensor's intensity register

ASSUME ConstantsAssumption == Cells \in Nat \ {0} /\ 0 \in Patterns /\ Intensities \subseteq {0, 1}

CTRL == 0  DISPLAY == 1  SENSOR == 2
NUM_SERVICES == 3
IN_SERV_INIT == 255
IN_SERV_SLEEP == 254

VARIABLES
  loop,     \* the loops under way, the outer one first: [at, serv, got]
  curr_service_process,
  curr_serv, \* the local of jd_services_sleep_us
  panicked,
  (* the display *)
  dots, dirty, enabled,
  column,   \* the cell being set, 0 outside of braile_display_send
  shown,    \* history: what the pins show
  missed,   \* history: was an update dropped while disabled?
  (* the sensor *)
  got_query, jd_inited, got_reading,
  inited,   \* of the driver: 0, 1 (idle), 2 (measuring), 3 (a reading is there)
  todo,     \* commands of the driver that are still to be sent in this process()
  status    \* history: the status code last reported

core == <<loop, curr_service_process, curr_serv, panicked>>
display == <<dots, dirty, enabled, column, shown, missed>>
sensor == <<got_query, jd_inited, got_reading, inited, todo, status>>
vars == <<core, display, sensor>>

Init ==
  /\ loop = <<[at |-> "rx", serv |-> 0, got |-> FALSE]>>
  /\ curr_service_process = 0 /\ curr_serv = 0 /\ panicked = FALSE
  /\ dots = [c \in 1 .. Cells |-> 0] /\ shown = dots
  /\ dirty = FALSE /\ enabled = TRUE /\ column = 0 /\ missed = FALSE
  /\ got_query = FALSE /\ jd_inited = FALSE /\ got_reading = FALSE
  /\ inited = 0 /\ todo = <<>> /\ status = "sleeping"

-----------------------------------------------------------------------------
(* The core *)

Top == Last(loop)
At(p) == ~ panicked /\ Top.at = p
Goto(p) == loop' = [loop EXCEPT ![Len(loop)].at = p]
Processing(i) == At("process") /\ Top.serv = i

\* jd_services_tick as far as the loop over the services: in a sleep only control is processed.
jd_services_tick ==
  /\ At("tick")
  /\ IF curr_service_process # IN_SERV_SLEEP
     THEN /\ loop' = [loop EXCEPT ![Len(loop)] = [@ EXCEPT !.at = "process", !.serv = 1]]
          /\ curr_service_process' = 1
     ELSE Goto("rest") /\ UNCHANGED curr_service_process
  /\ UNCHANGED <<curr_serv, panicked, display, sensor>>

\* Mutant: the loop over the services ends one too early.
ReturnEarly ==
  IF Top.serv + 2 < NUM_SERVICES
  THEN /\ loop' = [loop EXCEPT ![Len(loop)].serv = @ + 1]
       /\ curr_service_process' = Top.serv + 1
       /\ UNCHANGED <<curr_serv, panicked>>
  ELSE Goto("rest") /\ curr_service_process' = 0 /\ UNCHANGED <<curr_serv, panicked>>

\* process() of the current service has returned.
Return ==
  IF Top.serv + 1 < NUM_SERVICES
  THEN /\ loop' = [loop EXCEPT ![Len(loop)].serv = @ + 1]
       /\ curr_service_process' = Top.serv + 1
       /\ UNCHANGED <<curr_serv, panicked>>
  ELSE Goto("rest") /\ curr_service_process' = 0 /\ UNCHANGED <<curr_serv, panicked>>

\* Mutant: the service that slept is not entered as the current one again.
jd_process_everything_coreAsleep ==
  /\ At("rest")
  /\ \/ Goto("rx")
     \/ Len(loop) > 1 /\ ~ Top.got /\ loop' = Front(loop)
  /\ UNCHANGED <<curr_service_process, curr_serv, panicked, display, sensor>>

(***************************************************************************)
(* The rest of the tick, and the end of a turn: the loop goes on until no  *)
(* frame was there; the outer one is then entered again, a nested one      *)
(* unless the time of the sleep is over.                                   *)
(***************************************************************************)
jd_process_everything_core ==
  /\ At("rest")
  /\ \/ Goto("rx") /\ UNCHANGED curr_service_process
     \/ /\ Len(loop) > 1 /\ ~ Top.got
        /\ loop' = Front(loop) /\ curr_service_process' = curr_serv
  /\ UNCHANGED <<curr_serv, panicked, display, sensor>>

jd_services_sleep_us ==
  IF curr_service_process \in {0, IN_SERV_SLEEP}
  THEN panicked' = TRUE /\ UNCHANGED <<loop, curr_service_process, curr_serv>>
  ELSE /\ loop' = Append(loop, [at |-> "rx", serv |-> 0, got |-> FALSE])
       /\ curr_serv' = curr_service_process
       /\ curr_service_process' = IN_SERV_SLEEP
       /\ UNCHANGED panicked

\* jd_rx_get_frame finds nothing, or a frame whose packet a handler below takes.
NoFrame ==
  /\ At("rx")
  /\ loop' = [loop EXCEPT ![Len(loop)] = [@ EXCEPT !.at = "tick", !.got = FALSE]]
  /\ UNCHANGED <<curr_service_process, curr_serv, panicked, display, sensor>>

Packet == At("rx")
Handled ==
  /\ loop' = [loop EXCEPT ![Len(loop)] = [@ EXCEPT !.at = "tick", !.got = TRUE]]
  /\ UNCHANGED <<curr_service_process, curr_serv, panicked>>

-----------------------------------------------------------------------------
(* services/braille_display.c *)

\* handle_set
SetPatterns ==
  /\ Packet /\ Handled
  /\ dots' \in [1 .. Cells -> Patterns] /\ dirty' = TRUE
  /\ UNCHANGED <<enabled, column, shown, missed, sensor>>

SetEnabled ==
  /\ Packet /\ Handled
  /\ enabled' = ~ enabled
  /\ UNCHANGED <<dots, dirty, column, shown, missed, sensor>>

\* Mutant: the flag is cleared at the end of the update.
braile_display_processLate ==
  /\ Processing(DISPLAY)
  /\ UNCHANGED <<dots, enabled, sensor>>
  /\ IF column = 0
     THEN IF dirty /\ enabled
          THEN /\ column' = 1 /\ shown' = [shown EXCEPT ![1] = dots[1]]
               /\ missed' = FALSE /\ dirty' = dirty /\ jd_services_sleep_us
          ELSE /\ missed' = (missed \/ dirty) /\ dirty' = FALSE
               /\ UNCHANGED <<column, shown>> /\ Return
     ELSE /\ missed' = missed
          /\ IF column < Cells
             THEN /\ column' = column + 1 /\ shown' = [shown EXCEPT ![column + 1] = dots[column + 1]]
                  /\ dirty' = dirty /\ jd_services_sleep_us
             ELSE column' = 0 /\ dirty' = FALSE /\ UNCHANGED shown /\ Return

\* braile_display_process; a cell is set from dots as they are then, and then it sleeps.
braile_display_process ==
  /\ Processing(DISPLAY)
  /\ UNCHANGED <<dots, enabled, sensor>>
  /\ IF column = 0
     THEN /\ dirty' = FALSE
          /\ IF dirty /\ enabled
             THEN /\ column' = 1 /\ shown' = [shown EXCEPT ![1] = dots[1]]
                  /\ missed' = FALSE /\ jd_services_sleep_us
             ELSE missed' = (missed \/ dirty) /\ UNCHANGED <<column, shown>> /\ Return
     ELSE /\ UNCHANGED <<dirty, missed>>
          /\ IF column < Cells
             THEN /\ column' = column + 1 /\ shown' = [shown EXCEPT ![column + 1] = dots[column + 1]]
                  /\ jd_services_sleep_us
             ELSE column' = 0 /\ UNCHANGED shown /\ Return

-----------------------------------------------------------------------------
(* jd_sensor.c, jd_env.c and scd40.c *)

get_status_code(in, got) ==
  IF ~ in THEN "sleeping" ELSE IF got THEN "ready" ELSE "initializing"

\* env_sensor_handle_packet on a read: the next process() initializes the sensor.
GetReading ==
  /\ Packet /\ Handled
  /\ got_query' = TRUE
  /\ got_reading' = (got_reading \/ (jd_inited /\ inited = 3))
  /\ status' = get_status_code(jd_inited, got_reading')
  /\ UNCHANGED <<jd_inited, inited, todo, display>>

\* sensor_handle_packet on a write of intensity; scd40_sleep sends a command, and sleeps.
SetIntensity(v) ==
  /\ Packet
  /\ IF v = 1
     THEN got_query' = TRUE /\ Handled /\ UNCHANGED <<jd_inited, got_reading, inited, status>>
     ELSE /\ got_query' = FALSE
          /\ IF jd_inited
             THEN /\ got_reading' = FALSE /\ jd_inited' = FALSE /\ inited' = 0
                  /\ status' = "sleeping" /\ jd_services_sleep_us
             ELSE Handled /\ UNCHANGED <<jd_inited, got_reading, inited, status>>
  /\ UNCHANGED <<todo, display>>

(***************************************************************************)
(* sensor_process.  sensor_maybe_init calls scd40_init, then scd40_process *)
(* follows in the same process(); each command to the chip is followed by  *)
(* a sleep.                                                                *)
(***************************************************************************)
Commands(d) == CASE d = 1 -> <<"start">> [] d >= 2 -> <<"data_ready">> [] d = 0 -> <<>>

sensor_maybe_init ==
  /\ Processing(SENSOR) /\ todo = <<>> /\ got_query /\ ~ jd_inited
  /\ jd_inited' = TRUE /\ got_reading' = FALSE /\ inited' = 1
  /\ status' = "initializing"
  /\ todo' = <<"read_data_ready", "read_serial", "init_done">>
  /\ jd_services_sleep_us
  /\ UNCHANGED <<got_query, display>>

scd40_process ==
  /\ Processing(SENSOR) /\ todo = <<>> /\ (got_query => jd_inited)
  /\ \/ Return /\ UNCHANGED todo           \* not the time for a sample
     \/ jd_inited /\ todo' = Commands(inited) /\ jd_services_sleep_us
  /\ UNCHANGED <<got_query, jd_inited, got_reading, inited, status, display>>

\* The driver goes on after a sleep.
AfterSleep ==
  /\ Processing(SENSOR) /\ todo # <<>>
  /\ LET done == Head(todo) IN
     \/ /\ done \in {"read_data_ready", "read_serial"}
        /\ todo' = Tail(todo) /\ jd_services_sleep_us
        /\ UNCHANGED <<got_reading, inited, status>>
     \/ /\ done = "init_done"
        /\ todo' = <<>> /\ status' = get_status_code(jd_inited, got_reading)
        /\ Return /\ UNCHANGED <<got_reading, inited>>
     \/ /\ done = "start" /\ inited' = 2
        /\ todo' = <<>> /\ Return /\ UNCHANGED <<got_reading, status>>
     \/ /\ done = "data_ready"
        /\ \/ todo' = <<"read">> /\ jd_services_sleep_us
           \/ todo' = <<>> /\ Return
        /\ UNCHANGED <<got_reading, inited, status>>
     \/ /\ done = "read" /\ inited' = 3
        /\ todo' = <<>> /\ Return /\ UNCHANGED <<got_reading, status>>
  /\ UNCHANGED <<got_query, jd_inited, display>>

-----------------------------------------------------------------------------
Next ==
  \/ jd_services_tick \/ jd_process_everything_core \/ NoFrame
  \/ SetPatterns \/ SetEnabled \/ braile_display_process
  \/ GetReading \/ \E v \in Intensities : SetIntensity(v)
  \/ sensor_maybe_init \/ scd40_process \/ AfterSleep

\* The loop goes on, frames do not come forever, a sleep ends, and the time for a sample comes.
Fairness ==
  /\ WF_vars(Next) /\ SF_vars(NoFrame)
  /\ SF_vars(Len(loop) > 1 /\ jd_process_everything_core /\ Len(loop') = 1)
  /\ SF_vars(scd40_process /\ todo' # todo)

Spec == Init /\ [][Next]_vars /\ Fairness

-----------------------------------------------------------------------------
(* Properties *)

(***************************************************************************)
(* A service sleeps only in its process(), as jd_services_sleep_us must be *)
(* used: never in the handler of a packet, and never while another service *)
(* is asleep.                                                              *)
(***************************************************************************)
SleepsOnlyInProcess == ~ panicked

(***************************************************************************)
(* Patterns set in the middle of an update, between two of its sleeps, are *)
(* not lost: when no update is under way or due, the display shows the     *)
(* patterns, unless it was disabled when they were due.                    *)
(***************************************************************************)
DisplayCatchesUp == ~ dirty /\ column = 0 /\ ~ missed => shown = dots

(***************************************************************************)
(* The sensor that was asked for a reading gets ready to give one, however *)
(* its initialization and the updates of the display sleep.                *)
(***************************************************************************)
SensorGetsGoing == got_query ~> inited >= 2

=============================================================================
