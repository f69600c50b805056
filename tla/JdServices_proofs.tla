------------------------- MODULE JdServices_proofs -------------------------
(***************************************************************************)
(* Proofs about the main loop and its sleeping services, for every number  *)
(* of cells and all patterns.                                              *)
(*                                                                         *)
(* That jd_services_sleep_us never panics rests on the variable            *)
(* curr_service_process being, at every moment, what the stack of loops    *)
(* says (CoreInv).  It is proved for buses on which nobody writes the      *)
(* intensity 0: a handler that sleeps is what JD_PANIC is there for.       *)
(*                                                                         *)
(* The second part is about the power service (JdPower), for any number of *)
(* providers on the bus, the third about lights (JdLights), the fourth     *)
(* about the control service (JdControl), the last about announcements     *)
(* (JdDispatch).                                                           *)
(***************************************************************************)
EXTENDS JdServices, SequenceFacts

Record == [at : {"rx", "tick", "process", "rest"}, serv : 0 .. 2, got : BOOLEAN]

\* There is one loop or, while a service sleeps, two.
LoopType == loop \in Seq(Record) /\ Len(loop) \in {1, 2}

\* The outer loop is in a process() exactly when a service is the current one,
\* the nested one never is, and it knows which service to go back to.
CoreInv ==
  /\ Len(loop) = 1 =>
       /\ loop[1].at = "process" => curr_service_process = loop[1].serv /\ loop[1].serv # 0
       /\ loop[1].at # "process" => curr_service_process = 0
  /\ Len(loop) = 2 =>
       /\ curr_service_process = IN_SERV_SLEEP
       /\ loop[1].at = "process" /\ loop[1].serv # 0 /\ curr_serv = loop[1].serv
       /\ loop[2].at # "process"

\* Types of what the display shows.
DisplayType ==
  /\ dots \in [1 .. Cells -> Patterns] /\ shown \in [1 .. Cells -> Patterns]
  /\ column \in 0 .. Cells

\* In the middle of an update the cells before the column show the patterns,
\* unless new ones have come since it began.
DisplayInv ==
  ~ dirty /\ ~ missed => \A c \in 1 .. Cells : column = 0 \/ c <= column => shown[c] = dots[c]

------------------------------------------------------------------------------
(* The display. *)

\* Each step of the display goes on from the cell it has come to.
LEMMA DisplayStep == DisplayType /\ DisplayInv /\ [Next]_vars => DisplayType' /\ DisplayInv'
<1> SUFFICES ASSUME DisplayType, DisplayInv, [Next]_vars
             PROVE  DisplayType' /\ DisplayInv'
  OBVIOUS
<1>1. Cells \in Nat \ {0} /\ 1 \in 1 .. Cells
  BY ConstantsAssumption
<1>2. CASE UNCHANGED display
  BY <1>2 DEF display, DisplayType, DisplayInv
<1>3. CASE SetPatterns
  BY <1>3 DEF SetPatterns, DisplayType, DisplayInv
<1>4. CASE SetEnabled
  BY <1>4 DEF SetEnabled, DisplayType, DisplayInv
<1>5. CASE braile_display_process
  <2>1. CASE column = 0 /\ dirty /\ enabled
    <3>1. /\ dirty' = FALSE /\ column' = 1 /\ shown' = [shown EXCEPT ![1] = dots[1]]
          /\ missed' = FALSE /\ dots' = dots
      BY <1>5, <2>1 DEF braile_display_process
    <3>2. DisplayType'
      BY <1>1, <3>1 DEF DisplayType
    <3>3. \A c \in 1 .. Cells : c <= 1 => c = 1
      BY <1>1
    <3>4. shown'[1] = dots'[1]
      BY <1>1, <3>1 DEF DisplayType
    <3>5. DisplayInv'
      BY <3>1, <3>3, <3>4 DEF DisplayInv
    <3> QED
      BY <3>2, <3>5
  <2>2. CASE column = 0 /\ ~ (dirty /\ enabled)
    <3>1. dirty' = FALSE /\ missed' = (missed \/ dirty) /\ UNCHANGED <<dots, column, shown>>
      BY <1>5, <2>2 DEF braile_display_process
    <3> QED
      BY <3>1 DEF DisplayType, DisplayInv
  <2>3. CASE column # 0 /\ column < Cells
    <3>1. /\ column' = column + 1 /\ shown' = [shown EXCEPT ![column + 1] = dots[column + 1]]
          /\ UNCHANGED <<dots, dirty, missed>>
      BY <1>5, <2>3 DEF braile_display_process
    <3>2. column + 1 \in 1 .. Cells /\ column \in Nat
      BY <1>1, <2>3 DEF DisplayType
    <3>3. DisplayType'
      BY <3>1, <3>2 DEF DisplayType
    <3>4. ASSUME NEW c \in 1 .. Cells, c <= column', ~ dirty, ~ missed
          PROVE  shown'[c] = dots[c]
      <4>1. CASE c = column + 1
        BY <3>1, <4>1 DEF DisplayType
      <4>2. CASE c <= column
        <5>1. shown[c] = dots[c]
          BY <3>4, <4>2 DEF DisplayInv
        <5>2. shown'[c] = shown[c]
          BY <3>1, <3>2, <4>2 DEF DisplayType
        <5> QED
          BY <5>1, <5>2
      <4> QED
        BY <3>1, <3>2, <3>4, <4>1, <4>2
    <3>5. column' # 0
      BY <3>1, <3>2
    <3>6. DisplayInv'
      BY <3>1, <3>4, <3>5 DEF DisplayInv
    <3> QED
      BY <3>3, <3>6
  <2>4. CASE column # 0 /\ ~ (column < Cells)
    <3>1. column' = 0 /\ UNCHANGED <<dots, shown, dirty, missed>>
      BY <1>5, <2>4 DEF braile_display_process
    <3>2. \A c \in 1 .. Cells : c <= column
      BY <1>1, <2>4 DEF DisplayType
    <3>3. DisplayInv'
      BY <3>1, <3>2 DEF DisplayInv
    <3> QED
      BY <1>1, <3>1, <3>3 DEF DisplayType
  <2> QED
    BY <2>1, <2>2, <2>3, <2>4
<1>6. UNCHANGED display \/ SetPatterns \/ SetEnabled \/ braile_display_process
  BY DEF Next, jd_services_tick, jd_process_everything_core, NoFrame, GetReading, SetIntensity,
         sensor_maybe_init, scd40_process, AfterSleep, vars
<1> QED
  BY <1>2, <1>3, <1>4, <1>5, <1>6

(***************************************************************************)
(* Patterns that come in the middle of an update of the Braille display    *)
(* are shown in the end, whatever the other services do.                   *)
(***************************************************************************)
THEOREM UpdatesAreNotLost == Spec => []DisplayCatchesUp
<1>1. Init => DisplayType /\ DisplayInv
  <2> SUFFICES ASSUME Init
               PROVE  DisplayType /\ DisplayInv
    OBVIOUS
  <2>1. dots \in [1 .. Cells -> Patterns] /\ shown = dots /\ column = 0 /\ 0 \in 0 .. Cells
    BY ConstantsAssumption DEF Init
  <2> QED
    BY <2>1 DEF DisplayType, DisplayInv
<1>2. DisplayType /\ DisplayInv => DisplayCatchesUp
  <2> SUFFICES ASSUME DisplayType, DisplayInv, ~ dirty, column = 0, ~ missed
               PROVE  shown = dots
    BY DEF DisplayCatchesUp
  <2> DEFINE S == 1 .. Cells
  <2>1. \A c \in S : shown[c] = dots[c]
    BY DEF DisplayInv
  <2>2. shown \in [S -> Patterns] /\ dots \in [S -> Patterns]
    BY DEF DisplayType
  <2> HIDE DEF S
  <2> QED
    BY <2>1, <2>2, SameFunction
<1> QED
  BY <1>1, <1>2, DisplayStep, PTL DEF Spec

------------------------------------------------------------------------------
(* The loops. *)

Inv == LoopType /\ CoreInv /\ ~ panicked

\* What the top of the stack is.
LEMMA TopIs ==
  ASSUME LoopType
  PROVE  /\ Top = loop[Len(loop)] /\ Top \in Record /\ Len(loop) \in 1 .. Len(loop)
         /\ loop[1] \in Record
<1>1. Len(loop) \in 1 .. Len(loop) /\ 1 \in 1 .. Len(loop)
  BY DEF LoopType
<1> QED
  BY <1>1 DEF LoopType, Top, Last

\* A change of the top leaves what is below.
LEMMA ChangeTop ==
  ASSUME LoopType, NEW x \in Record, loop' = [loop EXCEPT ![Len(loop)] = x]
  PROVE  /\ LoopType' /\ Len(loop') = Len(loop) /\ loop'[Len(loop)] = x
         /\ Len(loop) = 2 => loop'[1] = loop[1]
<1>1. Len(loop) \in 1 .. Len(loop) /\ loop \in Seq(Record)
  BY DEF LoopType
<1>2. loop' \in Seq(Record) /\ Len(loop') = Len(loop) /\ loop'[Len(loop)] = x
  BY <1>1, ExceptSeq
<1>3. Len(loop) = 2 => loop'[1] = loop[1]
  BY <1>1
<1> QED
  BY <1>2, <1>3 DEF LoopType

\* Goto changes where the top is at.
LEMMA GotoIs ==
  ASSUME LoopType, NEW p \in {"rx", "tick", "rest"}, Goto(p)
  PROVE  /\ LoopType' /\ Len(loop') = Len(loop) /\ loop'[Len(loop)].at = p
         /\ Len(loop) = 2 => loop'[1] = loop[1]
<1> DEFINE x == [Top EXCEPT !.at = p]
<1>1. Top = loop[Len(loop)] /\ Top \in Record
  BY TopIs
<1>2. x \in Record /\ x.at = p
  BY <1>1 DEF Record
<1>3. loop' = [loop EXCEPT ![Len(loop)] = x]
  BY <1>1 DEF Goto
<1> HIDE DEF x
<1> QED
  BY <1>2, <1>3, ChangeTop

\* A service in its process() may sleep, or return.
LEMMA ProcessStep ==
  ASSUME Inv, NEW i, Processing(i), jd_services_sleep_us \/ Return
  PROVE  Inv'
<1>1. /\ LoopType /\ ~ panicked /\ Top = loop[Len(loop)] /\ Top \in Record /\ Top.at = "process"
  BY TopIs DEF Inv, Processing, At
<1>2. Len(loop) = 1 /\ Top = loop[1] /\ Top.serv \in {1, 2} /\ curr_service_process = Top.serv
  BY <1>1 DEF Inv, CoreInv, LoopType, Record
<1>3. CASE jd_services_sleep_us
  <2> DEFINE x == [at |-> "rx", serv |-> 0, got |-> FALSE]
  <2>1. x \in Record
    BY DEF Record
  <2>2. /\ loop' = Append(loop, x) /\ curr_serv' = Top.serv /\ curr_service_process' = IN_SERV_SLEEP
        /\ panicked' = panicked
    BY <1>2, <1>3 DEF jd_services_sleep_us, IN_SERV_SLEEP
  <2>3. x.at = "rx"
    OBVIOUS
  <2> HIDE DEF x
  <2>4. /\ Append(loop, x) \in Seq(Record) /\ Len(Append(loop, x)) = 2
        /\ Append(loop, x)[1] = loop[1] /\ Append(loop, x)[2] = x
    <3>1. loop \in Seq(Record)
      BY <1>1 DEF LoopType
    <3>2. /\ Append(loop, x) \in Seq(Record) /\ Len(Append(loop, x)) = Len(loop) + 1
          /\ \A j \in 1 .. Len(loop) : Append(loop, x)[j] = loop[j]
          /\ Append(loop, x)[Len(loop) + 1] = x
      BY <2>1, <3>1, AppendProperties
    <3> QED
      BY <1>2, <3>2
  <2>5. LoopType'
    BY <2>2, <2>4 DEF LoopType
  <2>6. CoreInv'
    BY <1>1, <1>2, <2>2, <2>3, <2>4 DEF CoreInv
  <2> QED
    BY <1>1, <2>2, <2>5, <2>6 DEF Inv
<1>4. CASE Return
  <2>1. CASE Top.serv = 1
    <3> DEFINE x == [Top EXCEPT !.serv = 2]
    <3>1. x \in Record /\ x.serv = 2 /\ x.at = "process"
      BY <1>1 DEF Record
    <3>2. /\ loop' = [loop EXCEPT ![Len(loop)] = x] /\ curr_service_process' = 2
          /\ panicked' = panicked
      BY <1>1, <1>2, <1>4, <2>1 DEF Return, NUM_SERVICES
    <3> HIDE DEF x
    <3>3. LoopType' /\ Len(loop') = 1 /\ loop'[1] = x
      BY <1>1, <1>2, <3>1, <3>2, ChangeTop
    <3> QED
      BY <1>1, <3>1, <3>2, <3>3 DEF Inv, CoreInv
  <2>2. CASE Top.serv = 2
    <3>1. Goto("rest") /\ curr_service_process' = 0 /\ panicked' = panicked
      BY <1>4, <2>2 DEF Return, NUM_SERVICES
    <3>2. LoopType' /\ Len(loop') = 1 /\ loop'[1].at = "rest"
      BY <1>1, <1>2, <3>1, GotoIs
    <3> QED
      BY <1>1, <3>1, <3>2 DEF Inv, CoreInv
  <2> QED
    BY <1>2, <2>1, <2>2
<1> QED
  BY <1>3, <1>4

\* Steps of the loop that stay outside of process().
LEMMA OutsideStep ==
  ASSUME Inv, NEW x \in Record, Top.at # "process", x.at # "process",
         loop' = [loop EXCEPT ![Len(loop)] = x],
         UNCHANGED <<curr_service_process, curr_serv, panicked>>
  PROVE  Inv'
<1>1. LoopType /\ ~ panicked /\ Top = loop[Len(loop)] /\ Len(loop) \in {1, 2}
  BY TopIs DEF Inv, LoopType
<1>2. /\ LoopType' /\ Len(loop') = Len(loop) /\ loop'[Len(loop)] = x
      /\ Len(loop) = 2 => loop'[1] = loop[1]
  BY <1>1, ChangeTop
<1> QED
  BY <1>1, <1>2 DEF Inv, CoreInv

\* The packet of a frame is handled.
LEMMA HandledStep ==
  ASSUME Inv, Packet, Handled
  PROVE  Inv'
<1> DEFINE x == [Top EXCEPT !.at = "tick", !.got = TRUE]
<1>1. Top = loop[Len(loop)] /\ Top \in Record /\ Top.at = "rx"
  BY TopIs DEF Inv, Packet, At
<1>2. x \in Record /\ x.at = "tick"
  BY <1>1 DEF Record
<1>3. loop' = [loop EXCEPT ![Len(loop)] = x] /\ UNCHANGED <<curr_service_process, curr_serv, panicked>>
  BY <1>1 DEF Handled
<1> HIDE DEF x
<1> QED
  BY <1>1, <1>2, <1>3, OutsideStep

\* Every step keeps the stack and the current service in agreement.
LEMMA CoreStep ==
  ASSUME 0 \notin Intensities, Inv, [Next]_vars
  PROVE  Inv'
<1>0. LoopType /\ CoreInv /\ ~ panicked /\ Top = loop[Len(loop)] /\ Top \in Record /\ Len(loop) \in {1, 2}
  BY TopIs DEF Inv, LoopType
<1>1. CASE jd_services_tick
  <2>1. CASE curr_service_process # IN_SERV_SLEEP
    <3> DEFINE x == [Top EXCEPT !.at = "process", !.serv = 1]
    <3>1. x \in Record /\ x.at = "process" /\ x.serv = 1
      <4>1. 1 \in 0 .. 2
        OBVIOUS
      <4> QED
        BY <1>0, <4>1 DEF Record
    <3>2. /\ loop' = [loop EXCEPT ![Len(loop)] = x] /\ curr_service_process' = 1
          /\ panicked' = panicked
      BY <1>0, <1>1, <2>1 DEF jd_services_tick
    <3>3. Len(loop) = 1
      BY <1>0, <2>1 DEF CoreInv
    <3> HIDE DEF x
    <3>4. LoopType' /\ Len(loop') = 1 /\ loop'[1] = x
      BY <1>0, <3>1, <3>2, <3>3, ChangeTop
    <3> QED
      BY <1>0, <3>1, <3>2, <3>4 DEF Inv, CoreInv
  <2>2. CASE curr_service_process = IN_SERV_SLEEP
    <3> DEFINE x == [Top EXCEPT !.at = "rest"]
    <3>1. x \in Record /\ x.at = "rest" /\ Top.at = "tick"
      BY <1>0, <1>1 DEF Record, jd_services_tick, At
    <3>2. loop' = [loop EXCEPT ![Len(loop)] = x] /\ UNCHANGED <<curr_service_process, curr_serv, panicked>>
      BY <1>0, <1>1, <2>2 DEF jd_services_tick, Goto
    <3> HIDE DEF x
    <3> QED
      BY <3>1, <3>2, OutsideStep
  <2> QED
    BY <2>1, <2>2
<1>2. CASE jd_process_everything_core
  <2>1. CASE Goto("rx") /\ UNCHANGED curr_service_process
    <3> DEFINE x == [Top EXCEPT !.at = "rx"]
    <3>1. x \in Record /\ x.at = "rx" /\ Top.at = "rest"
      BY <1>0, <1>2 DEF Record, jd_process_everything_core, At
    <3>2. loop' = [loop EXCEPT ![Len(loop)] = x] /\ UNCHANGED <<curr_service_process, curr_serv, panicked>>
      BY <1>0, <1>2, <2>1 DEF jd_process_everything_core, Goto
    <3> HIDE DEF x
    <3> QED
      BY <3>1, <3>2, OutsideStep
  <2>2. CASE Len(loop) > 1 /\ loop' = Front(loop) /\ curr_service_process' = curr_serv
    <3>1. Len(loop) = 2 /\ loop \in Seq(Record) /\ panicked' = panicked
      BY <1>0, <1>2, <2>2 DEF LoopType, jd_process_everything_core
    <3>2. Front(loop) \in Seq(Record) /\ Len(Front(loop)) = 1 /\ Front(loop)[1] = loop[1]
      BY <3>1 DEF Front
    <3> QED
      BY <1>0, <2>2, <3>1, <3>2 DEF Inv, CoreInv, LoopType
  <2> QED
    BY <1>2, <2>1, <2>2 DEF jd_process_everything_core
<1>3. CASE NoFrame
  <2> DEFINE x == [Top EXCEPT !.at = "tick", !.got = FALSE]
  <2>1. x \in Record /\ x.at = "tick" /\ Top.at = "rx"
    BY <1>0, <1>3 DEF Record, NoFrame, At
  <2>2. loop' = [loop EXCEPT ![Len(loop)] = x] /\ UNCHANGED <<curr_service_process, curr_serv, panicked>>
    BY <1>0, <1>3 DEF NoFrame
  <2> HIDE DEF x
  <2> QED
    BY <2>1, <2>2, OutsideStep
<1>4. CASE SetPatterns \/ SetEnabled \/ GetReading
  BY <1>4, HandledStep DEF SetPatterns, SetEnabled, GetReading
<1>5. CASE \E v \in Intensities : SetIntensity(v)
  <2>1. PICK v \in Intensities : SetIntensity(v)
    BY <1>5
  <2>2. v = 1
    BY <2>1, ConstantsAssumption
  <2> QED
    BY <2>1, <2>2, HandledStep DEF SetIntensity
<1>6. CASE braile_display_process
  BY <1>6, ProcessStep DEF braile_display_process
<1>7. CASE sensor_maybe_init \/ scd40_process \/ AfterSleep
  BY <1>7, ProcessStep DEF sensor_maybe_init, scd40_process, AfterSleep
<1>8. CASE UNCHANGED vars
  BY <1>8 DEF vars, core, Inv, LoopType, CoreInv
<1> QED
  BY <1>1, <1>2, <1>3, <1>4, <1>5, <1>6, <1>7, <1>8 DEF Next

(***************************************************************************)
(* No service sleeps in a handler or while another one is asleep, so that  *)
(* jd_services_sleep_us never panics, as long as nobody writes the         *)
(* intensity 0 to a sensor that sleeps then (scd40_sleep).                 *)
(***************************************************************************)
THEOREM NeverSleepsElsewhere == 0 \notin Intensities => (Spec => []SleepsOnlyInProcess)
<1> SUFFICES ASSUME 0 \notin Intensities
             PROVE  Spec => []SleepsOnlyInProcess
  OBVIOUS
<1>1. Init => Inv
  BY DEF Init, Inv, LoopType, CoreInv, Record
<1>2. Inv /\ [Next]_vars => Inv'
  BY CoreStep
<1>3. Inv => SleepsOnlyInProcess
  BY DEF Inv, SleepsOnlyInProcess
<1> QED
  BY <1>1, <1>2, <1>3, PTL DEF Spec
------------------------------------------------------------------------------
(* The power service (JdPower) *)

CONSTANTS Providers, Watchdog, ShutdownIn, ReEnableIn, SwitchIn, OverloadIn, MaxEvents
VARIABLES allowed, power_status, prev_power_status, power_on_complete, next_shutdown,
          power_switch_time, re_enable, rawFrame, en, det, received, processed, shorted, events,
          revoked, dark, both

Pwr == INSTANCE JdPower

\* The longest time between two shutdown frames, and the longest wait after the last one.
Slowest == CHOOSE d \in ShutdownIn : \A n \in ShutdownIn : n <= d
Longest == CHOOSE d \in ReEnableIn : \A n \in ReEnableIn : n <= d

\* The times have such limits, none is 0, and FAR does not come.
PwrTimes ==
  /\ ShutdownIn \subseteq Nat \ {0} /\ \E d \in ShutdownIn : \A n \in ShutdownIn : n <= d
  /\ ReEnableIn \subseteq 1 .. Pwr!FAR - 1 /\ \E d \in ReEnableIn : \A n \in ReEnableIn : n <= d
  /\ OverloadIn \subseteq Nat

Statuses == {"POWERING", "OVERLOAD", "OVERPROVISION", "DISALLOWED"}

PwrType ==
  /\ allowed \in [Providers -> BOOLEAN] /\ det \in [Providers -> BOOLEAN]
  /\ power_status \in [Providers -> Statuses] /\ prev_power_status \in [Providers -> Statuses]
  /\ power_on_complete \in [Providers -> {"no", "future", "past"}]
  /\ next_shutdown \in [Providers -> Nat] /\ re_enable \in [Providers -> Nat]
  /\ rawFrame \in [Providers -> BOOLEAN] /\ received \in [Providers -> BOOLEAN]
  /\ en \in [Providers -> BOOLEAN] /\ processed \in [Providers -> BOOLEAN]
  /\ revoked \in [Providers -> BOOLEAN] /\ shorted \in BOOLEAN
  /\ dark \in Nat /\ both \in Nat

\* What the status of a device has to do with what it was, and with a ramp.
StatusInv(p) ==
  /\ ~ allowed[p] => power_status[p] = "DISALLOWED"
  /\ power_status[p] = "OVERLOAD" => prev_power_status[p] = "OVERLOAD"
  /\ power_on_complete[p] # "no" =>
       /\ power_status[p] \in {"POWERING", "DISALLOWED"} /\ prev_power_status[p] # "POWERING"
       /\ power_status[p] = "DISALLOWED" => revoked[p]

\* When power_process has come to its end, nothing is left to be done in this tick.
DoneInv(p) ==
  processed[p] =>
    /\ power_on_complete[p] # "past"
    /\ power_on_complete[p] = "no" =>
         /\ prev_power_status[p] = power_status[p] /\ next_shutdown[p] # 0
         /\ power_status[p] = "OVERPROVISION" => re_enable[p] # 0

\* When the limiter is on; the last case is that of a device before its first ramp.
LimiterInv(p) ==
  /\ power_on_complete[p] # "no" => en[p]
  /\ prev_power_status[p] = "POWERING" => en[p] /\ ~ revoked[p]
  /\ p \in Watchdog /\ prev_power_status[p] = "OVERLOAD" => en[p]
  /\ en[p] /\ power_on_complete[p] = "no" /\ ~ revoked[p] =>
       \/ prev_power_status[p] = "POWERING"
       \/ p \in Watchdog /\ prev_power_status[p] = "OVERLOAD"
       \/ prev_power_status[p] = "DISALLOWED" /\ power_status[p] \in {"POWERING", "OVERPROVISION"}

PointInv(p) == StatusInv(p) /\ DoneInv(p) /\ LimiterInv(p)

\* In the dark no frame is sent that could make a device wait again.
DarkPoint(p) ==
  /\ ~ rawFrame[p] /\ ~ received[p] /\ power_status[p] # "OVERLOAD"
  /\ power_on_complete[p] = "no" /\ (prev_power_status[p] = "POWERING" => ~ det[p])

DarkInv ==
  /\ dark <= Longest
  /\ dark > 0 => \A p \in Providers : DarkPoint(p)
  /\ \A p \in Providers : power_status[p] = "OVERPROVISION" => re_enable[p] + dark <= Longest

\* A device that powers up because of a change outside does so by the next tick.
Waking(p) == power_status[p] # "POWERING" /\ Pwr!StatusAtFirst(p) = "POWERING"

WakingInv ==
  \A p \in Providers : Waking(p) =>
    /\ dark <= 1 /\ both <= 1
    /\ processed[p] => dark = 0 /\ both = 0

Active(p) == power_status[p] \in {"POWERING", "OVERLOAD"}
Rising(p) == power_status[p] = "POWERING" /\ prev_power_status[p] # "POWERING"

\* A device that will give way in this tick, or make the others give way.
Yields(p) == received[p] \/ rawFrame[p] \/ ~ Active(p) \/ Rising(p)

\* Somebody, the one that sent the last frame, is alone in the end; or no frame was sent in
\* this tick, and the next one is due in time.
Alone == \E w \in Providers : \A q \in Providers \ {w} : Yields(q)
Soon(p) == Active(p) => rawFrame[p] \/ next_shutdown[p] + both <= Slowest + 1

\* After the first tick of two devices, who powers up sends a frame at once.
SteadyPoint(p) ==
  /\ Rising(p) => next_shutdown[p] = 0
  /\ power_on_complete[p] # "no" => power_status[p] = "POWERING"

BothInv ==
  /\ both <= Slowest + 1
  /\ \A p \in Providers : next_shutdown[p] <= Slowest
  /\ both > 1 => /\ \A p \in Providers : SteadyPoint(p)
                 /\ Alone \/ \A p \in Providers : Soon(p)

PwrInv ==
  /\ PwrType /\ \A p \in Providers : PointInv(p)
  /\ DarkInv /\ WakingInv /\ BothInv

LEMMA Limits ==
  ASSUME PwrTimes
  PROVE  /\ Slowest \in ShutdownIn /\ Slowest \in Nat /\ Slowest >= 1
         /\ Longest \in ReEnableIn /\ Longest \in Nat /\ Longest >= 1 /\ Longest < Pwr!FAR
         /\ \A n \in ShutdownIn : n \in Nat /\ n >= 1 /\ n <= Slowest
         /\ \A n \in ReEnableIn : n \in Nat /\ n >= 1 /\ n <= Longest
<1>1. Slowest \in ShutdownIn /\ \A n \in ShutdownIn : n <= Slowest
  BY DEF PwrTimes, Slowest
<1>2. Longest \in ReEnableIn /\ \A n \in ReEnableIn : n <= Longest
  BY DEF PwrTimes, Longest
<1> QED
  BY <1>1, <1>2 DEF PwrTimes, Pwr!FAR

\* power_process and the handlers of one device leave the others alone.
SameAt(q) ==
  /\ allowed'[q] = allowed[q] /\ det'[q] = det[q]
  /\ power_status'[q] = power_status[q] /\ prev_power_status'[q] = prev_power_status[q]
  /\ power_on_complete'[q] = power_on_complete[q]
  /\ next_shutdown'[q] = next_shutdown[q] /\ re_enable'[q] = re_enable[q]
  /\ rawFrame'[q] = rawFrame[q] /\ received'[q] = received[q]
  /\ en'[q] = en[q] /\ processed'[q] = processed[q] /\ revoked'[q] = revoked[q]

\* The two ways through the rest of power_process.
Framed(p, st, reenable) ==
  /\ next_shutdown[p] = 0 /\ next_shutdown'[p] \in ShutdownIn
  /\ rawFrame'[p] = (rawFrame[p] \/ st \in {"OVERLOAD", "POWERING"})
  /\ power_status'[p] = st /\ re_enable'[p] = reenable /\ processed'[p] = FALSE

Again(p, st) ==
  /\ next_shutdown[p] # 0 /\ allowed[p] /\ st # "POWERING" /\ rawFrame'[p] = rawFrame[p]
  /\ power_status'[p] = "POWERING" /\ re_enable'[p] = Pwr!FAR /\ next_shutdown'[p] = 0
  /\ processed'[p] = FALSE

Through(p, st, reenable) ==
  /\ next_shutdown[p] # 0 /\ (allowed[p] /\ st # "POWERING" => reenable # 0)
  /\ rawFrame'[p] = rawFrame[p] /\ power_status'[p] = st /\ re_enable'[p] = reenable
  /\ next_shutdown'[p] = next_shutdown[p] /\ processed'[p] = TRUE

LEMMA RestIs ==
  ASSUME PwrTimes, PwrType, NEW p \in Providers, NEW st \in Statuses, NEW reenable \in Nat,
         NEW ontime, Pwr!Rest(p, st, reenable, ontime),
         NEW e, e \in BOOLEAN, en' = [en EXCEPT ![p] = e],
         NEW r, r \in BOOLEAN, revoked' = [revoked EXCEPT ![p] = r]
  PROVE  /\ PwrType' /\ \A q \in Providers \ {p} : SameAt(q)
         /\ UNCHANGED <<shorted, dark, both>>
         /\ allowed'[p] = allowed[p] /\ det'[p] = det[p] /\ received'[p] = received[p]
         /\ en'[p] = e /\ revoked'[p] = r
         /\ prev_power_status'[p] = st /\ power_on_complete'[p] = "no"
         /\ Framed(p, st, reenable) \/ Again(p, st) \/ Through(p, st, reenable)
<1>1. /\ power_on_complete' = [power_on_complete EXCEPT ![p] = "no"]
      /\ prev_power_status' = [prev_power_status EXCEPT ![p] = st]
      /\ UNCHANGED <<allowed, power_switch_time, received, det, shorted, dark, both>>
  BY DEF Pwr!Rest, Pwr!power_status_changed, Pwr!outside
<1> DEFINE again == allowed[p] /\ st # "POWERING" /\ (reenable = 0 \/ (st = "OVERPROVISION" /\ ontime))
<1>2. CASE next_shutdown[p] = 0
  <2>1. PICK n \in ShutdownIn : next_shutdown' = [next_shutdown EXCEPT ![p] = n]
    BY <1>2 DEF Pwr!Rest
  <2>2. /\ rawFrame' = [rawFrame EXCEPT ![p] = @ \/ st \in {"OVERLOAD", "POWERING"}]
        /\ power_status' = [power_status EXCEPT ![p] = st]
        /\ re_enable' = [re_enable EXCEPT ![p] = reenable]
        /\ processed' = [processed EXCEPT ![p] = FALSE]
    BY <1>2 DEF Pwr!Rest
  <2>3. n \in Nat
    BY DEF PwrTimes
  <2>4. PwrType'
    BY <1>1, <2>1, <2>2, <2>3 DEF PwrType
  <2>5. \A q \in Providers \ {p} : SameAt(q)
    BY <1>1, <2>1, <2>2 DEF PwrType, SameAt
  <2>6. Framed(p, st, reenable)
    BY <1>2, <2>1, <2>2 DEF PwrType, Framed
  <2>7. /\ allowed'[p] = allowed[p] /\ det'[p] = det[p] /\ received'[p] = received[p]
        /\ en'[p] = e /\ revoked'[p] = r /\ prev_power_status'[p] = st /\ power_on_complete'[p] = "no"
    BY <1>1 DEF PwrType
  <2> QED
    BY <1>1, <2>4, <2>5, <2>6, <2>7
<1>3. CASE next_shutdown[p] # 0
  <2>1. /\ power_status' = [power_status EXCEPT ![p] = IF again THEN "POWERING" ELSE st]
        /\ re_enable' = [re_enable EXCEPT ![p] = IF again THEN Pwr!FAR ELSE reenable]
        /\ next_shutdown' = [next_shutdown EXCEPT ![p] = IF again THEN 0 ELSE @]
        /\ rawFrame' = rawFrame
        /\ processed' = [processed EXCEPT ![p] = ~ again]
    BY <1>3 DEF Pwr!Rest
  <2>2. again \in BOOLEAN
    OBVIOUS
  <2>3. ~ again /\ allowed[p] /\ st # "POWERING" => reenable # 0
    OBVIOUS
  <2>4. again => allowed[p] /\ st # "POWERING"
    OBVIOUS
  <2> HIDE DEF again
  <2>5. PwrType'
    BY <1>1, <2>1, <2>2 DEF PwrType, Statuses, Pwr!FAR
  <2>6. \A q \in Providers \ {p} : SameAt(q)
    BY <1>1, <2>1 DEF PwrType, SameAt
  <2>7. again => Again(p, st)
    BY <1>3, <2>1, <2>4 DEF PwrType, Again
  <2>8. ~ again => Through(p, st, reenable)
    BY <1>3, <2>1, <2>3 DEF PwrType, Through
  <2>9. /\ allowed'[p] = allowed[p] /\ det'[p] = det[p] /\ received'[p] = received[p]
        /\ en'[p] = e /\ revoked'[p] = r /\ prev_power_status'[p] = st /\ power_on_complete'[p] = "no"
    BY <1>1 DEF PwrType
  <2> QED
    BY <1>1, <2>5, <2>6, <2>7, <2>8, <2>9
<1> QED
  BY <1>2, <1>3

\* What does not change at a device keeps what is said of it alone.
LEMMA PointSame ==
  ASSUME NEW q \in Providers, SameAt(q), PointInv(q)
  PROVE  PointInv(q)'
BY DEF SameAt, PointInv, StatusInv, DoneInv, LimiterInv

LEMMA PlaceSame ==
  ASSUME NEW q \in Providers, SameAt(q), UNCHANGED <<shorted, both>>
  PROVE  /\ DarkPoint(q) => DarkPoint(q)'
         /\ Waking(q)' => Waking(q)
         /\ SteadyPoint(q) => SteadyPoint(q)'
         /\ Yields(q) => Yields(q)'
         /\ Soon(q) => Soon(q)'
<1>1. Waking(q)' = Waking(q)
  BY DEF SameAt, Waking, Pwr!StatusAtFirst, Pwr!pin_fault
<1>2. DarkPoint(q) => DarkPoint(q)'
  BY DEF SameAt, DarkPoint
<1>3. SteadyPoint(q) => SteadyPoint(q)'
  BY DEF SameAt, SteadyPoint, Rising
<1>4. Yields(q) => Yields(q)'
  BY DEF SameAt, Yields, Active, Rising
<1>5. Soon(q) => Soon(q)'
  BY DEF SameAt, Soon, Active
<1> QED
  BY <1>1, <1>2, <1>3, <1>4, <1>5

\* A step of one device keeps the invariant if it keeps what concerns this device.
LocalStep(p) ==
  /\ PwrType' /\ PointInv(p)' /\ \A q \in Providers \ {p} : SameAt(q)
  /\ UNCHANGED <<shorted, both>> /\ dark' \in {dark, 0}
  /\ dark' > 0 => DarkPoint(p)'
  /\ power_status'[p] = "OVERPROVISION" => re_enable'[p] + dark' <= Longest
  /\ Waking(p)' => Waking(p) /\ (processed'[p] => processed[p])
  /\ next_shutdown'[p] <= Slowest
  /\ both > 1 => SteadyPoint(p)' /\ (Yields(p) => Yields(p)') /\ (Soon(p) => Soon(p)')

LEMMA LocalKeeps ==
  ASSUME PwrTimes, PwrInv, NEW p \in Providers, LocalStep(p)
  PROVE  PwrInv'
<1>1. /\ PwrType' /\ \A q \in Providers \ {p} : SameAt(q)
      /\ UNCHANGED <<shorted, both>> /\ dark' \in {dark, 0}
  BY DEF LocalStep
<1>2. dark \in Nat /\ both \in Nat /\ dark' \in Nat /\ dark' <= dark /\ Longest \in Nat
  BY <1>1, Limits DEF PwrInv, PwrType
<1>3. \A q \in Providers : PointInv(q)'
  BY <1>1, PointSame DEF LocalStep, PwrInv
<1>4. DarkInv'
  <2>1. dark' <= Longest
    BY <1>1, <1>2, Limits DEF PwrInv, DarkInv
  <2>2. dark' > 0 => \A q \in Providers : DarkPoint(q)'
    BY <1>1, <1>2, PlaceSame DEF PwrInv, DarkInv, LocalStep
  <2>3. \A q \in Providers \ {p} : power_status'[q] = "OVERPROVISION" => re_enable'[q] + dark' <= Longest
    <3> SUFFICES ASSUME NEW q \in Providers \ {p}, power_status'[q] = "OVERPROVISION"
                 PROVE  re_enable'[q] + dark' <= Longest
      OBVIOUS
    <3>1. re_enable'[q] = re_enable[q] /\ re_enable[q] + dark <= Longest /\ re_enable[q] \in Nat
      BY <1>1 DEF SameAt, PwrInv, DarkInv, PwrType
    <3> QED
      BY <1>2, <3>1
  <2> QED
    BY <2>1, <2>2, <2>3 DEF DarkInv, LocalStep
<1>5. WakingInv'
  <2> SUFFICES ASSUME NEW q \in Providers, Waking(q)'
               PROVE  dark' <= 1 /\ both' <= 1 /\ (processed'[q] => dark' = 0 /\ both' = 0)
    BY DEF WakingInv
  <2>1. Waking(q) /\ (processed'[q] => processed[q])
    BY <1>1, PlaceSame DEF LocalStep, SameAt
  <2>2. dark <= 1 /\ both <= 1 /\ (processed[q] => dark = 0 /\ both = 0)
    BY <2>1 DEF PwrInv, WakingInv
  <2> QED
    BY <1>1, <1>2, <2>1, <2>2
<1>6. BothInv'
  <2>1. both' <= Slowest + 1
    BY <1>1 DEF PwrInv, BothInv, Slowest
  <2>2. \A q \in Providers : next_shutdown'[q] <= Slowest
    BY <1>1 DEF PwrInv, BothInv, LocalStep, SameAt
  <2>3. ASSUME both > 1
        PROVE  \A q \in Providers :
                 /\ SteadyPoint(q)' /\ (Yields(q) => Yields(q)') /\ (Soon(q) => Soon(q)')
    BY <1>1, <2>3, PlaceSame DEF PwrInv, BothInv, LocalStep
  <2>4. ASSUME both > 1
        PROVE  Alone' \/ \A q \in Providers : Soon(q)'
    <3>1. Alone \/ \A q \in Providers : Soon(q)
      BY <2>4 DEF PwrInv, BothInv
    <3> QED
      BY <2>3, <2>4, <3>1 DEF Alone
  <2> QED
    BY <1>1, <2>1, <2>2, <2>3, <2>4 DEF BothInv, Slowest
<1> QED
  BY <1>1, <1>3, <1>4, <1>5, <1>6 DEF PwrInv

\* Who powers up because of a change outside, and what else power_process may find at first.
LEMMA WakingIs ==
  ASSUME NEW p \in Providers
  PROVE  /\ Waking(p) <=>
              \/ power_status[p] = "DISALLOWED" /\ det[p] /\ allowed[p]
              \/ p \in Watchdog /\ power_status[p] = "OVERLOAD" /\ ~ (shorted /\ en[p])
         /\ Pwr!StatusAtFirst(p) = "POWERING" =>
              Waking(p) \/ (power_status[p] = "POWERING" /\ det[p])
         /\ Pwr!StatusAtFirst(p) # "POWERING" =>
              \/ ~ Waking(p) /\ Pwr!StatusAtFirst(p) = power_status[p]
              \/ Pwr!StatusAtFirst(p) = "DISALLOWED" /\ power_status[p] = "POWERING" /\ ~ det[p]
BY DEF Waking, Pwr!StatusAtFirst, Pwr!pin_fault

\* In the same words after a step.
LEMMA WakingNext ==
  ASSUME NEW p \in Providers
  PROVE  Waking(p)' <=>
           \/ power_status'[p] = "DISALLOWED" /\ det'[p] /\ allowed'[p]
           \/ p \in Watchdog /\ power_status'[p] = "OVERLOAD" /\ ~ (shorted' /\ en'[p])
BY DEF Waking, Pwr!StatusAtFirst, Pwr!pin_fault

LEMMA RampUpKeeps ==
  ASSUME PwrTimes, PwrInv, NEW p \in Providers, Pwr!RampUp(p)
  PROVE  PwrInv'
<1>1. /\ PwrType /\ PointInv(p) /\ next_shutdown[p] <= Slowest /\ dark \in Nat
      /\ power_status[p] = "OVERPROVISION" => re_enable[p] + dark <= Longest
  BY DEF PwrInv, BothInv, DarkInv, PwrType
<1>2. Pwr!StatusAtFirst(p) = "POWERING" /\ prev_power_status[p] # "POWERING"
  BY DEF Pwr!RampUp
<1>3. /\ power_status' = [power_status EXCEPT ![p] = "POWERING"]
      /\ processed' = [processed EXCEPT ![p] = TRUE] /\ dark' = 0
      /\ UNCHANGED <<allowed, prev_power_status, next_shutdown, power_switch_time, re_enable,
                     rawFrame, received, det, shorted, both, revoked>>
  BY <1>2 DEF Pwr!RampUp, Pwr!timers, Pwr!wire
<1>4. /\ en' \in [Providers -> BOOLEAN] /\ en'[p] /\ power_on_complete'[p] = "future"
      /\ power_on_complete' \in [Providers -> {"no", "future", "past"}]
      /\ \A q \in Providers \ {p} : en'[q] = en[q] /\ power_on_complete'[q] = power_on_complete[q]
  <2>1. CASE power_on_complete[p] = "no"
    <3>1. /\ en' = [en EXCEPT ![p] = Pwr!set_limiter(p, "POWERING")]
          /\ power_on_complete' = [power_on_complete EXCEPT ![p] = "future"]
      BY <1>2, <2>1 DEF Pwr!RampUp
    <3>2. Pwr!set_limiter(p, "POWERING") = TRUE
      BY DEF Pwr!set_limiter
    <3> QED
      BY <1>1, <3>1, <3>2 DEF PwrType
  <2>2. CASE power_on_complete[p] = "future"
    <3>1. en' = en /\ power_on_complete' = power_on_complete
      BY <2>2 DEF Pwr!RampUp
    <3> QED
      BY <1>1, <2>2, <3>1 DEF PwrType, PointInv, LimiterInv
  <2> QED
    BY <2>1, <2>2 DEF Pwr!RampUp
<1>5. PwrType'
  BY <1>1, <1>3, <1>4 DEF PwrType, Statuses
<1>6. \A q \in Providers \ {p} : SameAt(q)
  BY <1>1, <1>3, <1>4 DEF PwrType, SameAt
<1>7. /\ power_status'[p] = "POWERING" /\ processed'[p] = TRUE
      /\ prev_power_status'[p] = prev_power_status[p] /\ allowed'[p] = allowed[p]
      /\ next_shutdown'[p] = next_shutdown[p] /\ rawFrame'[p] = rawFrame[p] /\ received'[p] = received[p]
  BY <1>1, <1>3 DEF PwrType
<1>8. PointInv(p)'
  <2>1. allowed[p]
    BY <1>1, <1>2, WakingIs DEF PointInv, StatusInv
  <2> QED
    BY <1>2, <1>4, <1>7, <2>1 DEF PointInv, StatusInv, DoneInv, LimiterInv
<1>9. ~ Waking(p)'
  BY <1>7, WakingNext
<1>10. ASSUME both > 1
       PROVE  SteadyPoint(p)' /\ (Yields(p) => Yields(p)') /\ (Soon(p) => Soon(p)')
  <2>1. power_status[p] = "POWERING" /\ SteadyPoint(p)
    BY <1>1, <1>2, <1>10, WakingIs DEF PwrInv, BothInv, WakingInv, PwrType
  <2> QED
    BY <1>2, <1>3, <1>7, <2>1 DEF SteadyPoint, Rising, Yields, Active, Soon
<1> QED
  BY <1>1, <1>3, <1>5, <1>6, <1>7, <1>8, <1>9, <1>10, LocalKeeps DEF LocalStep

LEMMA RampedUpKeeps ==
  ASSUME PwrTimes, PwrInv, NEW p \in Providers, Pwr!RampedUp(p)
  PROVE  PwrInv'
<1>1. /\ PwrType /\ PointInv(p) /\ next_shutdown[p] <= Slowest /\ dark \in Nat
      /\ power_status[p] = "OVERPROVISION" => re_enable[p] + dark <= Longest
      /\ dark > 0 => DarkPoint(p)
  BY DEF PwrInv, BothInv, DarkInv, PwrType
<1>2. /\ power_on_complete[p] = "future"
      /\ power_on_complete' = [power_on_complete EXCEPT ![p] = "past"]
      /\ processed' = [processed EXCEPT ![p] = FALSE]
      /\ UNCHANGED <<allowed, power_status, prev_power_status, next_shutdown, power_switch_time,
                     re_enable, rawFrame, received, en, det, shorted, dark, both, revoked>>
  BY DEF Pwr!RampedUp, Pwr!timers, Pwr!wire, Pwr!outside
<1>3. PwrType'
  BY <1>1, <1>2 DEF PwrType
<1>4. \A q \in Providers \ {p} : SameAt(q)
  BY <1>1, <1>2 DEF PwrType, SameAt
<1>5. power_on_complete'[p] = "past" /\ processed'[p] = FALSE
  BY <1>1, <1>2 DEF PwrType
<1>6. PointInv(p)'
  BY <1>1, <1>2, <1>5 DEF PointInv, StatusInv, DoneInv, LimiterInv
<1>7. dark' = 0
  BY <1>1, <1>2 DEF DarkPoint
<1>8. Waking(p)' => Waking(p)
  BY <1>2, WakingIs, WakingNext
<1>9. ASSUME both > 1
      PROVE  SteadyPoint(p)' /\ (Yields(p) => Yields(p)') /\ (Soon(p) => Soon(p)')
  <2>1. SteadyPoint(p)
    BY <1>9 DEF PwrInv, BothInv
  <2> QED
    BY <1>2, <2>1 DEF SteadyPoint, Rising, Yields, Active, Soon
<1> QED
  BY <1>1, <1>2, <1>3, <1>4, <1>5, <1>6, <1>7, <1>8, <1>9, LocalKeeps DEF LocalStep

\* A frame makes a device give way, unless it ramps or is about to send one itself.
LEMMA ShutdownKeeps ==
  ASSUME PwrTimes, PwrInv, NEW p \in Providers, Pwr!power_handle_shutdown(p)
  PROVE  PwrInv'
<1>1. /\ PwrType /\ PointInv(p) /\ next_shutdown[p] <= Slowest /\ dark \in Nat
      /\ dark > 0 => DarkPoint(p)
  BY DEF PwrInv, BothInv, DarkInv, PwrType
<1> DEFINE gives_way == Active(p) /\ ~ rawFrame[p] /\ power_on_complete[p] = "no"
           st == IF gives_way THEN "OVERPROVISION" ELSE power_status[p]
<1>2. /\ received[p] /\ received' = [received EXCEPT ![p] = FALSE]
      /\ power_status' = [power_status EXCEPT ![p] = st]
      /\ processed' = [processed EXCEPT ![p] = @ /\ ~ gives_way]
      /\ UNCHANGED <<allowed, prev_power_status, power_on_complete, next_shutdown, rawFrame, en,
                     det, shorted, dark, both, revoked>>
  BY DEF Pwr!power_handle_shutdown, Pwr!outside, Active
<1>3. PICK m \in ReEnableIn : re_enable' = [re_enable EXCEPT ![p] = m]
  BY DEF Pwr!power_handle_shutdown
<1>4. m \in Nat /\ m >= 1 /\ m <= Longest
  BY Limits
<1>5. gives_way \in BOOLEAN /\ st \in Statuses
  BY <1>1 DEF PwrType, Statuses
<1>6. /\ gives_way => st = "OVERPROVISION" /\ Active(p) /\ ~ rawFrame[p] /\ power_on_complete[p] = "no"
      /\ ~ gives_way => st = power_status[p] /\ (~ Active(p) \/ rawFrame[p] \/ power_on_complete[p] # "no")
  BY <1>1 DEF PwrType
<1> HIDE DEF gives_way, st
<1>7. PwrType'
  BY <1>1, <1>2, <1>3, <1>4, <1>5 DEF PwrType
<1>8. \A q \in Providers \ {p} : SameAt(q)
  BY <1>1, <1>2, <1>3 DEF PwrType, SameAt
<1>9. /\ received'[p] = FALSE /\ power_status'[p] = st /\ processed'[p] = (processed[p] /\ ~ gives_way)
       /\ re_enable'[p] = m
  BY <1>1, <1>2, <1>3 DEF PwrType
<1>10. dark = 0
  BY <1>1, <1>2 DEF DarkPoint
<1>11. PointInv(p)'
  <2>1. CASE gives_way
    <3>1. power_status'[p] = "OVERPROVISION" /\ processed'[p] = FALSE /\ allowed[p] /\ power_on_complete[p] = "no"
      BY <1>1, <1>6, <1>9, <2>1 DEF PointInv, StatusInv, Active
    <3>2. power_status[p] # "DISALLOWED"
      BY <1>6, <2>1 DEF Active
    <3> QED
      BY <1>1, <1>2, <3>1, <3>2 DEF PointInv, StatusInv, DoneInv, LimiterInv
  <2>2. CASE ~ gives_way
    <3>1. power_status'[p] = power_status[p] /\ re_enable'[p] # 0
      BY <1>4, <1>6, <1>9, <2>2
    <3>2. processed'[p] => processed[p]
      BY <1>9
    <3> QED
      BY <1>1, <1>2, <3>1, <3>2 DEF PointInv, StatusInv, DoneInv, LimiterInv
  <2> QED
    BY <2>1, <2>2
<1>12. Waking(p)' => Waking(p) /\ (processed'[p] => processed[p])
  <2>1. Waking(p)' => power_status'[p] = power_status[p]
    BY <1>5, <1>6, <1>9, WakingNext
  <2>2. processed'[p] => processed[p]
    BY <1>9
  <2> QED
    BY <1>2, <2>1, <2>2, WakingIs, WakingNext
<1>13. ASSUME both > 1
       PROVE  SteadyPoint(p)' /\ (Yields(p) => Yields(p)') /\ (Soon(p) => Soon(p)')
  <2>1. SteadyPoint(p)
    BY <1>13 DEF PwrInv, BothInv
  <2>2. CASE gives_way
    <3>1. power_status'[p] = "OVERPROVISION" /\ power_on_complete[p] = "no"
      BY <1>6, <1>9, <2>2
    <3> QED
      BY <1>2, <3>1 DEF SteadyPoint, Rising, Yields, Active, Soon
  <2>3. CASE ~ gives_way
    <3>1. power_status'[p] = power_status[p] /\ (~ Active(p) \/ rawFrame[p] \/ power_on_complete[p] # "no")
      BY <1>6, <1>9, <2>3
    <3>2. power_on_complete[p] # "no" => Rising(p)
      BY <1>1, <2>1 DEF SteadyPoint, Rising, PointInv, StatusInv
    <3> QED
      BY <1>2, <2>1, <3>1, <3>2 DEF SteadyPoint, Rising, Yields, Active, Soon
  <2> QED
    BY <2>2, <2>3
<1> QED
  BY <1>1, <1>2, <1>4, <1>7, <1>8, <1>9, <1>10, <1>11, <1>12, <1>13, LocalKeeps DEF LocalStep

LEMMA LimiterBoolean ==
  ASSUME PwrType, NEW p \in Providers, NEW st
  PROVE  Pwr!set_limiter(p, st) \in BOOLEAN /\ Pwr!Pulsed(p, st) \in BOOLEAN
<1> DEFINE wide == st \in {"OVERLOAD", "POWERING"}
           narrow == st = "POWERING"
<1>1. Pwr!set_limiter(p, st) \in BOOLEAN
  <2>1. wide \in BOOLEAN /\ narrow \in BOOLEAN
    OBVIOUS
  <2>2. Pwr!set_limiter(p, st) = IF p \in Watchdog THEN wide ELSE narrow
    BY DEF Pwr!set_limiter
  <2> HIDE DEF wide, narrow
  <2> QED
    BY <2>1, <2>2
<1>2. en[p] \in BOOLEAN
  BY DEF PwrType
<1> QED
  BY <1>1, <1>2, Zenon DEF Pwr!Pulsed

\* Powering up ends, or the bus is powered on; an overload ends it.
LEMMA PoweringKeeps ==
  ASSUME PwrTimes, PwrInv, NEW p \in Providers, Pwr!Powering(p)
  PROVE  PwrInv'
<1>1. /\ PwrType /\ PointInv(p) /\ next_shutdown[p] <= Slowest /\ dark \in Nat /\ both \in Nat
      /\ re_enable[p] \in Nat
      /\ dark > 0 => DarkPoint(p)
  BY DEF PwrInv, BothInv, DarkInv, PwrType
<1>2. /\ Pwr!StatusAtFirst(p) = "POWERING"
      /\ prev_power_status[p] = "POWERING" \/ power_on_complete[p] = "past"
      /\ revoked' = [revoked EXCEPT ![p] = FALSE]
  BY DEF Pwr!Powering
<1>3. Waking(p) \/ (power_status[p] = "POWERING" /\ det[p])
  BY <1>2, WakingIs
<1>4. allowed[p]
  BY <1>1, <1>3, WakingIs DEF PointInv, StatusInv
<1> DEFINE fault == prev_power_status[p] = "POWERING" /\ ~ Pwr!pin_fault(p)
           st == IF fault THEN "OVERLOAD" ELSE "POWERING"
           e == IF fault THEN Pwr!set_limiter(p, "OVERLOAD") ELSE Pwr!Pulsed(p, "POWERING")
<1>5. /\ st \in {"POWERING", "OVERLOAD"} /\ e \in BOOLEAN
      /\ st = "POWERING" => e = TRUE
      /\ st = "OVERLOAD" => e = (p \in Watchdog) /\ shorted /\ prev_power_status[p] = "POWERING"
  BY <1>1, <1>2 DEF PwrType, PointInv, LimiterInv, StatusInv, Pwr!pin_fault, Pwr!set_limiter, Pwr!Pulsed
<1>6. en' = [en EXCEPT ![p] = e] /\ \E n \in Nat : Pwr!Rest(p, st, n, FALSE)
  <2>1. CASE fault
    <3>1. /\ en' = [en EXCEPT ![p] = Pwr!set_limiter(p, "OVERLOAD")]
          /\ \E n \in OverloadIn : Pwr!Rest(p, "OVERLOAD", n, FALSE)
      BY <2>1 DEF Pwr!Powering
    <3> QED
      BY <2>1, <3>1 DEF PwrTimes
  <2>2. CASE ~ fault
    <3>1. /\ en' = [en EXCEPT ![p] = Pwr!Pulsed(p, "POWERING")]
          /\ Pwr!Rest(p, "POWERING", re_enable[p], FALSE)
      BY <1>2, <2>2 DEF Pwr!Powering
    <3> QED
      BY <1>1, <2>2, <3>1
  <2> QED
    BY <2>1, <2>2
<1> HIDE DEF fault, st, e
<1>7. PICK n \in Nat : Pwr!Rest(p, st, n, FALSE)
  BY <1>6
<1>8. /\ PwrType' /\ \A q \in Providers \ {p} : SameAt(q)
      /\ UNCHANGED <<shorted, dark, both>>
      /\ allowed'[p] = allowed[p] /\ det'[p] = det[p] /\ received'[p] = received[p]
      /\ en'[p] = e /\ revoked'[p] = FALSE
      /\ prev_power_status'[p] = st /\ power_on_complete'[p] = "no"
      /\ Framed(p, st, n) \/ Again(p, st) \/ Through(p, st, n)
  <2>1. st \in Statuses /\ FALSE \in BOOLEAN
    BY <1>5 DEF Statuses
  <2> QED
    BY <1>1, <1>2, <1>5, <1>6, <1>7, <2>1, RestIs
<1>9. dark = 0
  <2>1. dark > 0 => ~ Waking(p) \/ dark <= 1
    BY DEF PwrInv, WakingInv
  <2>2. CASE prev_power_status[p] = "POWERING"
    <3>1. dark > 0 => ~ det[p] /\ power_status[p] # "OVERLOAD"
      BY <1>1, <2>2 DEF DarkPoint
    <3> QED
      BY <1>1, <1>3, <3>1, WakingIs
  <2>3. CASE power_on_complete[p] = "past"
    BY <1>1, <2>3 DEF DarkPoint
  <2> QED
    BY <1>2, <2>2, <2>3
<1>10. \/ Framed(p, st, n) \/ Through(p, st, n)
       \/ Again(p, st) /\ st = "OVERLOAD"
  BY <1>5, <1>8 DEF Again
<1>11. PointInv(p)'
  <2>1. CASE Framed(p, st, n)
    BY <1>4, <1>5, <1>8, <2>1 DEF Framed, PointInv, StatusInv, DoneInv, LimiterInv
  <2>2. CASE Through(p, st, n)
    BY <1>4, <1>5, <1>8, <2>2 DEF Through, PointInv, StatusInv, DoneInv, LimiterInv
  <2>3. CASE Again(p, st) /\ st = "OVERLOAD"
    BY <1>4, <1>5, <1>8, <2>3 DEF Again, PointInv, StatusInv, DoneInv, LimiterInv
  <2> QED
    BY <1>10, <2>1, <2>2, <2>3
<1>12. power_status'[p] \in {"POWERING", "OVERLOAD"} /\ (power_status'[p] = "OVERLOAD" => st = "OVERLOAD")
  BY <1>5, <1>10 DEF Framed, Through, Again
<1>13. ~ Waking(p)'
  BY <1>5, <1>8, <1>12, WakingNext
<1>14. next_shutdown'[p] <= Slowest
  BY <1>1, <1>8, Limits DEF Framed, Through, Again
<1>15. ASSUME both > 1
       PROVE  SteadyPoint(p)' /\ (Yields(p) => Yields(p)') /\ (Soon(p) => Soon(p)')
  <2>1. power_status[p] = "POWERING" /\ SteadyPoint(p) /\ both <= Slowest + 1
    BY <1>1, <1>3, <1>15 DEF PwrInv, BothInv, WakingInv
  <2>2. SteadyPoint(p)'
    BY <1>8, <1>10 DEF SteadyPoint, Rising, Framed, Through, Again
  <2>3. CASE Framed(p, st, n)
    <3>1. rawFrame'[p]
      BY <1>5, <2>3 DEF Framed
    <3> QED
      BY <2>2, <3>1 DEF Yields, Soon
  <2>4. CASE Through(p, st, n)
    <3>1. ~ Rising(p) /\ rawFrame'[p] = rawFrame[p] /\ next_shutdown'[p] = next_shutdown[p]
      BY <2>1, <2>4 DEF Through, SteadyPoint
    <3> QED
      BY <1>8, <2>1, <2>2, <3>1 DEF Yields, Soon, Active
  <2>5. CASE Again(p, st) /\ st = "OVERLOAD"
    <3>1. Rising(p)' /\ next_shutdown'[p] = 0
      BY <1>8, <2>5 DEF Again, Rising
    <3>2. 0 + both <= Slowest + 1
      BY <1>1, <2>1
    <3> QED
      BY <1>8, <2>2, <3>1, <3>2 DEF Yields, Soon, Slowest
  <2> QED
    BY <1>10, <2>3, <2>4, <2>5
<1> QED
  BY <1>8, <1>9, <1>11, <1>12, <1>13, <1>14, <1>15, LocalKeeps DEF LocalStep

\* Not powering, because of the status or because the supply is lost.
LEMMA NotPoweringKeeps ==
  ASSUME PwrTimes, PwrInv, NEW p \in Providers, Pwr!NotPowering(p)
  PROVE  PwrInv'
<1>1. /\ PwrType /\ PointInv(p) /\ next_shutdown[p] <= Slowest /\ dark \in Nat /\ both \in Nat
      /\ re_enable[p] \in Nat
      /\ dark > 0 => DarkPoint(p)
  BY DEF PwrInv, BothInv, DarkInv, PwrType
<1> DEFINE st == Pwr!StatusAtFirst(p)
           n == re_enable[p]
           e == IF prev_power_status[p] # st THEN Pwr!set_limiter(p, st) ELSE Pwr!Pulsed(p, st)
           r == revoked[p] \/ (power_status[p] = "POWERING" /\ prev_power_status[p] # "POWERING")
           ontime == power_switch_time[p] = 0
<1>2. /\ st # "POWERING" /\ Pwr!Rest(p, st, n, ontime)
      /\ en' = [en EXCEPT ![p] = e] /\ revoked' = [revoked EXCEPT ![p] = r]
  BY <1>1 DEF Pwr!NotPowering, PwrType
<1>3. \/ ~ Waking(p) /\ st = power_status[p]
      \/ st = "DISALLOWED" /\ power_status[p] = "POWERING" /\ ~ det[p]
  BY <1>2, WakingIs
<1>4. st \in Statuses /\ e \in BOOLEAN /\ r \in BOOLEAN /\ ontime \in BOOLEAN /\ n \in Nat
  <2>1. st \in Statuses /\ n \in Nat /\ en[p] \in BOOLEAN
    BY <1>1, <1>3 DEF PwrType, Statuses
  <2>2. e \in BOOLEAN
    BY <1>1, LimiterBoolean
  <2>3. r \in BOOLEAN /\ ontime \in BOOLEAN
    BY <1>1 DEF PwrType
  <2> QED
    BY <2>1, <2>2, <2>3
<1>5. /\ p \in Watchdog => e = (st = "OVERLOAD")
      /\ p \notin Watchdog => (e => en[p] /\ prev_power_status[p] = st)
  BY <1>2 DEF Pwr!set_limiter, Pwr!Pulsed
<1>6. /\ revoked[p] => r
      /\ power_status[p] = "POWERING" /\ prev_power_status[p] # "POWERING" => r
  OBVIOUS
<1> HIDE DEF st, n, e, r, ontime
<1>7. /\ PwrType' /\ \A q \in Providers \ {p} : SameAt(q)
      /\ UNCHANGED <<shorted, dark, both>>
      /\ allowed'[p] = allowed[p] /\ det'[p] = det[p] /\ received'[p] = received[p]
      /\ en'[p] = e /\ revoked'[p] = r
      /\ prev_power_status'[p] = st /\ power_on_complete'[p] = "no"
      /\ Framed(p, st, n) \/ Again(p, st) \/ Through(p, st, n)
  <2>1. st \in Statuses /\ n \in Nat /\ ontime \in BOOLEAN /\ Pwr!Rest(p, st, n, ontime)
    BY <1>2, <1>4
  <2>2. /\ e \in BOOLEAN /\ en' = [en EXCEPT ![p] = e]
        /\ r \in BOOLEAN /\ revoked' = [revoked EXCEPT ![p] = r]
    BY <1>2, <1>4
  <2>3. PICK c \in Statuses, k \in Nat, o \in BOOLEAN, x \in BOOLEAN, y \in BOOLEAN :
          c = st /\ k = n /\ o = ontime /\ x = e /\ y = r
    BY <2>1, <2>2
  <2>4. /\ Pwr!Rest(p, c, k, o)
        /\ en' = [en EXCEPT ![p] = x] /\ revoked' = [revoked EXCEPT ![p] = y]
    BY <2>1, <2>2, <2>3
  <2>5. /\ PwrType' /\ \A q \in Providers \ {p} : SameAt(q)
        /\ UNCHANGED <<shorted, dark, both>>
        /\ allowed'[p] = allowed[p] /\ det'[p] = det[p] /\ received'[p] = received[p]
        /\ en'[p] = x /\ revoked'[p] = y
        /\ prev_power_status'[p] = c /\ power_on_complete'[p] = "no"
        /\ Framed(p, c, k) \/ Again(p, c) \/ Through(p, c, k)
    BY <1>1, <2>3, <2>4, RestIs
  <2> QED
    BY <2>3, <2>5
\* The limiter is on only in watchdog mode, or if the step shows that power was revoked.
<1>8. e => r \/ (p \in Watchdog /\ st = "OVERLOAD")
  <2> SUFFICES ASSUME p \notin Watchdog, e
               PROVE  r
    BY <1>5
  <2>1. en[p] /\ prev_power_status[p] = st
    BY <1>5
  <2>2. CASE st = "DISALLOWED" /\ power_status[p] = "POWERING"
    BY <1>2, <1>6, <2>1, <2>2
  <2>3. CASE st = power_status[p]
    BY <1>1, <1>2, <1>6, <2>1, <2>3 DEF PointInv, LimiterInv, StatusInv
  <2> QED
    BY <1>3, <2>2, <2>3
<1>9. PointInv(p)'
  <2>1. ~ allowed[p] => st = "DISALLOWED"
    BY <1>1, <1>3 DEF PointInv, StatusInv
  <2>2. p \in Watchdog /\ st = "OVERLOAD" => e
    BY <1>5
  <2>3. st = "OVERPROVISION" => allowed[p]
    BY <2>1
  <2>4. CASE Framed(p, st, n)
    BY <1>2, <1>7, <1>8, <2>1, <2>2, <2>4 DEF Framed, PointInv, StatusInv, DoneInv, LimiterInv
  <2>5. CASE Again(p, st)
    BY <1>2, <1>7, <1>8, <2>1, <2>2, <2>5 DEF Again, PointInv, StatusInv, DoneInv, LimiterInv
  <2>6. CASE Through(p, st, n)
    BY <1>2, <1>7, <1>8, <2>1, <2>2, <2>3, <2>6 DEF Through, PointInv, StatusInv, DoneInv, LimiterInv
  <2> QED
    BY <1>7, <2>4, <2>5, <2>6
<1>10. dark > 0 => DarkPoint(p)'
  <2> SUFFICES ASSUME dark > 0
               PROVE  DarkPoint(p)'
    OBVIOUS
  <2>1. DarkPoint(p) /\ st # "OVERLOAD"
    BY <1>1, <1>3 DEF DarkPoint
  <2>2. ~ rawFrame'[p] /\ power_status'[p] # "OVERLOAD"
    BY <1>2, <1>7, <2>1 DEF DarkPoint, Framed, Again, Through
  <2> QED
    BY <1>2, <1>7, <2>1, <2>2 DEF DarkPoint
<1>11. power_status'[p] = "OVERPROVISION" => re_enable'[p] + dark' <= Longest
  <2> SUFFICES ASSUME power_status'[p] = "OVERPROVISION"
               PROVE  re_enable'[p] + dark' <= Longest
    OBVIOUS
  <2>1. st = "OVERPROVISION" /\ re_enable'[p] = n
    BY <1>7 DEF Framed, Again, Through
  <2>2. n + dark <= Longest
    BY <1>3, <2>1 DEF n, PwrInv, DarkInv
  <2> QED
    BY <1>7, <2>1, <2>2
<1>12. ~ Waking(p)'
  <2> SUFFICES ASSUME Waking(p)'
               PROVE  FALSE
    OBVIOUS
  <2>1. power_status'[p] = st
    BY <1>7, WakingNext DEF Framed, Again, Through
  <2>2. CASE st = "DISALLOWED" /\ power_status[p] = "POWERING" /\ ~ det[p]
    BY <1>7, <2>1, <2>2, WakingNext
  <2>3. CASE ~ Waking(p) /\ st = power_status[p]
    BY <1>5, <1>7, <2>1, <2>3, WakingIs, WakingNext
  <2> QED
    BY <1>3, <2>2, <2>3
<1>13. next_shutdown'[p] <= Slowest
  BY <1>1, <1>7, Limits DEF Framed, Through, Again
<1>14. ASSUME both > 1
       PROVE  SteadyPoint(p)' /\ (Yields(p) => Yields(p)') /\ (Soon(p) => Soon(p)')
  <2>1. both <= Slowest + 1
    BY <1>14 DEF PwrInv, BothInv
  <2>2. SteadyPoint(p)'
    BY <1>2, <1>7 DEF SteadyPoint, Rising, Framed, Through, Again
  <2>3. CASE Again(p, st)
    <3>1. Rising(p)' /\ next_shutdown'[p] = 0
      BY <1>2, <1>7, <2>3 DEF Again, Rising
    <3>2. 0 + both <= Slowest + 1
      BY <1>1, <2>1
    <3> QED
      BY <1>7, <2>2, <3>1, <3>2 DEF Yields, Soon, Slowest
  <2>4. CASE Framed(p, st, n)
    <3>1. power_status'[p] = st /\ (rawFrame[p] => rawFrame'[p]) /\ (Active(p)' => rawFrame'[p])
      BY <2>4 DEF Framed, Active
    <3> QED
      BY <2>2, <3>1 DEF Yields, Soon
  <2>5. CASE Through(p, st, n)
    <3>1. power_status'[p] = st /\ rawFrame'[p] = rawFrame[p] /\ next_shutdown'[p] = next_shutdown[p]
      BY <2>5 DEF Through
    <3>2. Active(p)' => Active(p) /\ ~ Rising(p)
      BY <1>2, <1>3, <3>1 DEF Active, Rising
    <3> QED
      BY <1>7, <2>2, <3>1, <3>2 DEF Yields, Soon
  <2> QED
    BY <1>7, <2>3, <2>4, <2>5
<1> QED
  BY <1>7, <1>9, <1>10, <1>11, <1>12, <1>13, <1>14, LocalKeeps DEF LocalStep

\* With no tick to count, what is left of the invariant.
LEMMA FreshKeeps ==
  ASSUME PwrTimes, PwrInv, PwrType', \A q \in Providers : PointInv(q)', dark' = 0, both' = 0,
         UNCHANGED <<next_shutdown, re_enable>>,
         \A q \in Providers : power_status'[q] = "OVERPROVISION" => power_status[q] = "OVERPROVISION"
  PROVE  PwrInv'
<1>1. DarkInv'
  <2>1. \A q \in Providers : power_status'[q] = "OVERPROVISION" => re_enable'[q] + 0 <= Longest
    <3> SUFFICES ASSUME NEW q \in Providers, power_status'[q] = "OVERPROVISION"
                 PROVE  re_enable'[q] + 0 <= Longest
      OBVIOUS
    <3>1. re_enable[q] + dark <= Longest /\ re_enable[q] \in Nat /\ dark \in Nat
      BY DEF PwrInv, DarkInv, PwrType
    <3> QED
      BY <3>1, Limits
  <2> QED
    BY <2>1, Limits DEF DarkInv, Longest
<1>2. WakingInv'
  BY DEF WakingInv
<1>3. BothInv'
  BY Limits DEF PwrInv, BothInv, Slowest
<1> QED
  BY <1>1, <1>2, <1>3 DEF PwrInv

LEMMA AllowedKeeps ==
  ASSUME PwrTimes, PwrInv, NEW p \in Providers, NEW allow \in BOOLEAN, Pwr!SetAllowed(p, allow)
  PROVE  PwrInv'
<1>1. PwrType /\ \A q \in Providers : PointInv(q)
  BY DEF PwrInv
<1> DEFINE st == IF allow THEN "POWERING" ELSE "DISALLOWED"
           r == revoked[p] \/ (~ allow /\ en[p] /\ prev_power_status[p] # "POWERING")
<1>2. /\ allowed' = [allowed EXCEPT ![p] = allow] /\ power_status' = [power_status EXCEPT ![p] = st]
      /\ processed' = [processed EXCEPT ![p] = FALSE] /\ revoked' = [revoked EXCEPT ![p] = r]
      /\ dark' = 0 /\ both' = 0
      /\ UNCHANGED <<prev_power_status, power_on_complete, next_shutdown, power_switch_time,
                     re_enable, rawFrame, received, en, det, shorted>>
  BY <1>1 DEF Pwr!SetAllowed, Pwr!timers, Pwr!wire, PwrType
<1>3. st \in {"DISALLOWED", "POWERING"} /\ (st = "DISALLOWED" <=> ~ allow) /\ r \in BOOLEAN
  BY <1>1 DEF PwrType
<1>4. /\ revoked[p] => r
      /\ st = "DISALLOWED" /\ en[p] /\ prev_power_status[p] # "POWERING" => r
      /\ prev_power_status[p] = "POWERING" => (r => revoked[p])
  OBVIOUS
<1> HIDE DEF st, r
<1>5. PwrType'
  BY <1>1, <1>2, <1>3 DEF PwrType, Statuses
<1>6. \A q \in Providers \ {p} : SameAt(q)
  BY <1>1, <1>2 DEF PwrType, SameAt
<1>7. /\ allowed'[p] = allow /\ power_status'[p] = st /\ processed'[p] = FALSE /\ revoked'[p] = r
  BY <1>1, <1>2 DEF PwrType
<1>8. PointInv(p)'
  <2>1. StatusInv(p)' /\ DoneInv(p)'
    BY <1>1, <1>2, <1>3, <1>4, <1>7 DEF PointInv, StatusInv, DoneInv, LimiterInv
  <2>2. LimiterInv(p)'
    BY <1>1, <1>2, <1>3, <1>4, <1>7 DEF PointInv, LimiterInv
  <2> QED
    BY <2>1, <2>2 DEF PointInv
<1>9. \A q \in Providers : PointInv(q)'
  BY <1>1, <1>6, <1>8, PointSame
<1>10. \A q \in Providers : power_status'[q] = "OVERPROVISION" => power_status[q] = "OVERPROVISION"
  BY <1>3, <1>6, <1>7 DEF SameAt
<1> QED
  BY <1>2, <1>5, <1>9, <1>10, FreshKeeps

LEMMA EnvironmentKeeps ==
  ASSUME PwrTimes, PwrInv, Pwr!Environment
  PROVE  PwrInv'
<1>1. PwrType /\ \A q \in Providers : PointInv(q)
  BY DEF PwrInv
<1>2. /\ dark' = 0 /\ both' = 0
      /\ UNCHANGED <<allowed, power_status, prev_power_status, power_on_complete, next_shutdown,
                     power_switch_time, re_enable, rawFrame, received, en, processed, revoked>>
  BY DEF Pwr!Environment, Pwr!timers, Pwr!wire
<1>3. shorted' \in BOOLEAN /\ det' \in [Providers -> BOOLEAN]
  <2>1. CASE shorted' = ~ shorted /\ det' = det
    BY <1>1, <2>1 DEF PwrType
  <2>2. CASE shorted' = shorted /\ \E p \in Providers : det' = [det EXCEPT ![p] = ~ @]
    <3>1. PICK p \in Providers : det' = [det EXCEPT ![p] = ~ @]
      BY <2>2
    <3>2. det' \in [Providers -> BOOLEAN]
      BY <1>1, <3>1 DEF PwrType
    <3> QED
      BY <1>1, <2>2, <3>2 DEF PwrType
  <2> QED
    BY <2>1, <2>2 DEF Pwr!Environment
<1>4. PwrType'
  BY <1>1, <1>2, <1>3 DEF PwrType
<1>5. \A q \in Providers : PointInv(q)'
  BY <1>1, <1>2 DEF PointInv, StatusInv, DoneInv, LimiterInv
<1> QED
  BY <1>2, <1>4, <1>5, FreshKeeps

\* The one that has sent a frame is the only one that need not give way.
LEMMA SentKeeps ==
  ASSUME PwrTimes, PwrInv, NEW p \in Providers, Pwr!Sent(p)
  PROVE  PwrInv'
<1>1. PwrType /\ \A q \in Providers : PointInv(q)
  BY DEF PwrInv
<1>2. /\ rawFrame[p] /\ rawFrame' = [rawFrame EXCEPT ![p] = FALSE]
      /\ received' = [q \in Providers |-> received[q] \/ q # p]
      /\ UNCHANGED <<allowed, power_status, prev_power_status, power_on_complete, next_shutdown,
                     power_switch_time, re_enable, en, processed, det, shorted, dark, both, revoked>>
  BY DEF Pwr!Sent, Pwr!timers, Pwr!outside
<1>3. PwrType'
  BY <1>1, <1>2 DEF PwrType
<1>4. \A q \in Providers : PointInv(q)'
  BY <1>1, <1>2 DEF PointInv, StatusInv, DoneInv, LimiterInv
<1>5. ~ (dark > 0)
  BY <1>2 DEF PwrInv, DarkInv, DarkPoint
<1>6. DarkInv'
  BY <1>2, <1>5 DEF PwrInv, DarkInv, Longest
<1>7. WakingInv'
  <2>1. \A q \in Providers : Waking(q)' = Waking(q)
    BY <1>2 DEF Waking, Pwr!StatusAtFirst, Pwr!pin_fault
  <2> QED
    BY <1>2, <2>1 DEF PwrInv, WakingInv
<1>8. BothInv'
  <2>1. \A q \in Providers \ {p} : received'[q]
    BY <1>2
  <2>2. Alone'
    BY <2>1 DEF Alone, Yields
  <2>3. \A q \in Providers : SteadyPoint(q) => SteadyPoint(q)'
    BY <1>2 DEF SteadyPoint, Rising
  <2> QED
    BY <1>2, <2>2, <2>3 DEF PwrInv, BothInv, Slowest
<1> QED
  BY <1>3, <1>4, <1>6, <1>7, <1>8 DEF PwrInv

\* At the end of a tick a device that puts power on the bus is one that says so.
LEMMA PoweredActive ==
  ASSUME PwrInv, NEW p \in Providers, processed[p], power_on_complete[p] # "future"
  PROVE  /\ power_on_complete[p] = "no" /\ prev_power_status[p] = power_status[p]
         /\ next_shutdown[p] # 0
         /\ power_status[p] = "OVERPROVISION" => re_enable[p] # 0
         /\ p \in Pwr!Powered => Active(p)
         /\ power_status[p] = "POWERING" /\ det[p] => p \in Pwr!Powered
<1>1. PointInv(p) /\ power_on_complete[p] \in {"no", "future", "past"}
  BY DEF PwrInv, PwrType
<1>2. /\ power_on_complete[p] = "no" /\ prev_power_status[p] = power_status[p] /\ next_shutdown[p] # 0
      /\ power_status[p] = "OVERPROVISION" => re_enable[p] # 0
  BY <1>1 DEF PointInv, DoneInv
<1>3. p \in Pwr!Powered <=> en[p] /\ det[p] /\ ~ revoked[p]
  BY DEF Pwr!Powered
<1> QED
  BY <1>1, <1>2, <1>3 DEF PointInv, LimiterInv, Active

LEMMA TickKeeps ==
  ASSUME PwrTimes, PwrInv, Pwr!Tick
  PROVE  PwrInv'
<1>1. /\ PwrType /\ \A q \in Providers : PointInv(q)
      /\ dark \in Nat /\ both \in Nat
  BY DEF PwrInv, PwrType
<1>2. \A q \in Providers : processed[q] /\ ~ rawFrame[q] /\ ~ received[q] /\ power_on_complete[q] # "future"
  BY DEF Pwr!Tick
<1>3. \A q \in Providers :
        /\ power_on_complete[q] = "no" /\ prev_power_status[q] = power_status[q]
        /\ next_shutdown[q] # 0
        /\ power_status[q] = "OVERPROVISION" => re_enable[q] # 0
        /\ q \in Pwr!Powered => Active(q)
        /\ power_status[q] = "POWERING" /\ det[q] => q \in Pwr!Powered
  BY <1>2, PoweredActive
<1>4. /\ processed' = [q \in Providers |-> FALSE]
      /\ next_shutdown' = [q \in Providers |-> IF next_shutdown[q] = 0 THEN 0 ELSE next_shutdown[q] - 1]
      /\ re_enable' = [q \in Providers |->
                         IF re_enable[q] \in {0, Pwr!FAR} THEN re_enable[q] ELSE re_enable[q] - 1]
      /\ UNCHANGED <<allowed, power_status, prev_power_status, power_on_complete, rawFrame, received,
                     en, det, shorted, revoked>>
  BY DEF Pwr!Tick, Pwr!wire
<1>5. \A q \in Providers : next_shutdown[q] \in Nat /\ next_shutdown'[q] = next_shutdown[q] - 1
  BY <1>1, <1>3, <1>4 DEF PwrType
<1>6. \A q \in Providers :
        power_status[q] = "OVERPROVISION" => re_enable[q] \in Nat /\ re_enable'[q] = re_enable[q] - 1
  <2> SUFFICES ASSUME NEW q \in Providers, power_status[q] = "OVERPROVISION"
               PROVE  re_enable[q] \in Nat /\ re_enable'[q] = re_enable[q] - 1
    OBVIOUS
  <2>1. re_enable[q] \in Nat /\ re_enable[q] + dark <= Longest /\ re_enable[q] # 0
    BY <1>1, <1>3 DEF PwrInv, DarkInv, PwrType
  <2>2. re_enable[q] # Pwr!FAR
    BY <1>1, <2>1, Limits DEF Pwr!FAR
  <2> QED
    BY <1>4, <2>1, <2>2
<1> DEFINE night == Pwr!Powered = {} /\ ~ Pwr!Overloaded /\ \E q \in Providers : Pwr!Willing(q)
           two == \E p, q \in Pwr!Powered : p # q
<1>7. dark' = IF night THEN dark + 1 ELSE 0
  BY DEF Pwr!Tick
<1>8. both' = IF two THEN both + 1 ELSE 0
  BY DEF Pwr!Tick
<1>9. PwrType'
  <2>1. processed' \in [Providers -> BOOLEAN]
    BY <1>4
  <2>2. next_shutdown' \in [Providers -> Nat]
    BY <1>1, <1>4 DEF PwrType
  <2>3. re_enable' \in [Providers -> Nat]
    BY <1>1, <1>4 DEF PwrType
  <2>4. dark' \in Nat /\ both' \in Nat
    <3> HIDE DEF night, two
    <3> QED
      BY <1>1, <1>7, <1>8
  <2> QED
    BY <1>1, <1>4, <2>1, <2>2, <2>3, <2>4 DEF PwrType
<1>10. \A q \in Providers : PointInv(q)'
  <2>1. \A q \in Providers : processed'[q] = FALSE
    BY <1>4
  <2> QED
    BY <1>1, <1>4, <2>1 DEF PointInv, StatusInv, DoneInv, LimiterInv
\* The bus is dark: somebody waits, and not for much longer.
<1>11. ASSUME night
       PROVE  dark + 1 <= Longest /\ \A q \in Providers : DarkPoint(q)'
  <2>1. PICK q \in Providers : allowed[q] /\ det[q]
    BY <1>11 DEF Pwr!Willing
  <2>2. \A s \in Providers : power_status[s] # "OVERLOAD"
    BY <1>11 DEF Pwr!Overloaded
  <2>3. power_status[q] \in {"DISALLOWED", "OVERPROVISION"}
    BY <1>1, <1>3, <1>11, <2>1, <2>2 DEF PwrType, Statuses
  <2>4. CASE power_status[q] = "DISALLOWED"
    <3>1. Waking(q)
      BY <2>1, <2>4, WakingIs
    <3>2. dark = 0
      BY <1>2, <3>1 DEF PwrInv, WakingInv
    <3> QED
      BY <1>3, <1>4, <1>2, <1>11, <2>2, <3>2, Limits DEF DarkPoint
  <2>5. CASE power_status[q] = "OVERPROVISION"
    <3>1. re_enable[q] \in Nat /\ re_enable[q] # 0 /\ re_enable[q] + dark <= Longest
      BY <1>3, <1>6, <2>5 DEF PwrInv, DarkInv
    <3>2. dark + 1 <= Longest
      BY <1>1, <3>1, Limits
    <3> QED
      BY <1>3, <1>4, <1>2, <1>11, <2>2, <3>2 DEF DarkPoint
  <2> QED
    BY <2>3, <2>4, <2>5
<1>12. DarkInv'
  <2>1. CASE night
    <3>1. dark' = dark + 1
      BY <1>7, <2>1
    <3>2. \A q \in Providers : power_status'[q] = "OVERPROVISION" => re_enable'[q] + (dark + 1) <= Longest
      <4> SUFFICES ASSUME NEW q \in Providers, power_status[q] = "OVERPROVISION"
                   PROVE  re_enable'[q] + (dark + 1) <= Longest
        BY <1>4
      <4>1. re_enable[q] + dark <= Longest
        BY DEF PwrInv, DarkInv
      <4> QED
        BY <1>1, <1>6, <4>1, Limits
    <3> QED
      BY <1>11, <2>1, <3>1, <3>2 DEF DarkInv, Longest
  <2>2. CASE ~ night
    <3>1. dark' = 0
      BY <1>7, <2>2
    <3>2. \A q \in Providers : power_status'[q] = "OVERPROVISION" => re_enable'[q] + 0 <= Longest
      <4> SUFFICES ASSUME NEW q \in Providers, power_status[q] = "OVERPROVISION"
                   PROVE  re_enable'[q] + 0 <= Longest
        BY <1>4
      <4>1. re_enable[q] + dark <= Longest
        BY DEF PwrInv, DarkInv
      <4> QED
        BY <1>1, <1>6, <4>1, Limits
    <3> QED
      BY <3>1, <3>2, Limits DEF DarkInv, Longest
  <2> QED
    BY <2>1, <2>2
<1>13. WakingInv'
  <2> SUFFICES ASSUME NEW q \in Providers, Waking(q)'
               PROVE  dark' <= 1 /\ both' <= 1 /\ (processed'[q] => dark' = 0 /\ both' = 0)
    BY DEF WakingInv
  <2>1. Waking(q)
    BY <1>4 DEF Waking, Pwr!StatusAtFirst, Pwr!pin_fault
  <2>2. dark = 0 /\ both = 0
    BY <1>2, <2>1 DEF PwrInv, WakingInv
  <2>3. processed'[q] = FALSE
    BY <1>4
  <2> HIDE DEF night, two
  <2> QED
    BY <1>7, <1>8, <2>2, <2>3
\* One that is alone in the end is alone on the bus.
<1>14. Alone => ~ two
  <2> SUFFICES ASSUME NEW w \in Providers, \A q \in Providers \ {w} : Yields(q), two
               PROVE  FALSE
    BY DEF Alone
  <2>1. Pwr!Powered \subseteq {w}
    <3> SUFFICES ASSUME NEW q \in Pwr!Powered, q # w
                 PROVE  FALSE
      OBVIOUS
    <3>1. q \in Providers /\ Active(q) /\ ~ Rising(q)
      BY <1>3 DEF Pwr!Powered, Rising
    <3> QED
      BY <1>2, <3>1 DEF Yields
  <2> QED
    BY <2>1
<1>15. ASSUME two, both >= 1
       PROVE  both <= Slowest /\ \A q \in Providers : Active(q) => next_shutdown[q] + both <= Slowest + 1
  <2>1. PICK q \in Providers : Active(q)
    <3>1. Pwr!Powered # {}
      BY <1>15
    <3> QED
      BY <1>3, <3>1 DEF Pwr!Powered
  <2>2. \A s \in Providers : next_shutdown[s] <= Slowest
    BY DEF PwrInv, BothInv
  <2>3. CASE both = 1
    BY <1>5, <2>2, <2>3, Limits
  <2>4. CASE both > 1
    <3>1. \A s \in Providers : Active(s) => next_shutdown[s] + both <= Slowest + 1
      BY <1>2, <1>14, <1>15, <2>4 DEF PwrInv, BothInv, Soon
    <3>2. next_shutdown[q] + both <= Slowest + 1 /\ next_shutdown[q] \in Nat /\ next_shutdown[q] # 0
      BY <1>3, <1>5, <2>1, <3>1
    <3> QED
      BY <1>1, <3>1, <3>2, Limits
  <2> QED
    BY <1>1, <1>15, <2>3, <2>4
<1>16. BothInv'
  <2>1. \A q \in Providers : next_shutdown'[q] <= Slowest
    <3>1. \A q \in Providers : next_shutdown[q] <= Slowest
      BY DEF PwrInv, BothInv
    <3> QED
      BY <1>5, <3>1, Limits
  <2>2. \A q \in Providers : SteadyPoint(q)'
    BY <1>3, <1>4 DEF SteadyPoint, Rising
  <2>3. both' <= Slowest + 1
    <3>1. two /\ both >= 1 => both <= Slowest
      BY <1>15
    <3> HIDE DEF two
    <3> QED
      BY <1>1, <1>8, <3>1, Limits
  <2>4. ASSUME both' > 1
        PROVE  \A q \in Providers : Soon(q)'
    <3>1. two /\ both >= 1 /\ both' = both + 1
      <4> HIDE DEF two
      <4> QED
        BY <1>1, <1>8, <2>4
    <3> SUFFICES ASSUME NEW q \in Providers, Active(q)
                 PROVE  next_shutdown'[q] + both' <= Slowest + 1
      BY <1>4 DEF Soon, Active, Slowest
    <3>2. next_shutdown[q] + both <= Slowest + 1
      BY <1>15, <3>1
    <3> QED
      BY <1>1, <1>5, <3>1, <3>2, Limits
  <2> QED
    BY <2>1, <2>2, <2>3, <2>4 DEF BothInv, Slowest
<1> QED
  BY <1>9, <1>10, <1>12, <1>13, <1>16 DEF PwrInv

LEMMA PwrStep ==
  ASSUME PwrTimes, PwrInv, [Pwr!Next]_(Pwr!vars)
  PROVE  PwrInv'
<1>1. CASE Pwr!Next
  BY <1>1, TickKeeps, EnvironmentKeeps, RampUpKeeps, RampedUpKeeps, PoweringKeeps,
     NotPoweringKeeps, ShutdownKeeps, AllowedKeeps, SentKeeps DEF Pwr!Next
<1>2. CASE UNCHANGED Pwr!vars
  <2>1. UNCHANGED <<allowed, power_status, prev_power_status, power_on_complete, next_shutdown,
                    power_switch_time, re_enable, rawFrame, received, en, det, processed, shorted,
                    dark, both, revoked>>
    BY <1>2 DEF Pwr!vars, Pwr!timers, Pwr!wire, Pwr!outside
  <2>2. \A q \in Providers : SameAt(q)
    BY <2>1 DEF SameAt
  <2>3. PwrType' /\ \A q \in Providers : PointInv(q)'
    BY <2>1, <2>2, PointSame DEF PwrInv, PwrType
  <2>4. DarkInv' /\ WakingInv'
    BY <2>1 DEF PwrInv, DarkInv, DarkPoint, WakingInv, Waking, Pwr!StatusAtFirst, Pwr!pin_fault, Longest
  <2>5. BothInv'
    BY <2>1 DEF PwrInv, BothInv, SteadyPoint, Rising, Alone, Yields, Active, Soon, Slowest
  <2> QED
    BY <2>3, <2>4, <2>5 DEF PwrInv
<1> QED
  BY <1>1, <1>2

LEMMA PwrInitially ==
  ASSUME PwrTimes, Pwr!Init
  PROVE  PwrInv
<1>1. PwrType
  BY DEF Pwr!Init, PwrType, Statuses
<1>2. \A p \in Providers : PointInv(p)
  BY DEF Pwr!Init, PointInv, StatusInv, DoneInv, LimiterInv
<1>3. DarkInv
  BY Limits DEF Pwr!Init, DarkInv
<1>4. WakingInv
  BY DEF Pwr!Init, WakingInv
<1>5. BothInv
  BY Limits DEF Pwr!Init, BothInv
<1> QED
  BY <1>1, <1>2, <1>3, <1>4, <1>5 DEF PwrInv

(***************************************************************************)
(* For any number of providers, in watchdog mode or not, and any times:    *)
(* once an overload is over the bus has power again after the longest wait *)
(* for the shutdown frames to stop, two providers power it together no     *)
(* longer than until the next frame and one tick more, and limiters follow *)
(* the status (power_process, power_handle_packet).                        *)
(***************************************************************************)
THEOREM BusIsPowered == PwrTimes => (Pwr!Spec => []Pwr!PowerSound)
<1> SUFFICES ASSUME PwrTimes
             PROVE  Pwr!Spec => []Pwr!PowerSound
  OBVIOUS
<1>1. Pwr!Init => PwrInv
  BY PwrInitially
<1>2. PwrInv /\ [Pwr!Next]_(Pwr!vars) => PwrInv'
  BY PwrStep
<1>3. PwrInv => Pwr!PowerSound
  <2> SUFFICES ASSUME PwrInv
               PROVE  Pwr!PowerSound
    OBVIOUS
  <2>1. Pwr!AlwaysPowered
    BY Limits DEF PwrInv, DarkInv, Pwr!AlwaysPowered
  <2>2. Pwr!NoFighting
    BY Limits DEF PwrInv, BothInv, Pwr!NoFighting
  <2>3. Pwr!LimiterFollows
    BY DEF PwrInv, PwrType, PointInv, StatusInv, DoneInv, LimiterInv, Pwr!LimiterFollows
  <2> QED
    BY <2>1, <2>2, <2>3 DEF Pwr!PowerSound
<1> QED
  BY <1>1, <1>2, <1>3, PTL DEF Pwr!Spec

-----------------------------------------------------------------------------
(***************************************************************************)
(* The status light, the LED and the pins of a light (JdLights).           *)
(***************************************************************************)
CONSTANTS Kinds, Targets, Speeds, PROTECT_FOR, MaxAsked
VARIABLES kind, s, asked

Lts == INSTANCE JdLights

\* Brightness, speeds and times are not negative.
LtsNumbers ==
  Targets \subseteq Nat /\ Speeds \subseteq Nat /\ PROTECT_FOR \in Nat /\ MaxAsked \in Nat

GlowValues == Lts!Glows \cup {Lts!NoGlow}

Light ==
  [value : Nat, speed : Int, target : Nat, color_override : 0 .. 3, lit : Nat, in_tim : BOOLEAN,
   locks : Int, glow : GlowValues \cup {Lts!PROTECT}, glow_ch : [1 .. 2 -> GlowValues],
   glow_phase : 0 .. 1, glow_step : Nat, queued_blinks : [1 .. 3 -> 0 .. 3], blink_rep : Nat]

\* The lock on the timer is held exactly while the light is marked as using it.
Locked(t) == t.locks = IF t.in_tim THEN 1 ELSE 0

\* The LED shows the state and the mark is right.
Lit(t) ==
  /\ t.lit = IF t.color_override # 0 THEN 65280 ELSE t.value
  /\ t.in_tim <=> (t.lit * 255) \div 32768 # 0
  /\ Locked(t)

\* The channel moves towards its target and is not past it.
Moving(t) ==
  /\ t.speed > 0 => t.value \div 256 <= t.target
  /\ t.speed < 0 => t.value \div 256 >= t.target

Glowing(t) == t.glow \in {Lts!PROTECT, Lts!TopGlow(t)}

\* What a client has set stays while the light is protected.
Protected(t, to) == t.glow = Lts!PROTECT => t.target = to

\* The parts of a light that an animation leaves alone, and those that showing it does.
SameShow(t, u) == u.color_override = t.color_override /\ u.lit = t.lit /\ u.in_tim = t.in_tim /\ u.locks = t.locks
SameGlow(t, u) == u.glow = t.glow /\ u.glow_ch = t.glow_ch /\ u.glow_step = t.glow_step
SameChannel(t, u) == u.value = t.value /\ u.speed = t.speed /\ u.target = t.target

\* rgbled_show makes the LED show the state, and keeps the lock balanced.
LEMMA ShowLit ==
  ASSUME NEW t \in Light, Locked(t)
  PROVE  LET u == Lts!rgbled_show(t) IN
         u \in Light /\ Lit(u) /\ SameGlow(t, u) /\ SameChannel(t, u)
           /\ u.color_override = t.color_override
<1> DEFINE c == IF t.color_override # 0 THEN 65280 ELSE t.value
           sum == (c * 255) \div 32768
           locks == CASE sum = 0 /\ t.in_tim -> t.locks - 1
                      [] sum # 0 /\ ~ t.in_tim -> t.locks + 1
                      [] OTHER -> t.locks
           u == Lts!rgbled_show(t)
<1>1. c \in Nat /\ sum \in Nat /\ t.in_tim \in BOOLEAN /\ t.locks \in Int
  BY DEF Light
<1>2. locks = IF sum # 0 THEN 1 ELSE 0
  BY <1>1 DEF Locked
<1>3. u = [t EXCEPT !.lit = c, !.locks = locks, !.in_tim = sum # 0]
  BY DEF Lts!rgbled_show
<1>4. (sum # 0) \in BOOLEAN /\ locks \in Int
  BY <1>1, <1>2
<1> HIDE DEF c, sum, locks, u
<1>5. u \in Light
  BY <1>1, <1>3, <1>4 DEF Light
<1>6. /\ u.lit = c /\ u.locks = locks /\ u.in_tim = (sum # 0) /\ SameGlow(t, u) /\ SameChannel(t, u)
      /\ u.color_override = t.color_override
  BY <1>3 DEF Light, SameGlow, SameChannel
<1>7. Lit(u)
  <2>1. u.lit = IF u.color_override # 0 THEN 65280 ELSE u.value
    BY <1>6 DEF c, SameChannel
  <2>2. (u.lit * 255) \div 32768 = sum
    BY <1>6 DEF sum
  <2>3. Locked(u)
    BY <1>2, <1>6 DEF Locked
  <2>4. u.in_tim <=> (u.lit * 255) \div 32768 # 0
    <3>1. u.in_tim <=> sum # 0
      BY <1>6
    <3> QED
      BY <2>2, <3>1
  <2> QED
    BY <2>1, <2>3, <2>4 DEF Lit
<1> QED
  BY <1>5, <1>6, <1>7 DEF u

\* The sign of a product with a natural number.
LEMMA ProductSign ==
  ASSUME NEW a \in Int, NEW b \in Nat
  PROVE  /\ a * b \in Int
         /\ a <= 0 => a * b <= 0
         /\ a >= 0 => a * b >= 0
<1>1. CASE a <= 0
  BY <1>1, SMTT(30)
<1>2. CASE a >= 0
  BY <1>2, SMTT(30)
<1> QED
  BY <1>1, <1>2

\* jd_status_set starts a movement towards the target, whatever the speed.
LEMMA SetMoves ==
  ASSUME NEW t \in Light, NEW to \in Nat, NEW sp \in Nat
  PROVE  LET u == Lts!jd_status_set(t, to, sp) IN
         /\ u \in Light /\ Moving(u) /\ u.target = to /\ u.value = t.value
         /\ SameGlow(t, u) /\ SameShow(t, u)
<1> DEFINE d == to - (t.value \div 256)
           v == (d * sp) \div 2
           u == Lts!jd_status_set(t, to, sp)
<1>1. t.value \in Nat /\ t.value \div 256 \in Nat /\ d \in Int
  BY DEF Light
<1>2. d * sp \in Int /\ (d <= 0 => d * sp <= 0) /\ (d >= 0 => d * sp >= 0)
  <2> HIDE DEF d
  <2> QED
    BY <1>1, ProductSign
<1>3. v \in Int /\ (v > 0 => d > 0) /\ (v < 0 => d < 0)
  <2> DEFINE x == d * sp
  <2>1. x \in Int /\ (d <= 0 => x <= 0) /\ (d >= 0 => x >= 0) /\ d \in Int
    BY <1>1, <1>2
  <2> HIDE DEF x, d
  <2>2. x \div 2 \in Int /\ (x \div 2 > 0 => d > 0) /\ (x \div 2 < 0 => d < 0)
    BY <2>1
  <2> QED
    BY <2>2 DEF x
<1>4. u = [t EXCEPT !.target = to, !.speed = v]
  BY DEF Lts!jd_status_set
<1> HIDE DEF v, u
<1>5. u \in Light /\ u.target = to /\ u.speed = v /\ u.value = t.value /\ SameGlow(t, u) /\ SameShow(t, u)
  BY <1>3, <1>4 DEF Light, SameGlow, SameShow
<1>6. Moving(u)
  BY <1>1, <1>3, <1>5 DEF Moving
<1> QED
  BY <1>5, <1>6 DEF u

\* A frame moves the channel, but not past its target.
LEMMA StepMoves ==
  ASSUME NEW t \in Light, Moving(t)
  PROVE  LET u == Lts!StepChannel(t) IN
         u \in Light /\ Moving(u) /\ u.target = t.target /\ SameGlow(t, u) /\ SameShow(t, u)
<1> DEFINE u == Lts!StepChannel(t)
           v == t.value + t.speed
<1>1. t.value \in Nat /\ t.speed \in Int /\ t.target \in Nat
  BY DEF Light
<1>2. CASE \/ t.speed = 0
           \/ t.speed < 0 /\ v \div 256 < t.target
           \/ t.speed > 0 /\ v \div 256 > t.target
  <2> DEFINE n == t.target * 256
  <2>1. u = [t EXCEPT !.speed = 0, !.value = n]
    BY <1>2 DEF Lts!StepChannel
  <2>2. n \in Nat /\ 0 \in Int
    BY <1>1
  <2> HIDE DEF n, u
  <2>3. /\ u \in Light /\ u.speed = 0 /\ u.target = t.target /\ SameGlow(t, u) /\ SameShow(t, u)
    BY <2>1, <2>2 DEF Light, SameGlow, SameShow
  <2> QED
    BY <2>3 DEF Moving, u
<1>3. CASE ~ \/ t.speed = 0
             \/ t.speed < 0 /\ v \div 256 < t.target
             \/ t.speed > 0 /\ v \div 256 > t.target
  <2>1. u = [t EXCEPT !.value = v]
    BY <1>3 DEF Lts!StepChannel
  <2>2. v \in Nat
    BY <1>1, <1>3
  <2> HIDE DEF u, v
  <2>3. /\ u \in Light /\ u.speed = t.speed /\ u.target = t.target /\ u.value = v
        /\ SameGlow(t, u) /\ SameShow(t, u)
    BY <2>1, <2>2 DEF Light, SameGlow, SameShow
  <2>4. Moving(u)
    BY <1>1, <1>3, <2>2, <2>3 DEF Moving, v
  <2> QED
    BY <2>3, <2>4 DEF u
<1> QED
  BY <1>2, <1>3

\* So does showing it where it has changed.
LEMMA ShownMoves ==
  ASSUME NEW t \in Light, Moving(t), Lit(t)
  PROVE  LET u == Lts!Shown(t, Lts!StepChannel(t)) IN
         u \in Light /\ Moving(u) /\ Lit(u) /\ u.target = t.target /\ SameGlow(t, u)
<1> DEFINE w == Lts!StepChannel(t)
           u == Lts!Shown(t, w)
<1>1. w \in Light /\ Moving(w) /\ w.target = t.target /\ SameGlow(t, w) /\ SameShow(t, w)
  BY StepMoves
<1> HIDE DEF w
<1>2. CASE w.value # t.value
  <2>1. u = Lts!rgbled_show(w)
    BY <1>2 DEF Lts!Shown
  <2>2. Locked(w)
    BY <1>1 DEF Lit, Locked, SameShow
  <2>3. u \in Light /\ Lit(u) /\ SameGlow(w, u) /\ SameChannel(w, u)
    BY <1>1, <2>1, <2>2, ShowLit
  <2> QED
    BY <1>1, <2>3 DEF Moving, SameGlow, SameChannel, w
<1>3. CASE w.value = t.value
  <2>1. u = w
    BY <1>3 DEF Lts!Shown
  <2> QED
    BY <1>1, <1>3, <2>1 DEF Lit, Locked, SameShow, w
<1> QED
  BY <1>2, <1>3

\* What keeps a light lit as it is.
LEMMA StaysLit ==
  ASSUME NEW t, NEW u, Lit(t), SameShow(t, u), u.value = t.value
  PROVE  Lit(u)
BY DEF Lit, Locked, SameShow

\* re_glow takes the most important glow, unless the light is protected.
LEMMA ReGlow ==
  ASSUME NEW t \in Light, Moving(t)
  PROVE  LET u == Lts!re_glow(t) IN
         /\ u \in Light /\ Moving(u) /\ Glowing(u) /\ SameShow(t, u) /\ u.value = t.value
         /\ IF t.glow = Lts!PROTECT THEN u = t ELSE u.glow # Lts!PROTECT
<1> DEFINE u == Lts!re_glow(t)
           w == IF t.glow = Lts!TopGlow(t) THEN t
                ELSE [t EXCEPT !.glow = Lts!TopGlow(t), !.glow_phase = 0, !.glow_step = 0]
<1>1. CASE t.glow = Lts!PROTECT
  BY <1>1 DEF Lts!re_glow, Glowing, SameShow
<1>2. CASE t.glow # Lts!PROTECT
  <2>1. Lts!TopGlow(t) \in GlowValues
    BY DEF Lts!TopGlow, Light
  <2>2. /\ w \in Light /\ SameChannel(t, w) /\ SameShow(t, w)
        /\ w.glow = Lts!TopGlow(t) /\ w.glow_ch = t.glow_ch
    <3>1. CASE t.glow = Lts!TopGlow(t)
      BY <3>1 DEF SameChannel, SameShow
    <3>2. CASE t.glow # Lts!TopGlow(t)
      <4> DEFINE top == Lts!TopGlow(t)
      <4>1. w = [t EXCEPT !.glow = top, !.glow_phase = 0, !.glow_step = 0]
        BY <3>2
      <4>2. top \in GlowValues \cup {Lts!PROTECT} /\ 0 \in 0 .. 1 /\ 0 \in Nat
        BY <2>1
      <4> HIDE DEF w, top
      <4>3. w \in Light /\ SameChannel(t, w) /\ SameShow(t, w) /\ w.glow = top /\ w.glow_ch = t.glow_ch
        BY <4>1, <4>2 DEF Light, SameChannel, SameShow
      <4> QED
        BY <4>3 DEF top, w
    <3> QED
      BY <3>1, <3>2
  <2> HIDE DEF w
  <2>3. Lts!TopGlow(t) # Lts!PROTECT
    BY <2>1 DEF GlowValues, Lts!Glows, Lts!NoGlow, Lts!PROTECT
  <2>4. CASE w.glow = Lts!NoGlow
    <3>1. u = Lts!jd_status_set(w, 0, 100)
      BY <1>2, <2>4 DEF Lts!re_glow, w
    <3>2. u \in Light /\ Moving(u) /\ u.value = w.value /\ SameGlow(w, u) /\ SameShow(w, u)
      BY <2>2, <3>1, SetMoves
    <3> QED
      BY <1>2, <2>2, <2>3, <3>2 DEF Glowing, Lts!TopGlow, SameGlow, SameShow, SameChannel
  <2>5. CASE w.glow # Lts!NoGlow
    <3>1. u = w
      BY <1>2, <2>5 DEF Lts!re_glow, w
    <3> QED
      BY <1>2, <2>2, <2>3, <3>1 DEF Glowing, Lts!TopGlow, SameShow, SameChannel, Moving
  <2> QED
    BY <2>4, <2>5
<1> QED
  BY <1>1, <1>2

\* A frame's share of the glow: when the protection ends the glow takes over.
LEMMA GlowSteps ==
  ASSUME NEW t \in Light, Moving(t), Glowing(t), NEW to, Protected(t, to)
  PROVE  LET u == Lts!GlowStep(t) IN
         /\ u \in Light /\ Moving(u) /\ Glowing(u) /\ Protected(u, to)
         /\ SameShow(t, u) /\ u.value = t.value
<1> DEFINE u == Lts!GlowStep(t)
<1>0. t.glow \in Lts!Glows \cup {Lts!NoGlow, Lts!PROTECT} /\ t.glow_step \in Nat /\ t.glow_phase \in 0 .. 1
  BY DEF Light, GlowValues
<1>1. CASE t.glow = Lts!NoGlow \/ t.glow_step > 0
  <2>1. u = t
    BY <1>0, <1>1 DEF Lts!GlowStep, Lts!PROTECT, Lts!NoGlow, Lts!Glows
  <2> QED
    BY <2>1 DEF SameShow
<1>2. CASE t.glow = Lts!PROTECT /\ t.glow_step = 0
  <2> DEFINE w == [t EXCEPT !.glow = Lts!NoGlow]
  <2>1. u = Lts!re_glow(w)
    BY <1>0, <1>2 DEF Lts!GlowStep, Lts!PROTECT, Lts!NoGlow, Lts!Glows
  <2>2. /\ w \in Light /\ SameChannel(t, w) /\ SameShow(t, w) /\ w.glow = Lts!NoGlow
    BY DEF Light, SameChannel, SameShow, GlowValues
  <2> HIDE DEF w
  <2>3. Moving(w) /\ w.glow # Lts!PROTECT
    BY <2>2 DEF Moving, SameChannel, Lts!NoGlow, Lts!PROTECT
  <2>4. /\ u \in Light /\ Moving(u) /\ Glowing(u) /\ SameShow(w, u) /\ u.value = w.value
        /\ u.glow # Lts!PROTECT
    BY <2>1, <2>2, <2>3, ReGlow
  <2> QED
    BY <2>2, <2>4 DEF SameShow, SameChannel, Protected
<1>3. CASE t.glow \in Lts!Glows /\ t.glow_step = 0
  <2> DEFINE step == IF t.glow = "on" /\ ~ (t.glow_phase = 1) THEN 0 ELSE 1
             w == [t EXCEPT !.glow_step = step, !.glow_phase = 1 - t.glow_phase]
             to1 == IF t.glow_phase = 1 THEN 8 ELSE 0
             sp == IF t.glow = "on" THEN 50 ELSE 0
  <2>1. u = Lts!jd_status_set(w, to1, sp)
    BY <1>3 DEF Lts!GlowStep, Lts!PROTECT, Lts!NoGlow, Lts!Glows
  <2>2. to1 \in Nat /\ sp \in Nat /\ step \in Nat /\ 1 - t.glow_phase \in 0 .. 1
    BY <1>0
  <2> HIDE DEF to1, sp, step
  <2>3. /\ w \in Light /\ SameShow(t, w) /\ w.value = t.value /\ w.glow = t.glow
        /\ w.glow_ch = t.glow_ch
    BY <2>2 DEF Light, SameShow
  <2> HIDE DEF w, u
  <2>4. u \in Light /\ Moving(u) /\ u.value = w.value /\ SameGlow(w, u) /\ SameShow(w, u)
    BY <2>1, <2>2, <2>3, SetMoves
  <2>5. Glowing(u) /\ Protected(u, to)
    BY <1>3, <2>3, <2>4
    DEF Glowing, Protected, Lts!TopGlow, SameGlow, Lts!PROTECT, Lts!Glows
  <2> QED
    BY <2>3, <2>4, <2>5 DEF SameShow, u
<1> QED
  BY <1>0, <1>1, <1>2, <1>3 DEF Lts!PROTECT, Lts!NoGlow, Lts!Glows

\* A blink's colour overrides the channel and leaves it alone.
LEMMA BlinkColour ==
  ASSUME NEW t \in Light, Lit(t), NEW c \in 0 .. 3
  PROVE  LET u == Lts!set_blink_color(t, c) IN
         u \in Light /\ Lit(u) /\ SameGlow(t, u) /\ SameChannel(t, u)
<1> DEFINE w == [t EXCEPT !.color_override = c]
<1>1. w \in Light /\ SameGlow(t, w) /\ SameChannel(t, w) /\ w.in_tim = t.in_tim /\ w.locks = t.locks
  BY DEF Light, SameGlow, SameChannel
<1>2. Lts!set_blink_color(t, c) = Lts!rgbled_show(w)
  BY DEF Lts!set_blink_color
<1> HIDE DEF w
<1>3. Locked(w)
  BY <1>1 DEF Lit, Locked
<1> QED
  BY <1>1, <1>2, <1>3, ShowLit DEF SameGlow, SameChannel

LEMMA BlinkSteps ==
  ASSUME NEW t \in Light, Lit(t)
  PROVE  LET u == Lts!BlinkStep(t) IN
         u \in Light /\ Lit(u) /\ SameGlow(t, u) /\ SameChannel(t, u)
<1> DEFINE e == t.queued_blinks[1]
           t1 == Lts!set_blink_color(t, e)
           t2 == Lts!set_blink_color(t1, 0)
           c == IF t.blink_rep % 2 = 1 THEN 0 ELSE e
           t3 == Lts!set_blink_color(t, c)
           w == IF Lts!Faint(e) THEN [t2 EXCEPT !.blink_rep = (t2.blink_rep + 2) % 256]
                ELSE [t3 EXCEPT !.blink_rep = (t3.blink_rep + 1) % 256]
           u == Lts!BlinkStep(t)
<1>1. e \in 0 .. 3 /\ 0 \in 0 .. 3 /\ c \in 0 .. 3
  BY DEF Light
<1>a. u = IF w.blink_rep \div 2 >= Lts!_JD_BLINK_REPETITIONS(e)
          THEN [w EXCEPT !.queued_blinks = <<w.queued_blinks[2], w.queued_blinks[3], w.queued_blinks[3]>>]
          ELSE w
  BY DEF Lts!BlinkStep
<1> HIDE DEF e, c
<1>2. t1 \in Light /\ Lit(t1) /\ SameGlow(t, t1) /\ SameChannel(t, t1)
  BY <1>1, BlinkColour
<1>3. t3 \in Light /\ Lit(t3) /\ SameGlow(t, t3) /\ SameChannel(t, t3)
  BY <1>1, BlinkColour
<1> HIDE DEF t1, t3
<1>4. t2 \in Light /\ Lit(t2) /\ SameGlow(t1, t2) /\ SameChannel(t1, t2)
  BY <1>1, <1>2, BlinkColour
<1> HIDE DEF t2
<1>5. w \in Light /\ Lit(w) /\ SameGlow(t, w) /\ SameChannel(t, w)
  <2>1. CASE Lts!Faint(e)
    <3>1. w = [t2 EXCEPT !.blink_rep = (t2.blink_rep + 2) % 256] /\ (t2.blink_rep + 2) % 256 \in Nat
      BY <1>4, <2>1 DEF Light
    <3> HIDE DEF w
    <3> QED
      BY <1>2, <1>4, <3>1 DEF Light, Lit, Locked, SameGlow, SameChannel
  <2>2. CASE ~ Lts!Faint(e)
    <3>1. w = [t3 EXCEPT !.blink_rep = (t3.blink_rep + 1) % 256] /\ (t3.blink_rep + 1) % 256 \in Nat
      BY <1>3, <2>2 DEF Light
    <3> HIDE DEF w
    <3> QED
      BY <1>3, <3>1 DEF Light, Lit, Locked, SameGlow, SameChannel
  <2> QED
    BY <2>1, <2>2
<1> HIDE DEF w
<1>6. <<w.queued_blinks[2], w.queued_blinks[3], w.queued_blinks[3]>> \in [1 .. 3 -> 0 .. 3]
  <2>1. w.queued_blinks \in [1 .. 3 -> 0 .. 3]
    BY <1>5 DEF Light
  <2> QED
    BY <2>1
<1> QED
  BY <1>a, <1>5, <1>6 DEF Light, Lit, Locked, SameGlow, SameChannel

\* Queueing a pattern changes nothing that is seen.
LEMMA QueuesBlink ==
  ASSUME NEW t \in Light, NEW e \in 0 .. 3
  PROVE  LET u == Lts!Blinked(t, e) IN
         u \in Light /\ SameGlow(t, u) /\ SameChannel(t, u) /\ SameShow(t, u)
<1> DEFINE free == {i \in 1 .. 3 : t.queued_blinks[i] = 0}
           i == CHOOSE k \in free : \A j \in free : k <= j
           u == Lts!Blinked(t, e)
<1>1. \/ u = t
      \/ u = [t EXCEPT !.queued_blinks[1] = e, !.blink_rep = 0]
      \/ u = [t EXCEPT !.queued_blinks[i] = e]
  BY DEF Lts!Blinked
<1> HIDE DEF i, u
<1>2. t.queued_blinks \in [1 .. 3 -> 0 .. 3]
  BY DEF Light
<1>3. /\ [t.queued_blinks EXCEPT ![1] = e] \in [1 .. 3 -> 0 .. 3]
      /\ [t.queued_blinks EXCEPT ![i] = e] \in [1 .. 3 -> 0 .. 3]
  BY <1>2
<1>4. \/ u = t
      \/ u = [t EXCEPT !.queued_blinks = [t.queued_blinks EXCEPT ![1] = e], !.blink_rep = 0]
      \/ u = [t EXCEPT !.queued_blinks = [t.queued_blinks EXCEPT ![i] = e]]
  BY <1>1
<1>5. u \in Light /\ SameGlow(t, u) /\ SameChannel(t, u) /\ SameShow(t, u)
  <2> DEFINE q1 == [t.queued_blinks EXCEPT ![1] = e]
             qi == [t.queued_blinks EXCEPT ![i] = e]
  <2>1. q1 \in [1 .. 3 -> 0 .. 3] /\ qi \in [1 .. 3 -> 0 .. 3]
    BY <1>3
  <2>2. CASE u = t
    BY <2>2 DEF SameGlow, SameChannel, SameShow
  <2>3. CASE u = [t EXCEPT !.queued_blinks = q1, !.blink_rep = 0]
    <3> HIDE DEF q1
    <3> QED
      BY <2>1, <2>3 DEF Light, SameGlow, SameChannel, SameShow
  <2>4. CASE u = [t EXCEPT !.queued_blinks = qi]
    <3> HIDE DEF qi
    <3> QED
      BY <2>1, <2>4 DEF Light, SameGlow, SameChannel, SameShow
  <2> QED
    BY <1>4, <2>2, <2>3, <2>4
<1> QED
  BY <1>5 DEF u

Channel == [duty : 0 .. 256, on : BOOLEAN, pin : BOOLEAN]

Rgb ==
  [mono : BOOLEAN, high : BOOLEAN, in_tim : BOOLEAN, locks : Int, pin : BOOLEAN,
   ch : [1 .. 3 -> Channel]]

Black == <<0, 0, 0>>

\* The pins show the colour v.
Pins(t, v) ==
  /\ t.mono => ((t.pin = t.high) <=> v # Black)
  /\ ~ t.mono => \A i \in 1 .. 3 : Lts!Brightness(t, t.ch[i]) = v[i]

PinsInv ==
  /\ s \in Rgb /\ asked.to \in Lts!Colours
  /\ s.in_tim <=> asked.to # Black
  /\ ~ s.mono => Locked(s)
  /\ asked.times > 0 => Pins(s, asked.to)

LightInv ==
  /\ s \in Light /\ Lit(s) /\ Moving(s) /\ Glowing(s) /\ Protected(s, asked.to)
  /\ kind = "led" => s.target = asked.to

LtsInv ==
  /\ asked = [to |-> asked.to, times |-> asked.times] /\ asked.times \in Nat
  /\ IF kind = "rgb" THEN PinsInv ELSE LightInv

\* A channel of a light of three colours is as bright as it was set, whichever level lights it.
LEMMA ChannelBright ==
  ASSUME NEW t \in Rgb, NEW u, u.high = t.high, NEW ch \in Channel,
         NEW v \in 0 .. 255
  PROVE  LET c == Lts!SetChannel(t, ch, v) IN
         c \in Channel /\ Lts!Brightness(u, c) = v
<1> DEFINE d == IF t.high THEN (IF v >= 256 THEN 255 ELSE v) ELSE 256 - v
           pin == IF d = 0 THEN ~ t.high ELSE ch.pin
           c == Lts!SetChannel(t, ch, v)
<1>1. t.high \in BOOLEAN /\ ch.pin \in BOOLEAN
  BY DEF Rgb, Channel
<1>2. d \in 0 .. 256 /\ (t.high => d = v) /\ (~ t.high => d = 256 - v)
  BY <1>1
<1>3. c = [duty |-> d, on |-> d # 0, pin |-> pin]
  BY DEF Lts!SetChannel, Lts!LED_PERIOD
<1>4. pin \in BOOLEAN /\ (d # 0) \in BOOLEAN
  BY <1>1
<1> HIDE DEF d, pin, c
<1>5. c \in Channel /\ c.duty = d /\ c.pin = pin /\ c.on = (d # 0)
  BY <1>2, <1>3, <1>4 DEF Channel
<1>6. CASE d = 0
  <2>1. t.high /\ v = 0
    BY <1>1, <1>2, <1>6
  <2>2. ~ c.on
    BY <1>5, <1>6
  <2>3. pin = ~ t.high
    BY <1>6 DEF pin
  <2>4. ~ (c.pin = u.high)
    BY <1>1, <1>5, <2>1, <2>3
  <2> QED
    BY <1>5, <2>1, <2>2, <2>4 DEF Lts!Brightness, c
<1>7. CASE d # 0
  <2>1. c.on
    BY <1>5, <1>7
  <2> QED
    BY <1>1, <1>2, <1>5, <2>1 DEF Lts!Brightness, Lts!LED_PERIOD, c
<1> QED
  BY <1>6, <1>7

\* A new colour is on the pins, and the lock follows it.
LEMMA ColourShown ==
  ASSUME NEW t \in Rgb, ~ t.mono => Locked(t), NEW v \in Lts!Colours
  PROVE  LET u == Lts!jd_rgb_set(t, v) IN
         u \in Rgb /\ u.mono = t.mono /\ (u.in_tim <=> v # Black) /\ (~ u.mono => Locked(u)) /\ Pins(u, v)
<1> DEFINE sum == v[1] + v[2] + v[3]
           u == Lts!jd_rgb_set(t, v)
<1>1. /\ \A i \in 1 .. 3 : v[i] \in 0 .. 255
      /\ sum \in Nat /\ (sum = 0 <=> v = Black)
  BY DEF Lts!Colours, Black
<1>2. t.mono \in BOOLEAN /\ t.high \in BOOLEAN /\ t.in_tim \in BOOLEAN /\ t.locks \in Int
  BY DEF Rgb
<1>3. CASE t.mono
  <2> DEFINE pin == IF sum # 0 THEN t.high ELSE ~ t.high
  <2>1. u = [t EXCEPT !.in_tim = sum # 0, !.pin = pin]
    BY <1>3 DEF Lts!jd_rgb_set
  <2>2. pin \in BOOLEAN /\ (sum # 0) \in BOOLEAN /\ ((pin = t.high) <=> sum # 0)
    BY <1>2
  <2> HIDE DEF pin, u, sum
  <2>3. u \in Rgb /\ u.mono = t.mono /\ u.in_tim = (sum # 0) /\ u.pin = pin /\ u.high = t.high
    BY <2>1, <2>2 DEF Rgb
  <2>4. Pins(u, v)
    BY <1>1, <1>3, <2>2, <2>3 DEF Pins
  <2> QED
    BY <1>1, <1>3, <2>3, <2>4 DEF u
<1>4. CASE ~ t.mono
  <2> DEFINE ch == [i \in 1 .. 3 |-> Lts!SetChannel(t, t.ch[i], v[i])]
             locks == CASE sum = 0 /\ t.in_tim -> t.locks - 1
                        [] sum # 0 /\ ~ t.in_tim -> t.locks + 1
                        [] OTHER -> t.locks
  <2>1. u = [t EXCEPT !.ch = ch, !.locks = locks, !.in_tim = sum # 0]
    BY <1>4 DEF Lts!jd_rgb_set
  <2>2. locks = (IF sum # 0 THEN 1 ELSE 0) /\ (sum # 0) \in BOOLEAN
    BY <1>1, <1>2, <1>4 DEF Locked
  <2>3. \A i \in 1 .. 3 : t.ch[i] \in Channel
    BY DEF Rgb
  <2>4. ch \in [1 .. 3 -> Channel]
    <3> SUFFICES ASSUME NEW i \in 1 .. 3
                 PROVE  Lts!SetChannel(t, t.ch[i], v[i]) \in Channel
      OBVIOUS
    <3> DEFINE c == t.ch[i]
               x == v[i]
    <3>1. c \in Channel /\ x \in 0 .. 255
      BY <1>1, <2>3
    <3> HIDE DEF c, x
    <3>2. Lts!SetChannel(t, c, x) \in Channel
      BY <3>1, ChannelBright
    <3> QED
      BY <3>2 DEF c, x
  <2> HIDE DEF locks, u, sum, ch
  <2>5. /\ u \in Rgb /\ u.mono = t.mono /\ u.in_tim = (sum # 0) /\ u.locks = locks /\ u.high = t.high
        /\ u.ch = ch
    <3> DEFINE b == (sum # 0)
    <3>1. b \in BOOLEAN /\ locks \in Int /\ u = [t EXCEPT !.ch = ch, !.locks = locks, !.in_tim = b]
      BY <2>1, <2>2
    <3> HIDE DEF b
    <3>2. /\ u \in Rgb /\ u.mono = t.mono /\ u.in_tim = b /\ u.locks = locks /\ u.high = t.high
          /\ u.ch = ch
      BY <3>1, <2>4 DEF Rgb
    <3> QED
      BY <3>2 DEF b
  <2>6. \A i \in 1 .. 3 : Lts!Brightness(u, u.ch[i]) = v[i]
    <3> SUFFICES ASSUME NEW i \in 1 .. 3
                 PROVE  Lts!Brightness(u, u.ch[i]) = v[i]
      OBVIOUS
    <3>1. u.ch[i] = Lts!SetChannel(t, t.ch[i], v[i])
      BY <2>5 DEF ch
    <3> DEFINE c == t.ch[i]
               x == v[i]
    <3>2. c \in Channel /\ x \in 0 .. 255
      BY <1>1, <2>3
    <3> HIDE DEF c, x
    <3>3. u.high = t.high
      BY <2>5
    <3>4. Lts!Brightness(u, Lts!SetChannel(t, c, x)) = x
      BY <3>2, <3>3, ChannelBright
    <3> QED
      BY <3>1, <3>4 DEF c, x
  <2>7. Pins(u, v)
    BY <1>4, <2>5, <2>6 DEF Pins
  <2> QED
    BY <1>1, <2>2, <2>5, <2>7 DEF u, Locked
<1> QED
  BY <1>2, <1>3, <1>4

\* Every step of the status light and the LED keeps their invariant.
LEMMA LightStep ==
  LtsNumbers /\ LtsInv /\ kind # "rgb" /\ [Lts!Next]_(Lts!vars) => LtsInv'
<1> SUFFICES ASSUME LtsNumbers, LtsInv, kind # "rgb", [Lts!Next]_(Lts!vars)
             PROVE  LtsInv'
  OBVIOUS
<1>1. LightInv /\ asked = [to |-> asked.to, times |-> asked.times] /\ asked.times \in Nat
  BY DEF LtsInv
<1>2. ASSUME NEW to \in Targets, NEW sp \in Speeds, Lts!jd_status_handle_packet(to, sp)
      PROVE  LtsInv'
  <2> DEFINE w == [s EXCEPT !.glow = Lts!PROTECT, !.glow_step = PROTECT_FOR]
  <2>1. w \in Light
    BY <1>1 DEF LightInv, Light, LtsNumbers
  <2>2. w.value = s.value /\ SameShow(s, w) /\ w.glow = Lts!PROTECT
    BY <1>1 DEF LightInv, Light, SameShow
  <2>3. s' = Lts!jd_status_set(w, to, sp) /\ asked' = [to |-> to, times |-> asked.times + 1]
        /\ kind = "status" /\ kind' = kind
    BY <1>2 DEF Lts!jd_status_handle_packet
  <2>4. to \in Nat /\ sp \in Nat
    BY DEF LtsNumbers
  <2> HIDE DEF w
  <2>5. /\ s' \in Light /\ Moving(s') /\ s'.target = to /\ s'.value = w.value
        /\ SameGlow(w, s') /\ SameShow(w, s')
    BY <2>1, <2>3, <2>4, SetMoves
  <2>6. Lit(s')
    BY <1>1, <2>2, <2>5, StaysLit DEF LightInv, SameShow
  <2> QED
    BY <1>1, <2>2, <2>3, <2>5, <2>6 DEF LtsInv, LightInv, Glowing, Protected, SameGlow
<1>3. ASSUME NEW to \in Targets, NEW sp \in Speeds, Lts!led_handle_packet(to, sp)
      PROVE  LtsInv'
  <2>1. s' = Lts!jd_status_set(s, to, sp) /\ asked' = [to |-> to, times |-> asked.times + 1]
        /\ kind' = kind /\ s \in Light
    BY <1>1, <1>3 DEF Lts!led_handle_packet, Lts!led_animate, LightInv
  <2>2. to \in Nat /\ sp \in Nat
    BY DEF LtsNumbers
  <2>3. /\ s' \in Light /\ Moving(s') /\ s'.target = to /\ s'.value = s.value
        /\ SameGlow(s, s') /\ SameShow(s, s')
    BY <2>1, <2>2, SetMoves
  <2>4. Lit(s')
    BY <1>1, <2>3, StaysLit DEF LightInv
  <2>5. Glowing(s')
    BY <1>1, <2>3 DEF LightInv, Glowing, Lts!TopGlow, SameGlow
  <2> QED
    BY <1>1, <2>1, <2>3, <2>4, <2>5 DEF LtsInv, LightInv, Protected
<1>4. ASSUME NEW ch \in {1, 2}, NEW v \in Lts!Glows \cup {Lts!NoGlow}, Lts!jd_glow(ch, v)
      PROVE  LtsInv'
  <2> DEFINE w == [s EXCEPT !.glow_ch[ch] = v]
  <2>0. s \in Light /\ s.glow_ch \in [1 .. 2 -> GlowValues] /\ ch \in 1 .. 2 /\ v \in GlowValues
    BY <1>1 DEF LightInv, Light, GlowValues
  <2>1. [s.glow_ch EXCEPT ![ch] = v] \in [1 .. 2 -> GlowValues]
        /\ w = [s EXCEPT !.glow_ch = [s.glow_ch EXCEPT ![ch] = v]]
    BY <2>0
  <2>2. w \in Light /\ SameChannel(s, w) /\ SameShow(s, w) /\ w.glow = s.glow
    BY <2>0, <2>1 DEF Light, SameChannel, SameShow
  <2>3. s' = Lts!re_glow(w) /\ asked' = [asked EXCEPT !.times = asked.times + 1]
        /\ kind = "status" /\ kind' = kind
    BY <1>4 DEF Lts!jd_glow
  <2> HIDE DEF w
  <2>4. Moving(w)
    BY <1>1, <2>2 DEF LightInv, Moving, SameChannel
  <2>5. /\ s' \in Light /\ Moving(s') /\ Glowing(s') /\ SameShow(w, s') /\ s'.value = w.value
        /\ IF w.glow = Lts!PROTECT THEN s' = w ELSE s'.glow # Lts!PROTECT
    BY <2>2, <2>3, <2>4, ReGlow
  <2>6. Lit(s')
    BY <1>1, <2>2, <2>5, StaysLit DEF LightInv, SameShow, SameChannel
  <2>7. asked'.to = asked.to /\ asked' = [to |-> asked'.to, times |-> asked'.times] /\ asked'.times \in Nat
    BY <1>1, <2>3
  <2>8. Protected(s', asked'.to)
    BY <1>1, <2>2, <2>5, <2>7 DEF LightInv, Protected, SameChannel
  <2> QED
    BY <2>3, <2>5, <2>6, <2>7, <2>8 DEF LtsInv, LightInv
<1>5. ASSUME NEW e \in Lts!Patterns, Lts!jd_blink(e)
      PROVE  LtsInv'
  <2>1. s' = Lts!Blinked(s, e) /\ asked' = [asked EXCEPT !.times = asked.times + 1]
        /\ kind = "status" /\ kind' = kind /\ e \in 0 .. 3 /\ s \in Light
    BY <1>1, <1>5 DEF Lts!jd_blink, Lts!Patterns, LightInv
  <2>2. s' \in Light /\ SameGlow(s, s') /\ SameChannel(s, s') /\ SameShow(s, s')
    BY <2>1, QueuesBlink
  <2>3. asked'.to = asked.to /\ asked' = [to |-> asked'.to, times |-> asked'.times] /\ asked'.times \in Nat
    BY <1>1, <2>1
  <2>4. Lit(s')
    BY <1>1, <2>2, StaysLit DEF LightInv, SameChannel
  <2> QED
    BY <1>1, <2>1, <2>2, <2>3, <2>4
    DEF LtsInv, LightInv, Moving, Glowing, Protected, SameGlow, SameChannel, Lts!TopGlow
<1>6. ASSUME NEW blink, blink \in BOOLEAN, NEW frame, frame \in BOOLEAN, Lts!jd_status_process(blink, frame)
      PROVE  LtsInv'
  <2> DEFINE t == IF blink THEN Lts!BlinkStep(s) ELSE s
             g == [t EXCEPT !.glow_step = IF t.glow_step > 0 THEN t.glow_step - 1 ELSE 0]
             u == Lts!GlowStep(g)
             f == Lts!Shown(u, Lts!StepChannel(u))
  <2>1. kind = "status" /\ kind' = kind /\ asked' = asked /\ s' = IF frame THEN f ELSE t
    BY <1>6 DEF Lts!jd_status_process, Lts!Frame
  <2>2. s \in Light /\ Lit(s) /\ Moving(s) /\ Glowing(s) /\ Protected(s, asked.to)
    BY <1>1 DEF LightInv
  <2>3. t \in Light /\ Lit(t) /\ SameGlow(s, t) /\ SameChannel(s, t)
    BY <2>2, BlinkSteps DEF SameGlow, SameChannel
  <2>4. Moving(t) /\ Glowing(t) /\ Protected(t, asked.to)
    BY <2>2, <2>3 DEF Moving, Glowing, Protected, SameGlow, SameChannel, Lts!TopGlow
  <2> HIDE DEF t
  <2>5. (IF t.glow_step > 0 THEN t.glow_step - 1 ELSE 0) \in Nat
    BY <2>3 DEF Light
  <2>6. g \in Light /\ SameShow(t, g) /\ SameChannel(t, g) /\ g.glow = t.glow /\ g.glow_ch = t.glow_ch
    BY <2>3, <2>5 DEF Light, SameShow, SameChannel
  <2> HIDE DEF g
  <2>7. Moving(g) /\ Glowing(g) /\ Protected(g, asked.to)
    BY <2>4, <2>6 DEF Moving, Glowing, Protected, SameChannel, Lts!TopGlow
  <2>8. /\ u \in Light /\ Moving(u) /\ Glowing(u) /\ Protected(u, asked.to)
        /\ SameShow(g, u) /\ u.value = g.value
    BY <2>6, <2>7, GlowSteps
  <2> HIDE DEF u
  <2>9. Lit(u)
    BY <2>3, <2>6, <2>8, StaysLit DEF SameShow, SameChannel
  <2>10. f \in Light /\ Moving(f) /\ Lit(f) /\ f.target = u.target /\ SameGlow(u, f)
    BY <2>8, <2>9, ShownMoves
  <2>11. Glowing(f) /\ Protected(f, asked.to)
    BY <2>8, <2>10 DEF Glowing, Protected, SameGlow, Lts!TopGlow
  <2> QED
    BY <1>1, <2>1, <2>3, <2>4, <2>10, <2>11 DEF LtsInv, LightInv
<1>7. ASSUME kind = "led", s' = Lts!led_process(s), UNCHANGED <<kind, asked>>
      PROVE  LtsInv'
  <2>1. s \in Light /\ Lit(s) /\ Moving(s) /\ Glowing(s) /\ s.target = asked.to
    BY <1>1, <1>7 DEF LightInv
  <2>2. s' \in Light /\ Moving(s') /\ Lit(s') /\ s'.target = s.target /\ SameGlow(s, s')
    BY <1>7, <2>1, ShownMoves DEF Lts!led_process
  <2> QED
    BY <1>1, <1>7, <2>1, <2>2 DEF LtsInv, LightInv, Glowing, Protected, SameGlow, Lts!TopGlow
<1>8. CASE UNCHANGED Lts!vars
  BY <1>1, <1>8 DEF Lts!vars, LtsInv, LightInv
<1>9. ASSUME NEW v \in Lts!Colours, Lts!ShowColour(v)
      PROVE  FALSE
  BY <1>9 DEF Lts!ShowColour
<1> QED
  BY <1>2, <1>3, <1>4, <1>5, <1>6, <1>7, <1>8, <1>9 DEF Lts!Next

\* And so does every step of a configured light.
LEMMA PinsStep ==
  LtsInv /\ kind = "rgb" /\ [Lts!Next]_(Lts!vars) => LtsInv'
<1> SUFFICES ASSUME LtsInv, kind = "rgb", [Lts!Next]_(Lts!vars)
             PROVE  LtsInv'
  OBVIOUS
<1>1. PinsInv /\ asked = [to |-> asked.to, times |-> asked.times] /\ asked.times \in Nat
  BY DEF LtsInv
<1>2. ASSUME NEW v \in Lts!Colours, Lts!ShowColour(v)
      PROVE  LtsInv'
  <2>1. s' = Lts!jd_rgb_set(s, v) /\ asked' = [to |-> v, times |-> asked.times + 1] /\ kind' = kind
    BY <1>2 DEF Lts!ShowColour
  <2>2. /\ s' \in Rgb /\ s'.mono = s.mono /\ (s'.in_tim <=> v # Black) /\ (~ s'.mono => Locked(s'))
        /\ Pins(s', v)
    BY <1>1, <2>1, ColourShown DEF PinsInv
  <2> QED
    BY <1>1, <2>1, <2>2 DEF LtsInv, PinsInv
<1>3. CASE UNCHANGED Lts!vars
  BY <1>1, <1>3 DEF Lts!vars, LtsInv, PinsInv
<1>4. [Lts!Next]_(Lts!vars) => UNCHANGED Lts!vars \/ \E v \in Lts!Colours : Lts!ShowColour(v)
  BY DEF Lts!Next, Lts!jd_status_handle_packet, Lts!led_handle_packet, Lts!jd_glow, Lts!jd_blink,
         Lts!jd_status_process
<1> QED
  BY <1>2, <1>3, <1>4

LEMMA LtsInitially == Lts!Init => LtsInv
<1> SUFFICES ASSUME Lts!Init
             PROVE  LtsInv
  OBVIOUS
<1>1. CASE kind = "rgb"
  <2> PICK mono \in BOOLEAN, high \in BOOLEAN : s = Lts!jd_rgb_init(mono, high)
    BY <1>1 DEF Lts!Init
  <2>1. mono \in BOOLEAN /\ high \in BOOLEAN /\ (~ high) \in BOOLEAN
    OBVIOUS
  <2>2. s \in Rgb /\ s.in_tim = FALSE /\ s.locks = 0
    BY <2>1 DEF Lts!jd_rgb_init, Rgb, Channel
  <2>3. asked = [to |-> Black, times |-> 0]
    BY <1>1 DEF Lts!Init, Black
  <2>4. Black \in Lts!Colours
    BY DEF Lts!Colours, Black
  <2> QED
    BY <1>1, <2>2, <2>3, <2>4 DEF LtsInv, PinsInv, Locked
<1>2. CASE kind # "rgb"
  <2>1. s = Lts!jd_status_init /\ asked = [to |-> 0, times |-> 0]
    BY <1>2 DEF Lts!Init
  <2>2. s \in Light
    <3>1. <<Lts!NoGlow, Lts!NoGlow>> \in [1 .. 2 -> GlowValues] /\ <<0, 0, 0>> \in [1 .. 3 -> 0 .. 3]
      BY DEF GlowValues
    <3> QED
      BY <2>1, <3>1 DEF Lts!jd_status_init, Light, GlowValues
  <2>3. Lit(s) /\ Moving(s) /\ Glowing(s) /\ Protected(s, 0) /\ s.target = 0
    BY <2>1 DEF Lts!jd_status_init, Lit, Locked, Moving, Glowing, Protected, Lts!TopGlow,
                Lts!PROTECT, Lts!NoGlow
  <2> QED
    BY <1>2, <2>1, <2>2, <2>3 DEF LtsInv, LightInv
<1> QED
  BY <1>1, <1>2

(***************************************************************************)
(* For any brightness and speeds a client asks for: lights come to what    *)
(* was asked and never go past it, glow as the most important channel says *)
(* and show their state, the lock on the timer is given back exactly when  *)
(* they are dark, and the pins show the colour (jd_status_light.c,         *)
(* ledsingle.c).                                                           *)
(***************************************************************************)
THEOREM LightsObey == LtsNumbers => (Lts!Spec => []Lts!LightsSound)
<1> SUFFICES ASSUME LtsNumbers
             PROVE  Lts!Spec => []Lts!LightsSound
  OBVIOUS
<1>1. Lts!Init => LtsInv
  BY LtsInitially
<1>2. LtsInv /\ [Lts!Next]_(Lts!vars) => LtsInv'
  BY LightStep, PinsStep
<1>3. LtsInv => Lts!LightsSound
  <2> SUFFICES ASSUME LtsInv
               PROVE  Lts!LightsSound
    OBVIOUS
  <2>1. CASE kind = "rgb"
    <3>1. PinsInv /\ asked.times \in Nat
      BY <2>1 DEF LtsInv
    <3>2. Lts!PinsShowColour
      BY <3>1 DEF PinsInv, Lts!PinsShowColour, Pins, Black, Locked, Rgb
    <3> QED
      BY <2>1, <3>2 DEF Lts!LightsSound, Lts!LightObeys, Lts!LightLocksBalance
  <2>2. CASE kind # "rgb"
    <3>1. LightInv
      BY <2>2 DEF LtsInv
    <3>2. Lts!LightObeys
      BY <2>2, <3>1 DEF LightInv, Lts!LightObeys, Moving, Glowing, Protected
    <3>3. s.lit \in Nat /\ (s.lit * 255) \div 32768 \in Nat
      BY <3>1 DEF LightInv, Light
    <3>4. Lts!LightLocksBalance
      BY <2>2, <3>1, <3>3 DEF LightInv, Lts!LightLocksBalance, Lit, Locked
    <3> QED
      BY <2>2, <3>2, <3>4 DEF Lts!LightsSound, Lts!PinsShowColour
  <2> QED
    BY <2>1, <2>2
<1> QED
  BY <1>1, <1>2, <1>3, PTL DEF Lts!Spec
-----------------------------------------------------------------------------
(***************************************************************************)
(* The control service (JdControl), for a clock of any width: the watchdog *)
(* compares times modulo W, and goes by them as if they were not.          *)
(***************************************************************************)
CONSTANTS Layouts, Data, PTRSIZE, SIZE, W, Deltas, Floods, SLACK, MaxTime, MaxSets
VARIABLES desc, mem, vals, ctl, time, seen

Ctl == INSTANCE JdControl

\* A delay is any the clock can tell; turns of the loop are at most half the clock apart.
CtlTimes ==
  /\ W \in Nat /\ W >= 2 /\ W % 2 = 0 /\ Deltas \subseteq 0 .. W - 1 /\ SLACK \in 0 .. W \div 2
  /\ Floods \subseteq Nat

CtlState == [watchdog : 0 .. W - 1, flood_remaining : Nat, flood_counter : Nat, awake : BOOLEAN]
CtlSeen ==
  [deadline : Nat \cup {-1}, reset : BOOLEAN, late : BOOLEAN, from : Nat, asked : Nat,
   pings : Seq(Nat), sets : Nat, since : Nat]

\* At the deadline, behind it, or more than half the clock before it.
Looks(d, t) == t >= d \/ d - t > W \div 2

\* The watchdog is the deadline, modulo W, and the last turn was not behind it, unless it is none.
WatchdogInv(w, t, h) ==
  /\ h.since <= SLACK /\ ~ h.late
  /\ h.deadline = -1 => w = 0
  /\ h.deadline # -1 => w = h.deadline % W /\ h.deadline - t < W
  /\ h.reset => h.deadline # -1 /\ w # 0 /\ Looks(h.deadline, t)
  /\ ~ h.reset /\ h.deadline # -1 /\ w # 0 => t - h.since < h.deadline

\* The pings are numbered, and the counter is the number of the next.
FloodInv(c, h) ==
  /\ Len(h.pings) + c.flood_remaining = h.asked
  /\ c.flood_counter = (h.from + Len(h.pings)) % W
  /\ \A k \in 1 .. Len(h.pings) : h.pings[k] = (h.from + k - 1) % W

CtlInv ==
  /\ ctl \in CtlState /\ seen \in CtlSeen /\ time \in Nat
  /\ WatchdogInv(ctl.watchdog, time, seen) /\ FloodInv(ctl, seen)

LEMMA IntDivision ==
  ASSUME NEW m \in Nat \ {0}, NEW x \in Int
  PROVE  x % m \in 0 .. m - 1 /\ x \div m \in Int /\ x = m * (x \div m) + (x % m)
  OBVIOUS

\* The difference of two times, from what the clock shows of them.
LEMMA ClockDifference ==
  ASSUME NEW m \in Nat \ {0}, NEW d \in Nat, NEW t \in Nat
  PROVE  /\ (d - t \in 0 .. m - 1) => ((d % m) - (t % m)) % m = d - t
         /\ (t - d \in 1 .. m) => ((d % m) - (t % m)) % m = m - (t - d)
<1> DEFINE r1 == d % m
           q1 == d \div m
           r2 == t % m
           q2 == t \div m
<1>1. r1 \in 0 .. m - 1 /\ q1 \in Int /\ d = m * q1 + r1 /\ r2 \in 0 .. m - 1 /\ q2 \in Int /\ t = m * q2 + r2
  BY IntDivision
<1> HIDE DEF r1, q1, r2, q2
<1> DEFINE y == r1 - r2
           r == y % m
           p == y \div m
<1>2. y \in Int
  BY <1>1
<1>3. r \in 0 .. m - 1 /\ p \in Int /\ y = m * p + r
  <2> HIDE DEF y
  <2> QED
    BY <1>2, IntDivision
<1>4. y = r1 - r2
  OBVIOUS
<1>5. ((d % m) - (t % m)) % m = r
  BY DEF r1, r2
<1> HIDE DEF y, r, p
<1>6. m * q1 \in Int /\ m * q2 \in Int /\ m * p \in Int /\ m * ((q1 - q2) + p) = (m * q1 - m * q2) + m * p
  BY <1>1, <1>3
<1>7. d - t = m * ((q1 - q2) + p) + r
  <2> DEFINE a == m * q1
             b == m * q2
             c == m * p
             e == m * ((q1 - q2) + p)
  <2>1. a \in Int /\ b \in Int /\ c \in Int /\ e = (a - b) + c
    BY <1>6
  <2>2. d = a + r1 /\ t = b + r2 /\ y = c + r
    BY <1>1, <1>3
  <2> HIDE DEF a, b, c, e
  <2>3. d - t = e + r
    BY <1>1, <1>3, <1>4, <2>1, <2>2
  <2> QED
    BY <2>3 DEF e
<1> DEFINE n == (q1 - q2) + p
<1>8. n \in Int /\ d - t = m * n + r
  BY <1>1, <1>3, <1>7
<1> HIDE DEF n
<1>9. ASSUME d - t \in 0 .. m - 1
      PROVE  r = d - t
  <2>1. m * n + r = m * 0 + (d - t)
    BY <1>8, <1>9
  <2> QED
    BY <1>3, <1>8, <1>9, <2>1, RemainderUnique
<1>10. ASSUME t - d \in 1 .. m
       PROVE  r = m - (t - d)
  <2>1. m * (-1) = - m /\ m - (t - d) \in 0 .. m - 1
    BY <1>10
  <2>2. m * n \in Int
    BY <1>8
  <2>3. m * n + r = m * (-1) + (m - (t - d))
    BY <1>3, <1>8, <2>1, <2>2
  <2> QED
    BY <1>3, <1>8, <2>1, <2>3, RemainderUnique
<1> QED
  BY <1>5, <1>9, <1>10

\* A time that is a while after another, from what the clock shows of it.
LEMMA ClockSum ==
  ASSUME NEW m \in Nat \ {0}, NEW t \in Nat, NEW x \in Nat
  PROVE  ((t % m) + x) % m = (t + x) % m /\ ((t % m) + x) % m \in 0 .. m - 1
<1> DEFINE r == t % m
           q == t \div m
           a == r + x
           b == t + x
           sm == a % m
           k == a \div m
           u == b % m
           j == b \div m
<1>1. r \in 0 .. m - 1 /\ q \in Int /\ t = m * q + r
  BY IntDivision
<1> HIDE DEF r, q
<1>2. a \in Int /\ b \in Int
  BY <1>1
<1>3. sm \in 0 .. m - 1 /\ k \in Int /\ a = m * k + sm
  <2> HIDE DEF a
  <2> QED
    BY <1>2, IntDivision
<1>4. u \in 0 .. m - 1 /\ j \in Int /\ b = m * j + u
  <2> HIDE DEF b
  <2> QED
    BY <1>2, IntDivision
<1>5. a = r + x /\ b = t + x
  OBVIOUS
<1>6. sm = ((t % m) + x) % m /\ u = (t + x) % m
  BY DEF r
<1> HIDE DEF a, b, sm, k, u, j
<1>7. m * q \in Int /\ m * k \in Int /\ m * j \in Int /\ m * (q + k) = m * q + m * k /\ q + k \in Int
  BY <1>1, <1>3, <1>4
<1>8. m * j + u = m * (q + k) + sm
  BY <1>1, <1>3, <1>4, <1>5, <1>7
<1>9. u = sm
  BY <1>3, <1>4, <1>7, <1>8, RemainderUnique
<1> QED
  BY <1>3, <1>6, <1>9

\* The watchdog is due when the deadline is, or looks, over, and was not stored as 0.
LEMMA DueWhenOver ==
  ASSUME CtlTimes, NEW w \in 0 .. W - 1, time \in Nat, seen \in CtlSeen, w = ctl.watchdog,
         WatchdogInv(w, time, seen)
  PROVE  /\ ~ seen.reset =>
              (Ctl!WatchdogDue <=> seen.deadline # -1 /\ w # 0 /\ Looks(seen.deadline, time))
         /\ (seen.deadline # -1 /\ time <= seen.deadline) =>
              Ctl!ResetIn = IF w = 0 THEN 0 ELSE seen.deadline - time
         /\ seen.deadline = -1 => Ctl!ResetIn = 0
<1> DEFINE d == seen.deadline
           h == W \div 2
           x == (w - (time % W)) % W
           y == ((time % W) - w) % W
<1>1. W \in Nat \ {0} /\ h \in Nat /\ h + h = W /\ SLACK \in 0 .. h
  BY DEF CtlTimes
<1>2. d \in Nat \cup {-1} /\ seen.since \in Nat /\ seen.since <= SLACK /\ seen.reset \in BOOLEAN
  BY DEF CtlSeen, WatchdogInv
<1>3. CASE d = -1
  <2>1. w = 0
    BY <1>3 DEF WatchdogInv
  <2> QED
    BY <1>3, <2>1 DEF Ctl!WatchdogDue, Ctl!ResetIn
<1>4. CASE d # -1 /\ w = 0
  BY <1>4 DEF Ctl!WatchdogDue, Ctl!ResetIn
<1>5. CASE d # -1 /\ w # 0
  <2>1. w # 0 /\ w = d % W /\ d - time < W /\ d \in Nat
    BY <1>2, <1>5 DEF WatchdogInv
  <2>2. ~ seen.reset => time - seen.since < d
    BY <1>5 DEF WatchdogInv
  <2> HIDE DEF d, h
  <2>3. x = ((d % W) - (time % W)) % W /\ y = ((time % W) - (d % W)) % W
    BY <2>1
  <2>4. /\ time <= d => d - time \in 0 .. W - 1
        /\ time < d => d - time \in 1 .. W
        /\ time >= d /\ ~ seen.reset => time - d \in 0 .. h - 1 /\ time - d \in 0 .. W - 1
    BY <1>1, <1>2, <2>1, <2>2
  <2>7. Ctl!ResetIn = x /\ (Ctl!WatchdogDue <=> y < h)
    BY <2>1 DEF Ctl!ResetIn, Ctl!WatchdogDue, Ctl!in_past, Ctl!is_before, Ctl!now, h, x, y
  <2> HIDE DEF x, y
  <2>5. time <= d => x = d - time
    BY <1>1, <2>1, <2>3, <2>4, ClockDifference
  <2>6. /\ time < d => y = W - (d - time)
        /\ time >= d /\ ~ seen.reset => y = time - d
    <3>1. /\ (time - d \in 0 .. W - 1) => ((time % W) - (d % W)) % W = time - d
          /\ (d - time \in 1 .. W) => ((time % W) - (d % W)) % W = W - (d - time)
      BY <1>1, <2>1, ClockDifference
    <3> QED
      BY ONLY <2>3, <2>4, <3>1
  <2>8. time < d => (Ctl!WatchdogDue <=> d - time > h)
    BY <1>1, <2>1, <2>4, <2>6, <2>7
  <2>9. time >= d /\ ~ seen.reset => Ctl!WatchdogDue
    BY <1>1, <2>1, <2>4, <2>6, <2>7
  <2>10. (time < d \/ time >= d) /\ ~ (time < d /\ time >= d)
    BY <2>1
  <2>11. ~ seen.reset => (Ctl!WatchdogDue <=> time >= d \/ d - time > h)
    BY ONLY <2>8, <2>9, <2>10
  <2>12. Looks(d, time) <=> time >= d \/ d - time > h
    BY DEF Looks, h
  <2>13. time <= d => Ctl!ResetIn = d - time
    BY <2>5, <2>7
  <2> QED
    BY ONLY <1>5, <2>1, <2>11, <2>12, <2>13 DEF d
<1> QED
  BY <1>3, <1>4, <1>5

LEMMA CtlInitInv == CtlTimes /\ Ctl!Init => CtlInv
<1> SUFFICES ASSUME CtlTimes, Ctl!Init
             PROVE  CtlInv
  OBVIOUS
<1>1. W \in Nat \ {0} /\ SLACK \in Nat
  BY DEF CtlTimes
<1>2. /\ ctl = [watchdog |-> 0, flood_remaining |-> 0, flood_counter |-> 0, awake |-> FALSE] /\ time = 1
      /\ seen = [deadline |-> -1, reset |-> FALSE, late |-> FALSE, from |-> 0, asked |-> 0, pings |-> <<>>,
                 sets |-> 0, since |-> 0]
  BY DEF Ctl!Init
<1>3. ctl \in CtlState /\ seen \in CtlSeen /\ time \in Nat
  BY <1>1, <1>2 DEF CtlState, CtlSeen
<1>4. WatchdogInv(ctl.watchdog, time, seen)
  BY <1>1, <1>2 DEF WatchdogInv
<1>5. (0 + 0) % W = 0
  BY <1>1
<1>6. FloodInv(ctl, seen)
  BY <1>2, <1>5 DEF FloodInv
<1> QED
  BY <1>3, <1>4, <1>6 DEF CtlInv

LEMMA RegisterStep ==
  ASSUME CtlInv, Ctl!service_handle_register
  PROVE  CtlInv'
<1>1. seen' = [seen EXCEPT !.sets = @ + 1] /\ ctl' = ctl /\ time' = time
  BY Zenon DEF Ctl!service_handle_register
<1>2. /\ seen' \in CtlSeen /\ seen'.deadline = seen.deadline /\ seen'.reset = seen.reset /\ seen'.late = seen.late
      /\ seen'.from = seen.from /\ seen'.asked = seen.asked /\ seen'.pings = seen.pings /\ seen'.since = seen.since
  <2>1. seen \in CtlSeen
    BY DEF CtlInv
  <2>2. seen.sets + 1 \in Nat
    BY <2>1 DEF CtlSeen
  <2>3. seen' \in CtlSeen
    BY <1>1, <2>1, <2>2 DEF CtlSeen
  <2> QED
    BY <1>1, <2>1, <2>3 DEF CtlSeen
<1>3. WatchdogInv(ctl.watchdog, time, seen')
  BY <1>2 DEF CtlInv, WatchdogInv
<1>4. FloodInv(ctl, seen')
  BY <1>2 DEF CtlInv, FloodInv
<1> QED
  BY <1>1, <1>2, <1>3, <1>4 DEF CtlInv

LEMMA ResetInStep ==
  ASSUME CtlTimes, CtlInv, Ctl!SetResetIn
  PROVE  CtlInv'
<1>1. PICK delta \in Deltas :
        /\ ~ seen.reset
        /\ ctl' = [ctl EXCEPT !.watchdog = IF delta = 0 THEN 0 ELSE (Ctl!now + delta) % W]
        /\ seen' = [seen EXCEPT !.deadline = IF delta = 0 THEN -1 ELSE time + delta]
        /\ time' = time
  BY DEF Ctl!SetResetIn
<1>2. /\ ctl \in CtlState /\ seen \in CtlSeen /\ time \in Nat /\ W \in Nat \ {0}
      /\ delta \in Nat /\ delta < W
  BY DEF CtlInv, CtlTimes
<1> DEFINE w == IF delta = 0 THEN 0 ELSE (Ctl!now + delta) % W
           d == IF delta = 0 THEN -1 ELSE time + delta
<1>3. (Ctl!now + delta) % W = (time + delta) % W /\ (Ctl!now + delta) % W \in 0 .. W - 1
  <2>1. ((time % W) + delta) % W = (time + delta) % W /\ ((time % W) + delta) % W \in 0 .. W - 1
    BY <1>2, ClockSum
  <2> QED
    BY <2>1 DEF Ctl!now
<1>4. w \in 0 .. W - 1 /\ d \in Nat \cup {-1} /\ (d = -1 => w = 0)
       /\ (d # -1 => w = d % W /\ d - time < W /\ d > time)
  <2>1. CASE delta = 0
    BY <1>2, <2>1
  <2>2. CASE delta # 0
    <3>1. w = (Ctl!now + delta) % W /\ d = time + delta
      BY <2>2
    <3>2. d \in Nat /\ d # -1 /\ d - time = delta /\ d > time
      BY <1>2, <3>1
    <3> QED
      BY <1>1, <1>2, <1>3, <2>2, <3>1, <3>2
  <2> QED
    BY <2>1, <2>2
<1> HIDE DEF w, d
<1>5. ctl' = [ctl EXCEPT !.watchdog = w] /\ seen' = [seen EXCEPT !.deadline = d]
  BY <1>1 DEF w, d
<1>6. /\ ctl' \in CtlState /\ ctl'.watchdog = w /\ ctl'.flood_remaining = ctl.flood_remaining
      /\ ctl'.flood_counter = ctl.flood_counter
  BY <1>2, <1>4, <1>5 DEF CtlState
<1>7. /\ seen' \in CtlSeen /\ seen'.deadline = d /\ seen'.reset = seen.reset /\ seen'.late = seen.late
      /\ seen'.from = seen.from /\ seen'.asked = seen.asked /\ seen'.pings = seen.pings /\ seen'.since = seen.since
      /\ seen.since \in Nat
  BY <1>2, <1>4, <1>5 DEF CtlSeen
<1>8. WatchdogInv(w, time, seen')
  <2>1. WatchdogInv(ctl.watchdog, time, seen)
    BY DEF CtlInv
  <2>2. d # -1 => time - seen.since < d
    BY <1>2, <1>4, <1>7
  <2> QED
    BY <1>1, <1>4, <1>7, <2>1, <2>2 DEF WatchdogInv
<1>9. FloodInv(ctl', seen')
  BY <1>6, <1>7 DEF CtlInv, FloodInv
<1> QED
  BY <1>1, <1>2, <1>6, <1>7, <1>8, <1>9 DEF CtlInv

LEMMA FloodStep ==
  ASSUME CtlTimes, CtlInv, Ctl!HandleFloodPing
  PROVE  CtlInv'
<1>1. PICK n \in Floods, start \in {0, W - 1} :
        /\ ctl' = Ctl!set_flood([ctl EXCEPT !.flood_counter = start], n)
        /\ seen' = [seen EXCEPT !.from = start, !.asked = n, !.pings = <<>>] /\ time' = time
  BY DEF Ctl!HandleFloodPing
<1>2. /\ ctl \in CtlState /\ seen \in CtlSeen /\ time \in Nat /\ W \in Nat \ {0}
      /\ n \in Nat /\ start \in 0 .. W - 1 /\ start \in Nat
  BY DEF CtlInv, CtlTimes
<1>3. /\ ctl' \in CtlState /\ ctl'.watchdog = ctl.watchdog /\ ctl'.flood_remaining = n
      /\ ctl'.flood_counter = start
  <2> DEFINE c == [ctl EXCEPT !.flood_counter = start]
             b == c.awake \/ ((c.flood_remaining = 0) # (n = 0))
  <2>1. c \in CtlState /\ c.watchdog = ctl.watchdog /\ c.flood_counter = start
    BY <1>2 DEF CtlState
  <2> HIDE DEF c
  <2>2. ctl' = [c EXCEPT !.flood_remaining = n, !.awake = b]
    BY <1>1 DEF Ctl!set_flood, c
  <2>3. b \in BOOLEAN
    OBVIOUS
  <2> HIDE DEF b
  <2> QED
    BY <1>2, <2>1, <2>2, <2>3 DEF CtlState
<1>4. /\ seen' \in CtlSeen /\ seen'.deadline = seen.deadline /\ seen'.reset = seen.reset
      /\ seen'.late = seen.late /\ seen'.from = start /\ seen'.asked = n /\ seen'.pings = <<>>
      /\ seen'.since = seen.since
  <2>1. <<>> \in Seq(Nat)
    OBVIOUS
  <2> QED
    BY <1>1, <1>2, <2>1 DEF CtlSeen
<1>5. WatchdogInv(ctl'.watchdog, time, seen')
  BY <1>3, <1>4 DEF CtlInv, WatchdogInv
<1>6. (start + 0) % W = start /\ 0 + n = n
  BY <1>2
<1>7. FloodInv(ctl', seen')
  BY <1>3, <1>4, <1>6 DEF FloodInv
<1> QED
  BY <1>1, <1>2, <1>3, <1>4, <1>5, <1>7 DEF CtlInv

LEMMA WatchdogStep ==
  ASSUME CtlTimes, CtlInv, Ctl!jd_ctrl_process
  PROVE  CtlInv'
<1> DEFINE late == Ctl!Over /\ ~ Ctl!WatchdogDue
           due == Ctl!WatchdogDue
<1>1. PICK idle \in BOOLEAN :
        /\ ~ seen.reset /\ ctl' = Ctl!process_flood(ctl, idle) /\ time' = time
        /\ seen' = [seen EXCEPT !.pings = IF ctl' # ctl THEN Append(@, ctl.flood_counter) ELSE @,
                                !.reset = due, !.since = 0, !.late = late]
  BY DEF Ctl!jd_ctrl_process
<1>2. ctl \in CtlState /\ seen \in CtlSeen /\ time \in Nat /\ W \in Nat \ {0} /\ SLACK \in Nat
       /\ WatchdogInv(ctl.watchdog, time, seen) /\ FloodInv(ctl, seen)
  BY DEF CtlInv, CtlTimes
<1>3. /\ ctl.watchdog \in 0 .. W - 1 /\ ctl.flood_remaining \in Nat /\ ctl.flood_counter \in Nat
      /\ ctl.awake \in BOOLEAN /\ seen.deadline \in Nat \cup {-1} /\ seen.pings \in Seq(Nat)
      /\ seen.from \in Nat /\ seen.asked \in Nat
  BY <1>2 DEF CtlState, CtlSeen
<1>4. due <=> seen.deadline # -1 /\ ctl.watchdog # 0 /\ Looks(seen.deadline, time)
  BY <1>1, <1>2, <1>3, DueWhenOver
<1>5. late = FALSE /\ due \in BOOLEAN
  <2>1. due \in BOOLEAN
    BY DEF Ctl!WatchdogDue, Ctl!in_past
  <2>2. Ctl!Over => seen.deadline # -1 /\ ctl.watchdog # 0 /\ Looks(seen.deadline, time)
    BY <1>2, <1>3 DEF Ctl!Over, Looks, WatchdogInv
  <2> HIDE DEF due
  <2> QED
    BY <1>4, <2>1, <2>2 DEF due
<1> DEFINE ps == IF ctl' # ctl THEN Append(seen.pings, ctl.flood_counter) ELSE seen.pings
<1>6. seen' = [seen EXCEPT !.pings = ps, !.reset = due, !.since = 0, !.late = FALSE]
  BY <1>1, <1>5
<1>7. ps \in Seq(Nat)
  BY <1>3
<1> HIDE DEF ps, due, late
<1>8. seen' \in CtlSeen
  BY <1>2, <1>5, <1>6, <1>7 DEF CtlSeen
<1>9. /\ seen'.deadline = seen.deadline /\ seen'.reset = due /\ seen'.late = FALSE /\ seen'.since = 0
      /\ seen'.from = seen.from /\ seen'.asked = seen.asked /\ seen'.pings = ps
  BY <1>2, <1>6 DEF CtlSeen
<1>10. ctl' \in CtlState /\ ctl'.watchdog = ctl.watchdog /\ FloodInv(ctl', seen')
  <2>1. CASE ~ (ctl.flood_remaining > 0 /\ idle)
    <3>1. ctl' = ctl
      BY <1>1, <2>1 DEF Ctl!process_flood
    <3>2. ps = seen.pings
      BY <3>1 DEF ps
    <3> QED
      BY <1>2, <1>9, <3>1, <3>2 DEF FloodInv
  <2>2. CASE ctl.flood_remaining > 0 /\ idle
    <3> DEFINE c == [ctl EXCEPT !.flood_counter = (@ + 1) % W]
               n == ctl.flood_remaining - 1
               b == c.awake \/ ((c.flood_remaining = 0) # (n = 0))
    <3>1. (ctl.flood_counter + 1) % W \in Nat /\ n \in Nat /\ n # ctl.flood_remaining
      <4>1. (ctl.flood_counter + 1) % W \in 0 .. W - 1
        BY <1>2, <1>3
      <4> QED
        BY <1>2, <1>3, <2>2, <4>1
    <3>2. c \in CtlState /\ c.watchdog = ctl.watchdog /\ c.flood_counter = (ctl.flood_counter + 1) % W
      BY <1>2, <3>1 DEF CtlState
    <3>3. ctl' = [c EXCEPT !.flood_remaining = n, !.awake = b]
      BY <1>1, <2>2 DEF Ctl!process_flood, Ctl!set_flood
    <3>4. b \in BOOLEAN
      OBVIOUS
    <3> HIDE DEF c, b, n
    <3>5. ctl' \in CtlState /\ ctl'.watchdog = ctl.watchdog /\ ctl'.flood_remaining = n
           /\ ctl'.flood_counter = (ctl.flood_counter + 1) % W
      BY <3>1, <3>2, <3>3, <3>4 DEF CtlState
    <3>6. ctl' # ctl
      BY <3>1, <3>5
    <3>7. ps = Append(seen.pings, ctl.flood_counter)
      BY <3>6 DEF ps
    <3> DEFINE l == Len(seen.pings)
    <3>8. l \in Nat /\ Len(ps) = l + 1 /\ ps[l + 1] = ctl.flood_counter /\ \A k \in 1 .. l : ps[k] = seen.pings[k]
      BY <1>3, <3>7
    <3>9. /\ l + ctl.flood_remaining = seen.asked /\ ctl.flood_counter = (seen.from + l) % W
          /\ \A k \in 1 .. l : seen.pings[k] = (seen.from + k - 1) % W
      BY <1>2 DEF FloodInv
    <3>10. l \in Nat /\ l + ctl.flood_remaining = seen.asked /\ seen.from \in Nat
      BY <1>3, <3>9
    <3> HIDE DEF l
    <3>11. (l + 1) + n = seen.asked
      <4>1. n = ctl.flood_remaining - 1 /\ ctl.flood_remaining \in Int
        BY <1>3 DEF n
      <4> QED
        BY ONLY <3>10, <4>1
    <3>12. (ctl.flood_counter + 1) % W = (seen.from + (l + 1)) % W
      <4>1. seen.from + l \in Nat /\ (seen.from + l) + 1 = seen.from + (l + 1)
        BY <3>10
      <4> QED
        BY <1>2, <3>9, <4>1, SuccessorOfRemainder
    <3>13. \A k \in 1 .. l + 1 : ps[k] = (seen.from + k - 1) % W
      <4> SUFFICES ASSUME NEW k \in 1 .. l + 1
                   PROVE  ps[k] = (seen.from + k - 1) % W
        OBVIOUS
      <4>1. CASE k \in 1 .. l
        BY <3>8, <3>9, <4>1
      <4>2. CASE k = l + 1
        <5>1. seen.from + (l + 1) - 1 = seen.from + l
          BY <1>3, <3>8
        <5> QED
          BY <3>8, <3>9, <4>2, <5>1
      <4> QED
        BY <3>8, <4>1, <4>2
    <3> QED
      BY <1>9, <3>5, <3>8, <3>11, <3>12, <3>13 DEF FloodInv
  <2> QED
    BY <2>1, <2>2
<1>11. WatchdogInv(ctl'.watchdog, time, seen')
  <2>1. ~ due /\ seen.deadline # -1 /\ ctl.watchdog # 0 => time - 0 < seen.deadline
    <3>1. ~ due /\ seen.deadline # -1 /\ ctl.watchdog # 0 => ~ (time >= seen.deadline)
      BY <1>4 DEF Looks
    <3> QED
      BY <1>2, <1>3, <3>1
  <2> QED
    BY <1>2, <1>4, <1>9, <1>10, <2>1 DEF WatchdogInv
<1> QED
  BY <1>1, <1>2, <1>8, <1>10, <1>11 DEF CtlInv

LEMMA TickStep ==
  ASSUME CtlTimes, CtlInv, Ctl!Tick
  PROVE  CtlInv'
<1>1. /\ ~ seen.reset /\ seen.since < SLACK /\ time' = time + 1 /\ ctl' = ctl
      /\ seen' = [seen EXCEPT !.since = @ + 1]
  BY DEF Ctl!Tick
<1>2. /\ ctl \in CtlState /\ seen \in CtlSeen /\ time \in Nat /\ SLACK \in Nat /\ W \in Nat
      /\ WatchdogInv(ctl.watchdog, time, seen) /\ FloodInv(ctl, seen)
  BY DEF CtlInv, CtlTimes
<1>3. seen.since \in Nat /\ seen.deadline \in Nat \cup {-1}
  BY <1>2 DEF CtlSeen
<1>4. seen' \in CtlSeen
  <2>1. seen.since + 1 \in Nat
    BY <1>3
  <2> QED
    BY <1>1, <1>2, <2>1 DEF CtlSeen
<1>5. /\ seen'.deadline = seen.deadline /\ seen'.reset = seen.reset /\ seen'.late = seen.late
      /\ seen'.from = seen.from /\ seen'.asked = seen.asked /\ seen'.pings = seen.pings
      /\ seen'.since = seen.since + 1
  BY <1>1, <1>2 DEF CtlSeen
<1>6. /\ seen.since + 1 <= SLACK
      /\ seen.deadline # -1 => (seen.deadline - time < W => seen.deadline - (time + 1) < W)
      /\ (time + 1) - (seen.since + 1) = time - seen.since
  BY <1>1, <1>2, <1>3
<1>7. WatchdogInv(ctl.watchdog, time + 1, seen')
  BY <1>1, <1>2, <1>5, <1>6 DEF WatchdogInv
<1>8. FloodInv(ctl, seen')
  BY <1>2, <1>5 DEF FloodInv
<1> QED
  BY <1>1, <1>2, <1>4, <1>7, <1>8 DEF CtlInv

(***************************************************************************)
(* The control service (jd_control.c): on a clock of any size, for every   *)
(* delay it can tell, and as long as turns of the loop are at most half of *)
(* it apart, the watchdog resets the device at the first turn from its     *)
(* time on and never before, but for two kinds of deadlines: one on which  *)
(* the clock shows 0 never comes, and one more than half the clock away at *)
(* the next turn comes with that turn.  RESET_IN tells what is left, and a *)
(* flood has the pings that were asked for, numbered one after the other.  *)
(***************************************************************************)
THEOREM WatchdogKeepsTime == CtlTimes => (Ctl!Spec => []Ctl!ControlKeepsCount)
<1> SUFFICES ASSUME CtlTimes
             PROVE  Ctl!Spec => []Ctl!ControlKeepsCount
  OBVIOUS
<1>1. Ctl!Init => CtlInv
  BY CtlInitInv
<1>2. CtlInv /\ [Ctl!Next]_(Ctl!vars) => CtlInv'
  <2> SUFFICES ASSUME CtlInv, [Ctl!Next]_(Ctl!vars)
               PROVE  CtlInv'
    OBVIOUS
  <2>1. CASE Ctl!Next
    BY <2>1, RegisterStep, ResetInStep, FloodStep, WatchdogStep, TickStep DEF Ctl!Next
  <2>2. CASE UNCHANGED Ctl!vars
    BY <2>2 DEF Ctl!vars, CtlInv
  <2> QED
    BY <2>1, <2>2
<1>3. CtlInv => Ctl!ControlKeepsCount
  <2> SUFFICES ASSUME CtlInv
               PROVE  Ctl!ControlKeepsCount
    OBVIOUS
  <2>1. /\ ctl \in CtlState /\ seen \in CtlSeen /\ time \in Nat
        /\ WatchdogInv(ctl.watchdog, time, seen) /\ FloodInv(ctl, seen)
    BY DEF CtlInv
  <2>2. ctl.watchdog \in 0 .. W - 1 /\ seen.deadline \in Nat \cup {-1} /\ seen.pings \in Seq(Nat)
    BY <2>1 DEF CtlState, CtlSeen
  <2>3. /\ (seen.deadline # -1 /\ time <= seen.deadline) =>
             Ctl!ResetIn = IF ctl.watchdog = 0 THEN 0 ELSE seen.deadline - time
        /\ seen.deadline = -1 => Ctl!ResetIn = 0
    BY <2>1, <2>2, DueWhenOver
  <2>a. seen.deadline # -1 => ctl.watchdog = seen.deadline % W
    BY <2>1 DEF WatchdogInv
  <2>4. /\ time <= seen.deadline => seen.deadline # -1
        /\ seen.deadline < 0 => seen.deadline = -1
        /\ seen.deadline # -1 => seen.deadline >= 0
    BY <2>1, <2>2
  <2>5. DOMAIN seen.pings = 1 .. Len(seen.pings)
    BY <2>2
  <2>6. /\ time <= seen.deadline =>
             Ctl!ResetIn = IF seen.deadline % W = 0 THEN 0 ELSE seen.deadline - time
        /\ seen.deadline < 0 => Ctl!ResetIn = 0
    BY ONLY <2>3, <2>4, <2>a
  <2>7. seen.reset => Ctl!Over
    BY <2>1, <2>4, <2>a DEF WatchdogInv, Looks, Ctl!Over
  <2> QED
    BY <2>1, <2>5, <2>6, <2>7 DEF Ctl!ControlKeepsCount, WatchdogInv, FloodInv
<1> QED
  BY <1>1, <1>2, <1>3, PTL DEF Ctl!Spec
-----------------------------------------------------------------------------
(***************************************************************************)
(* Dispatch and announcements (JdDispatch).                                *)
(***************************************************************************)
CONSTANTS Classes, MAX, Frames, TIMEOUT, STEADY, COUNTER, MaxSent
VARIABLES build, services, phase, rx, counters, brain, clock, noted

Dsp == INSTANCE JdDispatch WITH time <- clock, seen <- noted

DspCounts == COUNTER \in Nat \ {0} /\ STEADY \in Nat

NoteFields == {"queued", "announced", "heard", "turn"}

DspInv ==
  /\ counters \in [reset : Nat, sent : Nat]
  /\ DOMAIN noted = NoteFields /\ noted.queued \in Nat /\ noted.announced \in Nat
  /\ Dsp!PacketsTold

\* Two counts that agree go on to agree.
LEMMA CountOn ==
  ASSUME NEW m \in Nat \ {0}, NEW x \in Nat, NEW q \in Nat, x % m = q % m
  PROVE  (x + 1) % m = (q + 1) % m
<1>1. ((x % m) + 1) % m = (x + 1) % m /\ ((q % m) + 1) % m = (q + 1) % m
  BY SuccessorOfRemainder
<1> QED
  BY <1>1

\* Announcements (jd_services_announce): for any size of the counter the announcements
\* tell of every packet, up to a multiple of what it counts, although jd_send may find no
\* room for one.
THEOREM AnnouncementsCount == DspCounts => (Dsp!Spec => []Dsp!PacketsTold)
<1> SUFFICES ASSUME DspCounts
             PROVE  Dsp!Spec => []Dsp!PacketsTold
  OBVIOUS
<1> USE DEF DspCounts
<1>1. Dsp!Init => DspInv
  <2> SUFFICES ASSUME Dsp!Init
               PROVE  DspInv
    OBVIOUS
  <2>1. counters = [reset |-> 0, sent |-> 0]
         /\ noted = [queued |-> 0, announced |-> 0, heard |-> clock, turn |-> clock]
    BY DEF Dsp!Init
  <2>2. Dsp!PacketsTold
    BY <2>1 DEF Dsp!PacketsTold
  <2>3. DOMAIN noted = NoteFields /\ noted.queued = 0 /\ noted.announced = 0
    BY <2>1 DEF NoteFields
  <2> QED
    BY <2>1, <2>2, <2>3 DEF DspInv
<1>2. DspInv /\ [Dsp!Next]_(Dsp!vars) => DspInv'
  <2> SUFFICES ASSUME DspInv, [Dsp!Next]_(Dsp!vars)
               PROVE  DspInv'
    OBVIOUS
  <2> DEFINE q == noted.queued
             a == noted.announced
  <2>1. counters.sent \in Nat /\ counters.reset \in Nat /\ (a + counters.sent) % COUNTER = q % COUNTER
         /\ q \in Nat /\ a \in Nat /\ DOMAIN noted = NoteFields
    BY DEF DspInv, Dsp!PacketsTold
  <2>2. ASSUME counters' = counters, noted' = noted
        PROVE  DspInv'
    BY <2>2 DEF DspInv, Dsp!PacketsTold
  <2>3. ASSUME NEW due \in BOOLEAN, NEW fits \in BOOLEAN, Dsp!Turn(due, fits)
        PROVE  DspInv'
    <3> DEFINE ann == Dsp!jd_services_announce(due, fits)
    <3>1. PICK u, v :
            noted' = [noted EXCEPT !.heard = u, !.turn = v, !.queued = q + Len(ann.told),
                                   !.announced = IF ann.told = <<>> THEN a ELSE a + ann.told[1]]
      BY <2>3 DEF Dsp!Turn
    <3>2. counters' = [reset |-> ann.reset, sent |-> ann.sent]
      BY <2>3 DEF Dsp!Turn
    <3>3. CASE due /\ fits
      <4>1. ann.reset \in Nat /\ ann.sent = 0 /\ ann.told = <<counters.sent + 1>>
        BY <2>1, <3>3 DEF Dsp!jd_services_announce
      <4> HIDE DEF ann
      <4>2. q + Len(ann.told) = q + 1 /\ (IF ann.told = <<>> THEN a ELSE a + ann.told[1]) = a + (counters.sent + 1)
        BY <4>1
      <4>3. noted'.queued = q + 1 /\ noted'.announced = a + (counters.sent + 1) /\ DOMAIN noted' = NoteFields
             /\ counters' = [reset |-> ann.reset, sent |-> 0]
        BY <2>1, <3>1, <3>2, <4>1, <4>2 DEF NoteFields
      <4> DEFINE x == a + counters.sent
      <4>4. x \in Nat /\ (a + (counters.sent + 1)) + 0 = x + 1 /\ a + (counters.sent + 1) \in Nat /\ q + 1 \in Nat
        BY <2>1
      <4>5. x % COUNTER = q % COUNTER
        BY <2>1
      <4> HIDE DEF x
      <4>6. (x + 1) % COUNTER = (q + 1) % COUNTER
        BY <2>1, <4>4, <4>5, CountOn
      <4>7. Dsp!PacketsTold'
        BY <4>3, <4>4, <4>6 DEF Dsp!PacketsTold
      <4> QED
        BY <4>1, <4>3, <4>4, <4>7 DEF DspInv
    <3>4. CASE ~ (due /\ fits)
      <4>1. ann.reset \in Nat /\ ann.sent = counters.sent /\ ann.told = <<>>
        BY <2>1, <3>4 DEF Dsp!jd_services_announce
      <4> HIDE DEF ann
      <4>2. q + Len(ann.told) = q /\ (IF ann.told = <<>> THEN a ELSE a + ann.told[1]) = a
        BY <2>1, <4>1
      <4>3. noted'.queued = q /\ noted'.announced = a /\ DOMAIN noted' = NoteFields
             /\ counters' = [reset |-> ann.reset, sent |-> counters.sent]
        BY <2>1, <3>1, <3>2, <4>1, <4>2 DEF NoteFields
      <4>4. Dsp!PacketsTold'
        BY <2>1, <4>3 DEF Dsp!PacketsTold
      <4> QED
        BY <2>1, <4>1, <4>3, <4>4 DEF DspInv
    <3> QED
      BY <3>3, <3>4
  <2>4. ASSUME Dsp!jd_services_packet_queued
        PROVE  DspInv'
    <3> DEFINE y == counters.sent + 1
    <3>1. counters' = [counters EXCEPT !.sent = y % COUNTER] /\ noted' = [noted EXCEPT !.queued = q + 1]
      BY <2>4 DEF Dsp!jd_services_packet_queued
    <3>2. y % COUNTER \in 0 .. COUNTER - 1 /\ y \in Nat
      BY <2>1
    <3>3. counters' \in [reset : Nat, sent : Nat] /\ counters'.sent = y % COUNTER
      BY <3>1, <3>2 DEF DspInv
    <3>4. noted'.queued = q + 1 /\ noted'.announced = a /\ q + 1 \in Nat /\ DOMAIN noted' = NoteFields
      BY <2>1, <3>1 DEF NoteFields
    <3>5. Dsp!PacketsTold'
      <4> DEFINE x == a + counters.sent
      <4>1. x \in Nat /\ y + a = x + 1
        BY <2>1
      <4>2. x % COUNTER = q % COUNTER
        BY <2>1
      <4> HIDE DEF x, y
      <4>3. ((y % COUNTER) + a) % COUNTER = (y + a) % COUNTER
        BY <2>1, <3>2, ClockSum
      <4>4. a + (y % COUNTER) = (y % COUNTER) + a
        BY <2>1, <3>2
      <4>5. (x + 1) % COUNTER = (q + 1) % COUNTER
        BY <2>1, <4>1, <4>2, CountOn
      <4> QED
        BY <3>3, <3>4, <4>1, <4>3, <4>4, <4>5 DEF Dsp!PacketsTold
    <3> QED
      BY <2>1, <3>3, <3>4, <3>5 DEF DspInv
  <2>5. CASE \/ \E c \in Classes : Dsp!jd_allocate_service(c)
             \/ Dsp!jd_services_init
             \/ \E f \in Frames : Dsp!jd_rx_frame_received(f)
             \/ Dsp!Tick
             \/ UNCHANGED Dsp!vars
    BY <2>2, <2>5 DEF Dsp!jd_allocate_service, Dsp!jd_services_init, Dsp!jd_rx_frame_received, Dsp!Tick, Dsp!vars
  <2> QED
    BY <2>3, <2>4, <2>5 DEF Dsp!Next
<1>3. DspInv => Dsp!PacketsTold
  BY DEF DspInv
<1> QED
  BY <1>1, <1>2, <1>3, PTL DEF Dsp!Spec
=============================================================================
