----------------------------- MODULE JdPhysical -----------------------------
(***************************************************************************)
(* One device's side of the single-wire bus: source/jd_physical.c (the     *)
(* bus state machine) with source/interfaces/tx_queue.c (outgoing frames)  *)
(* and source/interfaces/simple_rx.c (incoming frames).                    *)
(*                                                                         *)
(* Three contexts run it, each preempting the ones before:                 *)
(*   main   the main loop: jd_send, jd_tx_flush, and the handling of       *)
(*          received frames;                                               *)
(*   timer  the callback of the one hardware timer.  It is interrupted     *)
(*          wherever it does not mask interrupts, so it has a program      *)
(*          counter, tpc; the callback may start late, after the event it  *)
(*          was waiting for;                                               *)
(*   uart   jd_line_falling, jd_rx_completed and jd_tx_completed, at the   *)
(*          highest level, hence one step each.                            *)
(* Main has a program counter, mpc, for the same reason; it runs only      *)
(* while no callback does (one core).                                      *)
(*                                                                         *)
(* A packet is a number, a frame a sequence of packets.  Time is left out: *)
(* a set timer may fire at any moment.                                     *)
(***************************************************************************)
EXTENDS Integers, Sequences, SequencesExt

CONSTANTS
  Builds,      \* the configurations of the program, see build
  RAW_FRAME,   \* JD_RAW_FRAME: power.c's urgent frame exists
  MaxPackets,  \* bound: packets the application sends
  MaxRefusals, \* bound: times uart_start_tx finds the line taken
  MaxRaw       \* bound: urgent frames

ASSUME ConstantsAssumption ==
  /\ RAW_FRAME \in BOOLEAN
  /\ \A b \in Builds : /\ b.SEND_FRAME \in BOOLEAN
                       /\ {b.FrameCap, b.SendCap, b.RxCap, b.MaxFalls} \subseteq Nat \ {0}
                       /\ ~ b.SEND_FRAME => b.RxCap = 1
  /\ {MaxPackets, MaxRefusals, MaxRaw} \subseteq Nat

VARIABLES
  build,       \* which configuration runs; it never changes
  (* jd_physical.c *)
  status,      \* phys_status: a subset of {"RX", "TX", "QUEUED"}
  txPending,
  txFrame,     \* what txFrame points to: "none", "raw", "queue", "buf0", "buf1"
  timer,       \* the callback the hardware timer will run, or "none"
  tpc,         \* where the running callback is, or "idle"
  panic,       \* JD_PANIC or a failed JD_ASSERT
  (* the UART *)
  uart,        \* "idle" (waiting for a falling edge), "rx" or "tx"
  rxData,      \* the first bytes of the frame being received have arrived
  onWire,      \* what the frame being transmitted held when it was started
  (* tx_queue.c *)
  sendFrame,   \* the two buffers; buffer 0 is tx_acc_buffer if SEND_FRAME
  bufferPtr, isSending, send_queue, q_sending,
  rawFrame, rawFrameSending,
  mpc,         \* where jd_tx_flush or jd_send is, or "loop"
  waiting,     \* the packet a jd_send that flushes has yet to store, or 0
  (* simple_rx.c *)
  rxq,         \* the received frames that are not released
  handling,    \* the frame the main loop is working on, or 0
  (* history and bounds *)
  accepted,    \* the packets for which jd_send returned 0
  lost,        \* the packets of frames a full send_queue refused
  wire,        \* the packets transmitted
  sends, arrivals, falls, refusals, raws

SEND_FRAME == build.SEND_FRAME \* JD_SEND_FRAME: a send queue (clients, bridges) or two buffers
FrameCap == build.FrameCap     \* packets in a frame
SendCap == build.SendCap       \* frames in send_queue
RxCap == build.RxCap           \* frames in rx_queue (1: frameToHandle)
MaxFalls == build.MaxFalls     \* bound: frames other devices start

phys == <<status, txPending, txFrame, timer, tpc, uart, rxData, onWire>>
txq == <<sendFrame, bufferPtr, isSending, send_queue, q_sending>>
raw == <<rawFrame, rawFrameSending, raws>>
main == <<mpc, waiting>>
rxs == <<rxq, handling, arrivals>>
hist == <<accepted, lost, wire, sends>>
vars == <<phys, panic, txq, raw, main, rxs, hist, falls, refusals>>

------------------------------------------------------------------------------
(* jd_physical.c: the timer *)

\* set_tick_timer(clear), while txPending is pending.  Nothing is scheduled
\* during a reception: its end will do it.
SetTickTimer(clear, pending) ==
  LET st == status \ clear
  IN IF "RX" \in st
     THEN /\ status' = st
          /\ UNCHANGED timer
     ELSE IF pending /\ "TX" \notin st
          THEN /\ status' = st \cup {"QUEUED"}
               /\ timer' = "flush_tx_queue"
          ELSE /\ status' = st \ {"QUEUED"}
               /\ timer' = "tick"

\* jd_packet_ready, from main or from the end of a transmission.
PacketReady ==
  /\ txPending' = TRUE
  /\ IF status = {} THEN SetTickTimer({}, TRUE) ELSE UNCHANGED <<status, timer>>

\* The hardware timer expires and its callback is entered.
TimerFires == /\ tpc = "idle"
              /\ timer # "none"
              /\ tpc' = timer
              /\ timer' = "none"
              /\ UNCHANGED <<status, txPending, txFrame, uart, rxData, onWire, panic,
                             txq, raw, main, rxs, hist, falls, refusals>>

Tick == /\ tpc = "tick"
        /\ SetTickTimer({}, txPending)
        /\ tpc' = "idle"
        /\ UNCHANGED <<txPending, txFrame, uart, rxData, onWire, panic,
                       txq, raw, main, rxs, hist, falls, refusals>>

\* Mutant: the reception is aborted but stays marked as active.
RxTimeoutKeepsRx == /\ uart' = "idle"
                    /\ SetTickTimer({}, txPending)

\* rx_timeout, called or as the timer's callback.
RxTimeout == /\ uart' = "idle"
             /\ SetTickTimer({"RX"}, txPending)

RxTimeoutFires == /\ tpc = "rx_timeout"
                  /\ RxTimeout
                  /\ tpc' = "idle"
                  /\ UNCHANGED <<txPending, txFrame, rxData, onWire, panic,
                                 txq, raw, main, rxs, hist, falls, refusals>>

\* Mutant: no timeout for the whole frame.
SetupRxTimeoutOnce ==
  /\ tpc = "setup_rx_timeout"
  /\ \/ /\ "RX" \in status /\ ~ rxData
        /\ RxTimeout
     \/ /\ "RX" \in status /\ rxData
        /\ UNCHANGED <<timer, status, uart>>
     \/ /\ "RX" \notin status
        /\ SetTickTimer({}, txPending)
        /\ UNCHANGED uart
  /\ tpc' = "idle"
  /\ UNCHANGED <<txPending, txFrame, rxData, onWire, panic,
                 txq, raw, main, rxs, hist, falls, refusals>>

\* setup_rx_timeout: no data after the low pulse, data, or too late.
SetupRxTimeout ==
  /\ tpc = "setup_rx_timeout"
  /\ \/ /\ "RX" \in status /\ ~ rxData
        /\ RxTimeout
     \/ /\ "RX" \in status /\ rxData
        /\ timer' = "rx_timeout"
        /\ UNCHANGED <<status, uart>>
     \/ /\ "RX" \notin status
        /\ SetTickTimer({}, txPending)
        /\ UNCHANGED uart
  /\ tpc' = "idle"
  /\ UNCHANGED <<txPending, txFrame, rxData, onWire, panic,
                 txq, raw, main, rxs, hist, falls, refusals>>
------------------------------------------------------------------------------
(* jd_physical.c and tx_queue.c: transmitting *)

BufName(i) == IF i = 0 THEN "buf0" ELSE "buf1"

\* The packets of the frame a pointer points to.
Content(p) == CASE p = "queue" -> Head(send_queue)
                [] p = "buf0" -> sendFrame[0]
                [] p = "buf1" -> sendFrame[1]
                [] OTHER -> <<>>

\* flush_tx_queue: give way to a reception, or claim the bus.
FlushClaim ==
  /\ tpc = "flush_tx_queue"
  /\ IF status \cap {"RX", "TX"} # {}
     THEN tpc' = "idle" /\ UNCHANGED status
     ELSE tpc' = "get" /\ status' = status \cup {"TX"}
  /\ UNCHANGED <<txPending, txFrame, timer, uart, rxData, onWire, panic,
                 txq, raw, main, rxs, hist, falls, refusals>>

\* jd_tx_get_frame: the urgent frame, the next queued one, or none.
GetRaw == /\ RAW_FRAME /\ rawFrame
          /\ rawFrame' = FALSE /\ rawFrameSending' = TRUE
          /\ txFrame' = "raw"
          /\ UNCHANGED <<txq, panic, raws>>

GetQueued == /\ ~ (RAW_FRAME /\ rawFrame)
             /\ SEND_FRAME
             /\ panic' = (panic \/ q_sending)
             /\ send_queue # <<>>
             /\ q_sending' = TRUE
             /\ txFrame' = "queue"
             /\ UNCHANGED <<sendFrame, bufferPtr, isSending, send_queue, raw>>

GetBuffer == /\ ~ (RAW_FRAME /\ rawFrame)
             /\ ~ SEND_FRAME
             /\ isSending = 1
             /\ isSending' = 2
             /\ txFrame' = BufName(1 - bufferPtr)
             /\ UNCHANGED <<sendFrame, bufferPtr, send_queue, q_sending, raw, panic>>

NothingToGet == /\ ~ (RAW_FRAME /\ rawFrame)
                /\ IF SEND_FRAME THEN send_queue = <<>> ELSE isSending # 1

\* flush_tx_queue: a frame that was refused before is kept for the next try.
FlushGet ==
  /\ tpc = "get"
  /\ txPending' = FALSE
  /\ \/ /\ txFrame # "none"
        /\ tpc' = "start"
        /\ UNCHANGED <<txFrame, status, timer, txq, raw, panic>>
     \/ /\ txFrame = "none"
        /\ GetRaw \/ GetQueued \/ GetBuffer
        /\ tpc' = "start"
        /\ UNCHANGED <<status, timer>>
     \/ /\ txFrame = "none"
        /\ NothingToGet
        /\ SetTickTimer({"TX"}, FALSE)
        /\ tpc' = "idle"
        /\ panic' = (panic \/ (SEND_FRAME /\ q_sending))
        /\ UNCHANGED <<txFrame, txq, raw>>
  /\ UNCHANGED <<uart, rxData, onWire, main, rxs, hist, falls, refusals>>

\* uart_start_tx succeeds: nobody else has pulled the line down.
StartTx ==
  /\ tpc = "start"
  /\ uart = "idle"
  /\ uart' = "tx"
  /\ onWire' = Content(txFrame)
  /\ tpc' = "started"
  /\ UNCHANGED <<status, txPending, txFrame, timer, rxData, panic,
                 txq, raw, main, rxs, hist, falls, refusals>>

\* Mutant: a refused transmission stays marked as active.
StartTxRefusedKeepsTx ==
  /\ tpc = "start"
  /\ uart = "rx" \/ refusals < MaxRefusals
  /\ refusals' = IF uart = "rx" THEN refusals ELSE refusals + 1
  /\ SetTickTimer({}, txPending)
  /\ tpc' = "refused"
  /\ UNCHANGED <<txPending, txFrame, uart, rxData, onWire, panic,
                 txq, raw, main, rxs, hist, falls>>

\* uart_start_tx fails: the line is low, or its falling edge has already
\* interrupted the callback.
StartTxRefused ==
  /\ tpc = "start"
  /\ uart = "rx" \/ refusals < MaxRefusals
  /\ refusals' = IF uart = "rx" THEN refusals ELSE refusals + 1
  /\ SetTickTimer({"TX"}, txPending)
  /\ tpc' = "refused"
  /\ UNCHANGED <<txPending, txFrame, uart, rxData, onWire, panic,
                 txq, raw, main, rxs, hist, falls>>

\* Mutant: the refused frame is not marked as pending again.
FlushRefusedForgets ==
  /\ tpc = "refused"
  /\ tpc' = "idle"
  /\ UNCHANGED <<status, txPending, txFrame, timer, uart, rxData, onWire, panic,
                 txq, raw, main, rxs, hist, falls, refusals>>

\* ... and only now is txPending set again: the next tick will see it.
FlushRefused ==
  /\ tpc = "refused"
  /\ txPending' = TRUE
  /\ tpc' = "idle"
  /\ UNCHANGED <<status, txFrame, timer, uart, rxData, onWire, panic,
                 txq, raw, main, rxs, hist, falls, refusals>>

\* Mutant: no tick while a transmission is under way.
FlushStartedNoTimer ==
  /\ tpc = "started"
  /\ tpc' = "idle"
  /\ UNCHANGED <<status, timer, txPending, txFrame, uart, rxData, onWire, panic,
                 txq, raw, main, rxs, hist, falls, refusals>>

FlushStarted ==
  /\ tpc = "started"
  /\ SetTickTimer({}, txPending)
  /\ tpc' = "idle"
  /\ UNCHANGED <<txPending, txFrame, uart, rxData, onWire, panic,
                 txq, raw, main, rxs, hist, falls, refusals>>

\* jd_tx_frame_sent: whose frame was it?
FrameSent ==
  IF RAW_FRAME /\ rawFrameSending
  THEN /\ rawFrameSending' = FALSE
       /\ UNCHANGED <<txq, panic>>
  ELSE /\ IF SEND_FRAME
          THEN /\ panic' = (panic \/ ~ q_sending)
               /\ send_queue' = Tail(send_queue)
               /\ q_sending' = FALSE
               /\ UNCHANGED isSending
          ELSE /\ panic' = (panic \/ isSending # 2)
               /\ isSending' = 0
               /\ UNCHANGED <<send_queue, q_sending>>
       /\ UNCHANGED <<sendFrame, bufferPtr, rawFrameSending>>

\* poke_ready finds another frame to send.
MoreToSend == \/ RAW_FRAME /\ rawFrame
              \/ SEND_FRAME /\ send_queue' # <<>>
              \/ ~ SEND_FRAME /\ isSending' # 0

\* jd_tx_completed: the transmission ends, with whatever the buffer held.
TxCompleted ==
  /\ uart = "tx"
  /\ uart' = "idle"
  /\ wire' = wire \o Content(txFrame)
  /\ FrameSent
  /\ txFrame' = "none"
  /\ txPending' = (txPending \/ MoreToSend)
  /\ SetTickTimer({"TX"}, txPending')
  /\ onWire' = <<>>
  /\ UNCHANGED <<tpc, rxData, rawFrame, raws, main, rxs, accepted, lost, sends, falls, refusals>>
------------------------------------------------------------------------------
(* jd_physical.c and simple_rx.c: receiving *)

\* jd_line_falling: another device starts a frame.
LineFalls ==
  /\ uart = "idle"
  /\ falls < MaxFalls
  /\ falls' = falls + 1
  /\ panic' = (panic \/ "RX" \in status)
  /\ status' = status \cup {"RX"}
  /\ rxData' = FALSE
  /\ uart' = "rx"
  /\ timer' = "setup_rx_timeout"
  /\ UNCHANGED <<txPending, txFrame, tpc, onWire, txq, raw, main, rxs, hist, refusals>>

\* jd_line_falling on a line that stays low.
LineStuckLow ==
  /\ uart = "idle"
  /\ falls < MaxFalls
  /\ falls' = falls + 1
  /\ panic' = (panic \/ "RX" \in status)
  /\ rxData' = FALSE
  /\ RxTimeout
  /\ UNCHANGED <<txPending, txFrame, tpc, onWire, txq, raw, main, rxs, hist, refusals>>

\* The first bytes arrive.
RxBytes == /\ uart = "rx"
           /\ ~ rxData
           /\ rxData' = TRUE
           /\ UNCHANGED <<status, txPending, txFrame, timer, tpc, uart, onWire, panic,
                          txq, raw, main, rxs, hist, falls, refusals>>

\* jd_rx_frame_received_core: a frame is stored unless there is no room.
RxStore == /\ arrivals' = arrivals + 1
           /\ rxq' = IF Len(rxq) < RxCap THEN Append(rxq, arrivals') ELSE rxq
           /\ UNCHANGED handling

\* jd_rx_completed: the frame is usable (its size, checksum and version are
\* right) and addressed to this device, or it is not.
RxCompleted(usable) ==
  /\ uart = "rx"
  /\ uart' = "idle"
  /\ SetTickTimer({"RX"}, txPending)
  /\ IF usable /\ rxData THEN RxStore ELSE UNCHANGED rxs
  /\ UNCHANGED <<txPending, txFrame, tpc, rxData, onWire, panic,
                 txq, raw, main, hist, falls, refusals>>

------------------------------------------------------------------------------
(* The main loop *)

\* jd_process_everything_core takes a frame, handles it and releases it.
RxGet == /\ tpc = "idle" /\ mpc = "loop"
         /\ handling = 0
         /\ rxq # <<>>
         /\ handling' = Head(rxq)
         /\ UNCHANGED <<rxq, arrivals, phys, panic, txq, raw, main, hist, falls, refusals>>

RxRelease == /\ tpc = "idle" /\ mpc = "loop"
             /\ handling # 0
             /\ panic' = (panic \/ rxq = <<>>)
             /\ rxq' = Tail(rxq)
             /\ handling' = 0
             /\ UNCHANGED <<arrivals, phys, txq, raw, main, hist, falls, refusals>>

acc == sendFrame[bufferPtr]

\* jd_send: there is room in the frame being filled.
Send == /\ tpc = "idle" /\ mpc = "loop"
        /\ sends < MaxPackets
        /\ sends' = sends + 1
        /\ Len(acc) < FrameCap
        /\ sendFrame' = [sendFrame EXCEPT ![bufferPtr] = Append(@, sends')]
        /\ accepted' = Append(accepted, sends')
        /\ UNCHANGED <<bufferPtr, isSending, send_queue, q_sending, phys, panic, raw,
                       main, rxs, lost, wire, falls, refusals>>

\* jd_send: there is none, and the other buffer is not free yet.
SendOverflow == /\ tpc = "idle" /\ mpc = "loop"
                /\ ~ SEND_FRAME
                /\ sends < MaxPackets
                /\ sends' = sends + 1
                /\ Len(acc) = FrameCap
                /\ UNCHANGED <<phys, panic, txq, raw, main, rxs, accepted, lost, wire,
                               falls, refusals>>

\* jd_send_frame_raw: the frame is queued, or dropped when the queue is full.
PushFrame ==
  /\ IF Len(send_queue) < SendCap
     THEN /\ send_queue' = Append(send_queue, acc)
          /\ UNCHANGED lost
     ELSE /\ lost' = lost \o acc
          /\ UNCHANGED send_queue
  /\ mpc' = "pushed"
  /\ UNCHANGED <<sendFrame, bufferPtr, isSending, q_sending, phys, panic, raw,
                 rxs, accepted, wire, falls, refusals>>

\* jd_send with a send queue: the full frame goes first.
SendFull == /\ tpc = "idle" /\ mpc = "loop"
            /\ SEND_FRAME
            /\ sends < MaxPackets
            /\ sends' = sends + 1
            /\ Len(acc) = FrameCap
            /\ waiting' = sends'
            /\ PushFrame

\* jd_tx_flush with a send queue.
FlushPush == /\ tpc = "idle" /\ mpc = "loop"
             /\ SEND_FRAME
             /\ acc # <<>>
             /\ PushFrame
             /\ UNCHANGED <<waiting, sends>>

\* jd_rx_frame_received_loopback: the device hears its own frame.
Loopback == /\ tpc = "idle" /\ mpc = "pushed"
            /\ RxStore
            /\ mpc' = "queued"
            /\ UNCHANGED <<waiting, phys, panic, txq, raw, hist, falls, refusals>>

\* Mutant: the buffers are swapped while one is being sent.
FlushSwapUnchecked ==
  /\ tpc = "idle" /\ mpc = "loop"
  /\ ~ SEND_FRAME
  /\ acc # <<>>
  /\ bufferPtr' = 1 - bufferPtr
  /\ mpc' = "swapped"
  /\ UNCHANGED <<sendFrame, isSending, send_queue, q_sending, waiting,
                 phys, panic, raw, rxs, hist, falls, refusals>>

\* jd_tx_flush with two buffers: swap them ...
FlushSwap == /\ tpc = "idle" /\ mpc = "loop"
             /\ ~ SEND_FRAME
             /\ acc # <<>>
             /\ isSending = 0
             /\ bufferPtr' = 1 - bufferPtr
             /\ mpc' = "swapped"
             /\ UNCHANGED <<sendFrame, isSending, send_queue, q_sending, waiting,
                            phys, panic, raw, rxs, hist, falls, refusals>>

\* ... and hand the full one over.
FlushMark == /\ tpc = "idle" /\ mpc = "swapped"
             /\ isSending' = 1
             /\ mpc' = "queued"
             /\ UNCHANGED <<sendFrame, bufferPtr, send_queue, q_sending, waiting,
                            phys, panic, raw, rxs, hist, falls, refusals>>

\* Wake up the transmitter.
MainReady == /\ tpc = "idle" /\ mpc \in {"queued", "raw"}
             /\ PacketReady
             /\ mpc' = IF mpc = "raw" THEN "loop" ELSE "ready"
             /\ UNCHANGED <<txFrame, tpc, uart, rxData, onWire, waiting,
                            panic, txq, raw, rxs, hist, falls, refusals>>

\* Mutant: the frame that was sent is not emptied.
FlushResetMissing ==
  /\ tpc = "idle" /\ mpc = "ready"
  /\ mpc' = "loop"
  /\ waiting' = 0
  /\ UNCHANGED <<sendFrame, accepted>>
  /\ UNCHANGED <<bufferPtr, isSending, send_queue, q_sending, phys, panic, raw,
                 rxs, lost, wire, sends, falls, refusals>>

\* jd_reset_frame, and what jd_send had left to do.
FlushReset ==
  /\ tpc = "idle" /\ mpc = "ready"
  /\ mpc' = "loop"
  /\ waiting' = 0
  /\ IF waiting = 0
     THEN /\ sendFrame' = [sendFrame EXCEPT ![bufferPtr] = <<>>]
          /\ UNCHANGED accepted
     ELSE /\ sendFrame' = [sendFrame EXCEPT ![bufferPtr] = <<waiting>>]
          /\ accepted' = Append(accepted, waiting)
  /\ UNCHANGED <<bufferPtr, isSending, send_queue, q_sending, phys, panic, raw,
                 rxs, lost, wire, sends, falls, refusals>>

\* power.c sends its urgent frame when the last one is out.
SendRaw == /\ tpc = "idle" /\ mpc = "loop"
           /\ RAW_FRAME
           /\ ~ rawFrame /\ ~ rawFrameSending
           /\ raws < MaxRaw
           /\ raws' = raws + 1
           /\ rawFrame' = TRUE
           /\ mpc' = "raw"
           /\ UNCHANGED <<rawFrameSending, waiting, phys, panic, txq, rxs, hist,
                          falls, refusals>>

------------------------------------------------------------------------------
\* _jd_phys_start, after jd_tx_init and jd_rx_init.
Init ==
  /\ build \in Builds
  /\ status = {} /\ txPending = FALSE /\ txFrame = "none"
  /\ timer = "tick" /\ tpc = "idle" /\ panic = FALSE
  /\ uart = "idle" /\ rxData = FALSE /\ onWire = <<>>
  /\ sendFrame = [i \in 0 .. 1 |-> <<>>]
  /\ bufferPtr = 0 /\ isSending = 0 /\ send_queue = <<>> /\ q_sending = FALSE
  /\ rawFrame = FALSE /\ rawFrameSending = FALSE
  /\ mpc = "loop" /\ waiting = 0
  /\ rxq = <<>> /\ handling = 0
  /\ accepted = <<>> /\ lost = <<>> /\ wire = <<>>
  /\ sends = 0 /\ arrivals = 0 /\ falls = 0 /\ refusals = 0 /\ raws = 0

Callback == \/ Tick \/ RxTimeoutFires \/ SetupRxTimeout
            \/ FlushClaim \/ FlushGet \/ StartTx \/ StartTxRefused
            \/ FlushRefused \/ FlushStarted

Uart == \/ LineFalls \/ LineStuckLow \/ RxBytes
        \/ \E usable \in BOOLEAN : RxCompleted(usable)
        \/ TxCompleted

Main == \/ RxGet \/ RxRelease
        \/ Send \/ SendOverflow \/ SendFull
        \/ FlushPush \/ Loopback \/ FlushSwap \/ FlushMark
        \/ MainReady \/ FlushReset
        \/ SendRaw

Next == (TimerFires \/ Callback \/ Uart \/ Main) /\ UNCHANGED build

\* The timer keeps expiring and its callbacks finish; a transmission that
\* was started completes; between callbacks the main loop gets to run, so it
\* keeps coming round to jd_tx_flush (jd_services_tick) and finishes what it
\* starts.  Nothing is assumed of the other devices: a reception may never
\* complete.
Fairness ==
  /\ WF_vars(TimerFires)
  /\ WF_vars(Callback)
  /\ WF_vars(TxCompleted)
  /\ SF_vars(FlushPush \/ Loopback \/ FlushSwap \/ FlushMark \/ MainReady \/ FlushReset)

Spec == Init /\ [][Next]_<<vars, build>> /\ Fairness

------------------------------------------------------------------------------
(* Properties. *)

Packets == 1 .. MaxPackets
Callbacks == {"tick", "flush_tx_queue", "setup_rx_timeout", "rx_timeout"}

\* Types; the receive queue of simple_rx.c never holds more than fits.
TypeOK ==
  /\ status \subseteq {"RX", "TX", "QUEUED"}
  /\ txPending \in BOOLEAN /\ panic \in BOOLEAN /\ rxData \in BOOLEAN
  /\ txFrame \in {"none", "raw", "queue", "buf0", "buf1"}
  /\ timer \in Callbacks \cup {"none"}
  /\ tpc \in Callbacks \cup {"idle", "get", "start", "started", "refused"}
  /\ uart \in {"idle", "rx", "tx"}
  /\ sendFrame \in [0 .. 1 -> Seq(Packets)] /\ onWire \in Seq(Packets)
  /\ bufferPtr \in 0 .. 1 /\ isSending \in 0 .. 2
  /\ send_queue \in Seq(Seq(Packets)) /\ Len(send_queue) <= SendCap
  /\ q_sending \in BOOLEAN /\ rawFrame \in BOOLEAN /\ rawFrameSending \in BOOLEAN
  /\ mpc \in {"loop", "pushed", "swapped", "queued", "ready", "raw"}
  /\ waiting \in 0 .. MaxPackets
  /\ rxq \in Seq(Nat) /\ Len(rxq) <= RxCap /\ handling \in Nat
  /\ accepted \in Seq(Packets) /\ lost \in Seq(Packets) /\ wire \in Seq(Packets)

\* jd_line_falling never finds a reception already active, and no JD_ASSERT
\* of jd_tx_get_frame, jd_tx_frame_sent or jd_rx_release_frame fails; no queue
\* or index leaves its range.
NoPanic == TypeOK /\ ~ panic

\* The device never waits for nothing: outside its callback the timer is
\* always set, whatever interrupted what.
TimerNeverLost == tpc = "idle" => timer # "none"

\* The bus is claimed for sending and receiving at once only until the
\* running callback notices.
HalfDuplex == {"RX", "TX"} \subseteq status => tpc \in {"get", "start"}

\* The frame being transmitted is not changed by jd_send or jd_tx_flush until
\* the transmission ends, and a received frame stays where it is while the main
\* loop works on it.
NoTearing ==
  /\ uart = "tx" => Content(txFrame) = onWire
  /\ handling # 0 => rxq # <<>> /\ Head(rxq) = handling

\* The packets between jd_send and the wire, oldest first.
Handed == IF mpc = "swapped" \/ isSending # 0 THEN sendFrame[1 - bufferPtr] ELSE <<>>
Filling == IF mpc \in {"pushed", "swapped", "queued", "ready"} THEN <<>> ELSE acc
Outgoing == (IF SEND_FRAME THEN FlattenSeq(send_queue) ELSE Handed) \o Filling

\* Packets are numbered as jd_send gets them: none is there twice, and none has
\* overtaken another.
InOrder(s) == \A i, j \in 1 .. Len(s) : i < j => s[i] < s[j]

\* Every packet jd_send accepted is transmitted once, in order, unless a
\* full send queue dropped its frame (and then the whole frame).
Conservation ==
  /\ InOrder(wire \o Outgoing)
  /\ Range(wire \o Outgoing) = Range(accepted) \ Range(lost)

\* Once the other devices let it, everything accepted reaches the wire.
EventuallySent ==
  \A p \in Packets :
    (\E i \in 1 .. Len(accepted) : accepted[i] = p) ~>
      (\E i \in 1 .. Len(wire \o lost) : (wire \o lost)[i] = p)

\* A reception ends, also when the sender falls silent in the middle.
ReceptionEnds == "RX" \in status ~> "RX" \notin status
=============================================================================
