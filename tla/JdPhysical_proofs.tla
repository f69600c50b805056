------------------------- MODULE JdPhysical_proofs -------------------------
(***************************************************************************)
(* Proofs about the bus state machine, for every build and every bound.    *)
(*                                                                         *)
(* None of the properties is inductive.  That a timer is always set depends *)
(* on which context owns the bus at each program counter of the callback   *)
(* (BusInv); that no assertion fails, and that a frame does not change     *)
(* while it is sent, on the transmit queue and the state machine agreeing  *)
(* on whose frame txFrame is (OwnerInv); that no packet is lost, on the    *)
(* numbers of the packets still to come being larger (NumberInv).          *)
(*                                                                         *)
(* The second part is about the packets in a frame (JdFrame): they lie one *)
(* behind the other, and the receiver moves each to the front.             *)
(*                                                                         *)
(* The third part is about the USB bridge (JdUsb): the bytes on the line   *)
(* and in the chunk lead the receiver to a state that matches what the     *)
(* sender has still to send (UsbInv).                                      *)
(***************************************************************************)
EXTENDS JdPhysical, SequenceFacts

\* The bus: a reception is marked exactly while the UART receives, and has a
\* timer of its own or the callback that will set it; a transmission is
\* marked while the callback prepares it and while the UART transmits; a
\* callback that does not set the timer again leaves one that is set.
ReceptionInv ==
  /\ "RX" \in status <=> uart = "rx"
  /\ "RX" \in status => \/ timer \in {"setup_rx_timeout", "rx_timeout"}
                        \/ tpc \in {"setup_rx_timeout", "rx_timeout"}
  /\ timer \in {"setup_rx_timeout", "rx_timeout"} => "RX" \in status
  /\ tpc \in {"setup_rx_timeout", "rx_timeout"} => uart # "tx"

ClaimInv ==
  /\ "TX" \in status <=> (tpc \in {"get", "start"} \/ uart = "tx")
  /\ tpc \in {"get", "start"} => uart # "tx"
  /\ tpc \in {"flush_tx_queue", "refused"} => "TX" \notin status
  /\ tpc = "idle" /\ timer = "flush_tx_queue" => "TX" \notin status
  /\ tpc \in {"idle", "refused"} => timer # "none"

BusInv == ReceptionInv /\ ClaimInv

\* Whose frame txFrame is, as jd_tx_get_frame said and as jd_tx_frame_sent
\* will find.  The buffer handed over is never the one being filled.
OwnerInv ==
  /\ txFrame = "raw" <=> rawFrameSending
  /\ rawFrameSending => RAW_FRAME
  /\ txFrame = "queue" <=> q_sending
  /\ q_sending => SEND_FRAME /\ send_queue # <<>>
  /\ isSending = 2 <=> txFrame \in {"buf0", "buf1"}
  /\ isSending = 2 => txFrame = BufName(1 - bufferPtr)
  /\ isSending # 0 => ~ SEND_FRAME
  /\ mpc = "swapped" => isSending = 0 /\ ~ SEND_FRAME
  /\ tpc \in {"start", "refused"} \/ uart = "tx" => txFrame # "none"

\* The bounds the types of the packets depend on.
CountInv ==
  /\ build \in Builds
  /\ sends \in 0 .. MaxPackets
  /\ arrivals \in Nat

\* The types of TypeOK, those of the state machine apart from the queues'.
PhysType ==
  /\ status \subseteq {"RX", "TX", "QUEUED"}
  /\ txPending \in BOOLEAN /\ panic \in BOOLEAN /\ rxData \in BOOLEAN
  /\ txFrame \in {"none", "raw", "queue", "buf0", "buf1"}
  /\ timer \in Callbacks \cup {"none"}
  /\ tpc \in Callbacks \cup {"idle", "get", "start", "started", "refused"}
  /\ uart \in {"idle", "rx", "tx"}
  /\ bufferPtr \in 0 .. 1 /\ isSending \in 0 .. 2
  /\ q_sending \in BOOLEAN /\ rawFrame \in BOOLEAN /\ rawFrameSending \in BOOLEAN
  /\ mpc \in {"loop", "pushed", "swapped", "queued", "ready", "raw"}

QueueType ==
  /\ sendFrame \in [0 .. 1 -> Seq(Packets)] /\ onWire \in Seq(Packets)
  /\ send_queue \in Seq(Seq(Packets)) /\ Len(send_queue) <= SendCap
  /\ waiting \in 0 .. MaxPackets
  /\ rxq \in Seq(Nat) /\ Len(rxq) <= RxCap /\ handling \in Nat
  /\ accepted \in Seq(Packets) /\ lost \in Seq(Packets) /\ wire \in Seq(Packets)

\* The packets that jd_send has yet to accept have larger numbers than those it
\* accepted, and only accepted packets are dropped.
NumberInv ==
  /\ \A p \in Range(accepted) : p <= sends /\ (waiting # 0 => p < waiting)
  /\ Range(lost) \subseteq Range(accepted)
  /\ waiting <= sends
  /\ waiting # 0 => mpc \in {"pushed", "queued", "ready"}

IInv == CountInv /\ TypeOK /\ ~ panic /\ BusInv /\ OwnerInv /\ NoTearing

------------------------------------------------------------------------------
(* The queues of frames. *)

\* jd_rx_frame_received_core never moves the frame at the head.
LEMMA RxStoreKeepsHead ==
  ASSUME IInv, RxStore, UNCHANGED build
  PROVE  /\ rxq' \in Seq(Nat) /\ Len(rxq') <= RxCap' /\ arrivals' \in Nat
         /\ rxq # <<>> => rxq' # <<>> /\ Head(rxq') = Head(rxq)
<1>1. arrivals' \in Nat
  BY DEF IInv, CountInv, RxStore
<1>2. /\ rxq \in Seq(Nat)
      /\ Len(rxq) <= RxCap
      /\ RxCap \in Nat
      /\ RxCap' = RxCap
  BY ConstantsAssumption DEF IInv, TypeOK, CountInv, RxCap
<1>3. CASE Len(rxq) < RxCap
  <2>1. rxq' = Append(rxq, arrivals')
    BY <1>3 DEF RxStore
  <2> QED
    BY <1>1, <1>2, <1>3, <2>1, HeadOfAppend
<1>4. CASE ~ (Len(rxq) < RxCap)
  BY <1>1, <1>2, <1>4 DEF RxStore
<1> QED
  BY <1>3, <1>4

\* The frame that is being filled is a frame.
LEMMA AccType ==
  ASSUME IInv
  PROVE  acc \in Seq(Packets)
  BY DEF IInv, TypeOK, acc

\* jd_send_frame_raw never moves the frame at the head of the send queue.
LEMMA PushKeepsHead ==
  ASSUME IInv, PushFrame, UNCHANGED build
  PROVE  /\ send_queue' \in Seq(Seq(Packets)) /\ Len(send_queue') <= SendCap'
         /\ lost' \in Seq(Packets)
         /\ send_queue # <<>> => send_queue' # <<>> /\ Head(send_queue') = Head(send_queue)
<1>1. /\ send_queue \in Seq(Seq(Packets))
      /\ Len(send_queue) <= SendCap
      /\ SendCap \in Nat
      /\ SendCap' = SendCap
      /\ lost \in Seq(Packets)
  BY ConstantsAssumption DEF IInv, TypeOK, CountInv, SendCap
<1>2. CASE Len(send_queue) < SendCap
  <2>1. send_queue' = Append(send_queue, acc) /\ lost' = lost
    BY <1>2 DEF PushFrame
  <2> QED
    BY <1>1, <1>2, <2>1, AccType, HeadOfAppend
<1>3. CASE ~ (Len(send_queue) < SendCap)
  <2>1. send_queue' = send_queue /\ lost' = lost \o acc
    BY <1>3 DEF PushFrame
  <2> QED
    BY <1>1, <1>3, <2>1, AccType, ConcatProperties
<1> QED
  BY <1>2, <1>3

\* A frame that is sent holds packets.
LEMMA ContentType ==
  ASSUME IInv, uart = "tx" \/ tpc = "start"
  PROVE  Content(txFrame) \in Seq(Packets)
<1>1. CASE txFrame = "queue"
  <2>1. send_queue \in Seq(Seq(Packets)) /\ send_queue # <<>>
    BY <1>1 DEF IInv, TypeOK, OwnerInv
  <2> QED
    BY <1>1, <2>1, TailOfQueue DEF Content
<1>2. CASE txFrame # "queue"
  BY <1>2 DEF IInv, TypeOK, Content
<1> QED
  BY <1>1, <1>2

------------------------------------------------------------------------------
(* The inductive invariant, part by part. *)

\* Every step keeps the bus state machine and its timers in agreement.
LEMMA BusStep ==
  ASSUME IInv, Next
  PROVE  BusInv'
<1> USE DEF IInv, TypeOK, Callbacks, BusInv, ReceptionInv, ClaimInv, phys
<1> UNCHANGED build
  BY DEF Next
<1>1. CASE TimerFires
  BY <1>1 DEF TimerFires
<1>2. CASE Tick
  BY <1>2 DEF Tick, SetTickTimer
<1>3. CASE RxTimeoutFires
  BY <1>3 DEF RxTimeoutFires, SetTickTimer, RxTimeout
<1>4. CASE SetupRxTimeout
  BY <1>4 DEF SetupRxTimeout, SetTickTimer, RxTimeout
<1>5. CASE FlushClaim
  BY <1>5 DEF FlushClaim
<1>6. CASE FlushGet
  BY <1>6 DEF FlushGet, SetTickTimer
<1>7. CASE StartTx
  BY <1>7 DEF StartTx
<1>8. CASE StartTxRefused
  BY <1>8 DEF StartTxRefused, SetTickTimer
<1>9. CASE FlushRefused
  BY <1>9 DEF FlushRefused
<1>10. CASE FlushStarted
  BY <1>10 DEF FlushStarted, SetTickTimer
<1>11. CASE LineFalls
  BY <1>11 DEF LineFalls
<1>12. CASE LineStuckLow
  BY <1>12 DEF LineStuckLow, SetTickTimer, RxTimeout
<1>13. CASE RxBytes
  BY <1>13 DEF RxBytes
<1>14. ASSUME NEW usable \in BOOLEAN, RxCompleted(usable)
      PROVE  BusInv'
  BY <1>14 DEF RxCompleted, SetTickTimer
<1>15. CASE TxCompleted
  BY <1>15 DEF TxCompleted, SetTickTimer
<1>16. CASE RxGet
  BY <1>16 DEF RxGet
<1>17. CASE RxRelease
  BY <1>17 DEF RxRelease
<1>18. CASE Send
  BY <1>18 DEF Send
<1>19. CASE SendOverflow
  BY <1>19 DEF SendOverflow
<1>20. CASE SendFull
  BY <1>20 DEF SendFull, PushFrame
<1>21. CASE FlushPush
  BY <1>21 DEF FlushPush, PushFrame
<1>22. CASE Loopback
  BY <1>22 DEF Loopback
<1>23. CASE FlushSwap
  BY <1>23 DEF FlushSwap
<1>24. CASE FlushMark
  BY <1>24 DEF FlushMark
<1>25. CASE MainReady
  BY <1>25 DEF MainReady, SetTickTimer, PacketReady
<1>26. CASE FlushReset
  BY <1>26 DEF FlushReset
<1>27. CASE SendRaw
  BY <1>27 DEF SendRaw
<1> QED
  BY <1>1, <1>2, <1>3, <1>4, <1>5, <1>6, <1>7, <1>8, <1>9, <1>10, <1>11,
     <1>12, <1>13, <1>14, <1>15, <1>16, <1>17, <1>18, <1>19, <1>20, <1>21,
     <1>22, <1>23, <1>24, <1>25, <1>26, <1>27
  DEF Next, Callback, Uart, Main

\* Every step keeps the transmit queue and the state machine in agreement,
\* and no assertion fails.
LEMMA OwnerStep ==
  ASSUME IInv, Next
  PROVE  OwnerInv' /\ ~ panic'
<1> USE DEF IInv, TypeOK, OwnerInv, NoTearing, SEND_FRAME, phys, txq, raw, main, rxs
<1> UNCHANGED build
  BY DEF Next
<1>1. CASE TimerFires
  BY <1>1 DEF TimerFires, Callbacks
<1>2. CASE Tick
  BY <1>2 DEF Tick
<1>3. CASE RxTimeoutFires
  BY <1>3 DEF RxTimeoutFires, RxTimeout
<1>4. CASE SetupRxTimeout
  BY <1>4 DEF SetupRxTimeout, RxTimeout
<1>5. CASE FlushClaim
  BY <1>5 DEF FlushClaim, BusInv, ClaimInv
<1>6. CASE FlushGet
  <2>1. /\ tpc = "get" /\ tpc' \in {"start", "idle"}
        /\ txFrame = "none" \/ UNCHANGED <<txFrame, txq, raw, panic>>
        /\ UNCHANGED <<uart, mpc>>
    BY <1>6 DEF FlushGet
  <2>2. uart # "tx"
    BY <2>1 DEF BusInv, ClaimInv
  <2>3. CASE txFrame # "none"
    BY <2>1, <2>2, <2>3
  <2>4. CASE txFrame = "none" /\ GetRaw
    BY <2>1, <2>2, <2>4 DEF GetRaw
  <2>5. CASE txFrame = "none" /\ GetQueued
    BY <2>1, <2>2, <2>5 DEF GetQueued
  <2>6. CASE txFrame = "none" /\ GetBuffer
    BY <2>1, <2>2, <2>6 DEF GetBuffer, BufName
  <2>7. CASE txFrame = "none" /\ NothingToGet /\ tpc' = "idle"
             /\ panic' = (panic \/ (SEND_FRAME /\ q_sending))
             /\ UNCHANGED <<txFrame, txq, raw>>
    BY <2>1, <2>2, <2>7
  <2> QED
    BY <1>6, <2>3, <2>4, <2>5, <2>6, <2>7 DEF FlushGet
<1>7. CASE StartTx
  BY <1>7 DEF StartTx, BusInv, ClaimInv
<1>8. CASE StartTxRefused
  BY <1>8 DEF StartTxRefused
<1>9. CASE FlushRefused
  BY <1>9 DEF FlushRefused
<1>10. CASE FlushStarted
  BY <1>10 DEF FlushStarted
<1>11. CASE LineFalls
  BY <1>11 DEF LineFalls, BusInv, ReceptionInv
<1>12. CASE LineStuckLow
  BY <1>12 DEF LineStuckLow, BusInv, ReceptionInv, RxTimeout
<1>13. CASE RxBytes
  BY <1>13 DEF RxBytes
<1>14. ASSUME NEW usable \in BOOLEAN, RxCompleted(usable)
      PROVE  OwnerInv' /\ ~ panic'
  BY <1>14 DEF RxCompleted, RxStore
<1>15. CASE TxCompleted
  BY SMTT(30), <1>15 DEF TxCompleted, BusInv, ClaimInv, FrameSent
<1>16. CASE RxGet
  BY <1>16 DEF RxGet
<1>17. CASE RxRelease
  BY <1>17 DEF RxRelease
<1>18. CASE Send
  BY <1>18 DEF Send
<1>19. CASE SendOverflow
  BY <1>19 DEF SendOverflow
<1>20. CASE SendFull
  BY <1>20 DEF SendFull, PushFrame
<1>21. CASE FlushPush
  BY <1>21 DEF FlushPush, PushFrame
<1>22. CASE Loopback
  BY <1>22 DEF Loopback, RxStore
<1>23. CASE FlushSwap
  BY <1>23 DEF FlushSwap, BufName
<1>24. CASE FlushMark
  BY <1>24 DEF FlushMark
<1>25. CASE MainReady
  BY <1>25 DEF MainReady
<1>26. CASE FlushReset
  BY <1>26 DEF FlushReset
<1>27. CASE SendRaw
  BY <1>27 DEF SendRaw
<1> QED
  BY <1>1, <1>2, <1>3, <1>4, <1>5, <1>6, <1>7, <1>8, <1>9, <1>10, <1>11,
     <1>12, <1>13, <1>14, <1>15, <1>16, <1>17, <1>18, <1>19, <1>20, <1>21,
     <1>22, <1>23, <1>24, <1>25, <1>26, <1>27
  DEF Next, Callback, Uart, Main

\* set_tick_timer leaves a status and a callback that exist.
LEMMA TickType ==
  ASSUME PhysType, NEW clear, NEW pending, SetTickTimer(clear, pending)
  PROVE  /\ status' \subseteq {"RX", "TX", "QUEUED"}
         /\ timer' \in Callbacks \cup {"none"}
<1> DEFINE st == status \ clear
<1>1. /\ status \subseteq {"RX", "TX", "QUEUED"}
      /\ timer \in Callbacks \cup {"none"}
  BY DEF PhysType
<1>2. \/ status' = st /\ timer' = timer
      \/ status' = st \cup {"QUEUED"} /\ timer' = "flush_tx_queue"
      \/ status' = st \ {"QUEUED"} /\ timer' = "tick"
  BY DEF SetTickTimer
<1>3. status' \subseteq st \cup {"QUEUED"}
  BY <1>2
<1>4. timer' \in Callbacks \cup {"none"}
  BY <1>1, <1>2 DEF Callbacks
<1> QED
  BY <1>1, <1>3, <1>4

\* Every step keeps the types of the state machine.
LEMMA PhysTypeStep ==
  ASSUME IInv, Next
  PROVE  PhysType'
<1> USE DEF IInv, TypeOK, PhysType, Callbacks, phys, txq, raw, main
<1> PhysType
  OBVIOUS
<1>1. CASE TimerFires
  BY <1>1 DEF TimerFires
<1>2. CASE Tick
  BY <1>2, TickType DEF Tick
<1>3. CASE RxTimeoutFires
  BY <1>3, TickType DEF RxTimeoutFires, RxTimeout
<1>4. CASE SetupRxTimeout
  <2>1. /\ status' \subseteq {"RX", "TX", "QUEUED"}
        /\ timer' \in Callbacks \cup {"none"}
    BY <1>4, TickType DEF SetupRxTimeout, RxTimeout
  <2> QED
    BY <1>4, <2>1 DEF SetupRxTimeout, RxTimeout
<1>5. CASE FlushClaim
  <2>1. status' = status \/ status' = status \cup {"TX"}
    BY <1>5 DEF FlushClaim
  <2>2. status' \subseteq {"RX", "TX", "QUEUED"}
    BY <2>1
  <2> QED
    BY <1>5, <2>2 DEF FlushClaim
<1>6. CASE FlushGet
  <2>1. /\ status' \subseteq {"RX", "TX", "QUEUED"}
        /\ timer' \in Callbacks \cup {"none"}
    BY <1>6, TickType DEF FlushGet
  <2>2. panic' \in BOOLEAN
    BY <1>6 DEF FlushGet, GetRaw, GetQueued, GetBuffer
  <2>3. q_sending' \in BOOLEAN /\ rawFrame' \in BOOLEAN /\ rawFrameSending' \in BOOLEAN
    BY <1>6 DEF FlushGet, GetRaw, GetQueued, GetBuffer
  <2>5. bufferPtr' \in 0 .. 1 /\ isSending' \in 0 .. 2
    <3>1. bufferPtr' = bufferPtr /\ isSending' \in {isSending, 2}
      BY <1>6 DEF FlushGet, GetRaw, GetQueued, GetBuffer
    <3> QED
      BY <3>1
  <2>4. txFrame' \in {"none", "raw", "queue", "buf0", "buf1"}
    BY <1>6 DEF FlushGet, GetRaw, GetQueued, GetBuffer, BufName
  <2> QED
    BY <1>6, <2>1, <2>2, <2>3, <2>4, <2>5 DEF FlushGet
<1>7. CASE StartTx
  BY <1>7 DEF StartTx
<1>8. CASE StartTxRefused
  BY <1>8, TickType DEF StartTxRefused
<1>9. CASE FlushRefused
  BY <1>9 DEF FlushRefused
<1>10. CASE FlushStarted
  BY <1>10, TickType DEF FlushStarted
<1>11. CASE LineFalls
  BY ZenonT(120), <1>11 DEF LineFalls
<1>12. CASE LineStuckLow
  <2>1. /\ status' \subseteq {"RX", "TX", "QUEUED"}
        /\ timer' \in Callbacks \cup {"none"}
    BY <1>12, TickType DEF LineStuckLow, RxTimeout
  <2>2. panic' \in BOOLEAN
    BY <1>12 DEF LineStuckLow
  <2> QED
    BY ZenonT(120), <1>12, <2>1, <2>2 DEF LineStuckLow, RxTimeout
<1>13. CASE RxBytes
  BY <1>13 DEF RxBytes
<1>14. ASSUME NEW usable \in BOOLEAN, RxCompleted(usable)
      PROVE  PhysType'
  BY <1>14, TickType DEF RxCompleted
<1>15. CASE TxCompleted
  <2>1. /\ status' \subseteq {"RX", "TX", "QUEUED"}
        /\ timer' \in Callbacks \cup {"none"}
    BY <1>15, TickType DEF TxCompleted
  <2>2. panic' \in BOOLEAN /\ txPending' \in BOOLEAN
    BY <1>15 DEF TxCompleted, FrameSent
  <2>3. q_sending' \in BOOLEAN /\ rawFrame' \in BOOLEAN /\ rawFrameSending' \in BOOLEAN
    BY <1>15 DEF TxCompleted, FrameSent
  <2>5. bufferPtr' \in 0 .. 1 /\ isSending' \in 0 .. 2
    BY <1>15 DEF TxCompleted, FrameSent
  <2> QED
    BY <1>15, <2>1, <2>2, <2>3, <2>5 DEF TxCompleted
<1>16. CASE RxGet
  BY <1>16 DEF RxGet
<1>17. CASE RxRelease
  BY <1>17 DEF RxRelease
<1>18. CASE Send
  BY <1>18 DEF Send
<1>19. CASE SendOverflow
  BY <1>19 DEF SendOverflow
<1>20. CASE SendFull
  BY <1>20 DEF SendFull, PushFrame
<1>21. CASE FlushPush
  BY <1>21 DEF FlushPush, PushFrame
<1>22. CASE Loopback
  BY <1>22 DEF Loopback
<1>23. CASE FlushSwap
  BY <1>23 DEF FlushSwap
<1>24. CASE FlushMark
  BY <1>24 DEF FlushMark
<1>25. CASE MainReady
  BY ZenonT(40), <1>25, TickType DEF MainReady, PacketReady
<1>26. CASE FlushReset
  BY <1>26 DEF FlushReset
<1>27. CASE SendRaw
  BY <1>27 DEF SendRaw
<1> QED
  BY <1>1, <1>2, <1>3, <1>4, <1>5, <1>6, <1>7, <1>8, <1>9, <1>10, <1>11,
     <1>12, <1>13, <1>14, <1>15, <1>16, <1>17, <1>18, <1>19, <1>20, <1>21,
     <1>22, <1>23, <1>24, <1>25, <1>26, <1>27
  DEF Next, Callback, Uart, Main

\* The queues and the history.
data == <<sendFrame, onWire, send_queue, waiting, rxq, handling, accepted, lost, wire, sends, arrivals>>

\* A step that leaves the queues alone leaves their types alone.
LEMMA QueuesAlone ==
  ASSUME CountInv, QueueType, UNCHANGED data, UNCHANGED build
  PROVE  CountInv' /\ QueueType'
  BY DEF CountInv, QueueType, data, Packets, SendCap, RxCap

\* Every step keeps the types of the queues.
LEMMA QueueTypeStep ==
  ASSUME IInv, Next
  PROVE  CountInv' /\ QueueType'
<1> USE DEF Packets, phys, txq, raw, main, rxs, hist
<1> IInv /\ CountInv /\ PhysType /\ QueueType /\ OwnerInv /\ NoTearing
  BY DEF IInv, TypeOK, PhysType, QueueType
<1> UNCHANGED build
  BY DEF Next
<1>1. CASE TimerFires
  BY <1>1, QueuesAlone DEF TimerFires, data
<1>2. CASE Tick
  BY <1>2, QueuesAlone DEF Tick, data
<1>3. CASE RxTimeoutFires
  BY <1>3, QueuesAlone DEF RxTimeoutFires, data
<1>4. CASE SetupRxTimeout
  BY <1>4, QueuesAlone DEF SetupRxTimeout, data
<1>5. CASE FlushClaim
  BY <1>5, QueuesAlone DEF FlushClaim, data
<1>6. CASE FlushGet
  BY <1>6, QueuesAlone DEF FlushGet, data, GetRaw, GetQueued, GetBuffer
<1>7. CASE StartTx
  BY <1>7, ContentType DEF StartTx, CountInv, QueueType, SendCap, RxCap
<1>8. CASE StartTxRefused
  BY <1>8, QueuesAlone DEF StartTxRefused, data
<1>9. CASE FlushRefused
  BY <1>9, QueuesAlone DEF FlushRefused, data
<1>10. CASE FlushStarted
  BY <1>10, QueuesAlone DEF FlushStarted, data
<1>11. CASE LineFalls
  BY <1>11, QueuesAlone DEF LineFalls, data
<1>12. CASE LineStuckLow
  BY <1>12, QueuesAlone DEF LineStuckLow, data
<1>13. CASE RxBytes
  BY <1>13, QueuesAlone DEF RxBytes, data
<1>14. ASSUME NEW usable \in BOOLEAN, RxCompleted(usable)
      PROVE  CountInv' /\ QueueType'
  <2>1. UNCHANGED <<sendFrame, onWire, send_queue, waiting, handling, accepted, lost, wire, sends>>
    BY <1>14 DEF RxCompleted, RxStore
  <2>2. CASE RxStore
    BY <2>1, <2>2, RxStoreKeepsHead DEF CountInv, QueueType, SendCap
  <2>3. CASE UNCHANGED rxs
    BY <2>1, <2>3, QueuesAlone DEF data
  <2> QED
    BY <1>14, <2>2, <2>3 DEF RxCompleted
<1>15. CASE TxCompleted
  <2>1. /\ wire' \in Seq(Packets)
        /\ onWire' \in Seq(Packets)
    BY <1>15, ContentType, ConcatProperties DEF TxCompleted, QueueType
  <2>2. /\ send_queue' \in Seq(Seq(Packets))
        /\ Len(send_queue') <= SendCap
    <3>1. CASE q_sending /\ send_queue' = Tail(send_queue)
      <4>1. Len(send_queue) \in Nat /\ SendCap \in Nat
        BY ConstantsAssumption DEF CountInv, QueueType, SendCap
      <4> QED
        BY <3>1, <4>1, TailOfQueue DEF OwnerInv, QueueType
    <3>2. CASE send_queue' = send_queue
      BY <3>2 DEF QueueType
    <3> QED
      BY <1>15, <3>1, <3>2, OwnerStep DEF TxCompleted, FrameSent, SEND_FRAME
  <2>3. UNCHANGED <<sendFrame, waiting, rxq, handling, accepted, lost, sends, arrivals>>
    BY <1>15 DEF TxCompleted, FrameSent
  <2> QED
    BY <2>1, <2>2, <2>3 DEF CountInv, QueueType, SendCap, RxCap
<1>16. CASE RxGet
  BY <1>16, TailOfQueue DEF RxGet, CountInv, QueueType, SendCap, RxCap
<1>17. CASE RxRelease
  <2>1. Len(rxq) \in Nat /\ RxCap \in Nat /\ rxq # <<>>
    BY <1>17, ConstantsAssumption DEF RxRelease, NoTearing, CountInv, QueueType, RxCap
  <2>2. rxq' \in Seq(Nat) /\ Len(rxq') <= RxCap
    BY <1>17, <2>1, TailOfQueue DEF RxRelease, QueueType
  <2> QED
    BY <1>17, <2>2 DEF RxRelease, CountInv, QueueType, SendCap, RxCap
<1>18. CASE Send
  <2>1. sends' \in Packets
    BY <1>18, ConstantsAssumption DEF Send, CountInv
  <2>2. /\ sendFrame' \in [0 .. 1 -> Seq(Packets)]
        /\ accepted' \in Seq(Packets)
    BY <1>18, <2>1, AccType, AppendProperties DEF Send, acc, QueueType, PhysType
  <2> QED
    BY <1>18, <2>1, <2>2 DEF Send, CountInv, QueueType, SendCap, RxCap
<1>19. CASE SendOverflow
  <2>1. sends' \in 0 .. MaxPackets
    BY <1>19, ConstantsAssumption DEF SendOverflow, CountInv
  <2> QED
    BY <1>19, <2>1 DEF SendOverflow, CountInv, QueueType, SendCap, RxCap
<1>20. CASE SendFull
  <2>1. sends' \in Packets /\ waiting' = sends' /\ PushFrame
    BY <1>20, ConstantsAssumption DEF SendFull, CountInv
  <2> QED
    BY SMTT(90), <2>1, PushKeepsHead DEF PushFrame, CountInv, QueueType, RxCap
<1>21. CASE FlushPush
  <2>1. PushFrame /\ UNCHANGED <<waiting, sends>>
    BY <1>21 DEF FlushPush
  <2> QED
    BY <2>1, PushKeepsHead DEF PushFrame, CountInv, QueueType, RxCap
<1>22. CASE Loopback
  <2>1. RxStore
    BY <1>22 DEF Loopback
  <2> QED
    BY <1>22, <2>1, RxStoreKeepsHead DEF Loopback, RxStore, CountInv, QueueType, SendCap
<1>23. CASE FlushSwap
  BY <1>23, QueuesAlone DEF FlushSwap, data
<1>24. CASE FlushMark
  BY <1>24, QueuesAlone DEF FlushMark, data
<1>25. CASE MainReady
  BY <1>25, QueuesAlone DEF MainReady, data
<1>26. CASE FlushReset
  <2>1. waiting = 0 \/ waiting \in Packets
    BY DEF QueueType
  <2>2. <<waiting>> \in Seq(Packets) \/ waiting = 0
    BY <2>1
  <2>3. /\ sendFrame' \in [0 .. 1 -> Seq(Packets)]
        /\ accepted' \in Seq(Packets)
    <3>1. <<>> \in Seq(Packets)
      OBVIOUS
    <3>2. PICK f \in Seq(Packets) : sendFrame' = [sendFrame EXCEPT ![bufferPtr] = f]
      BY <1>26, <2>2, <3>1 DEF FlushReset
    <3>3. sendFrame' \in [0 .. 1 -> Seq(Packets)]
      BY <3>2 DEF QueueType
    <3>4. accepted' \in Seq(Packets)
      <4>1. accepted \in Seq(Packets)
        BY DEF QueueType
      <4>2. accepted' = accepted \/ (waiting \in Packets /\ accepted' = Append(accepted, waiting))
        BY <1>26, <2>1 DEF FlushReset
      <4>3. \A p \in Packets : Append(accepted, p) \in Seq(Packets)
        BY <4>1, AppendProperties
      <4> QED
        BY <4>1, <4>2, <4>3
    <3> QED
      BY <3>3, <3>4
  <2> QED
    BY <1>26, <2>3, ConstantsAssumption DEF FlushReset, CountInv, QueueType, SendCap, RxCap
<1>27. CASE SendRaw
  BY <1>27, QueuesAlone DEF SendRaw, data
<1> QED
  BY <1>1, <1>2, <1>3, <1>4, <1>5, <1>6, <1>7, <1>8, <1>9, <1>10, <1>11,
     <1>12, <1>13, <1>14, <1>15, <1>16, <1>17, <1>18, <1>19, <1>20, <1>21,
     <1>22, <1>23, <1>24, <1>25, <1>26, <1>27
  DEF Next, Callback, Uart, Main

\* No step changes the frame being sent or the frame being handled.
LEMMA TearStep ==
  ASSUME IInv, Next
  PROVE  NoTearing'
<1> USE DEF IInv, TypeOK, NoTearing, phys, txq, raw, main, rxs
<1> UNCHANGED build
  BY DEF Next
<1>1. CASE TimerFires
  BY <1>1 DEF TimerFires, Content
<1>2. CASE Tick
  BY <1>2 DEF Tick, Content
<1>3. CASE RxTimeoutFires
  BY <1>3 DEF RxTimeoutFires, RxTimeout, Content
<1>4. CASE SetupRxTimeout
  BY <1>4 DEF SetupRxTimeout, RxTimeout, Content
<1>5. CASE FlushClaim
  BY <1>5 DEF FlushClaim, Content
<1>6. CASE FlushGet
  BY <1>6 DEF FlushGet, Content, BusInv, ClaimInv
<1>7. CASE StartTx
  BY <1>7 DEF StartTx, Content, OwnerInv, BufName, SEND_FRAME
<1>8. CASE StartTxRefused
  BY <1>8 DEF StartTxRefused, Content
<1>9. CASE FlushRefused
  BY <1>9 DEF FlushRefused, Content
<1>10. CASE FlushStarted
  BY <1>10 DEF FlushStarted, Content
<1>11. CASE LineFalls
  BY <1>11 DEF LineFalls, Content
<1>12. CASE LineStuckLow
  BY <1>12 DEF LineStuckLow, RxTimeout, Content
<1>13. CASE RxBytes
  BY <1>13 DEF RxBytes, Content
<1>14. ASSUME NEW usable \in BOOLEAN, RxCompleted(usable)
      PROVE  NoTearing'
  <2>1. CASE RxStore
    BY <1>14, <2>1, RxStoreKeepsHead DEF RxCompleted, RxStore, Content
  <2>2. CASE UNCHANGED rxs
    BY <1>14, <2>2 DEF RxCompleted, Content
  <2> QED
    BY <1>14, <2>1, <2>2 DEF RxCompleted
<1>15. CASE TxCompleted
  BY <1>15 DEF TxCompleted, Content
<1>16. CASE RxGet
  BY <1>16 DEF RxGet, Content
<1>17. CASE RxRelease
  BY <1>17 DEF RxRelease, Content
<1>18. CASE Send
  BY <1>18 DEF Send, acc, Content, OwnerInv, BufName, SEND_FRAME
<1>19. CASE SendOverflow
  BY <1>19 DEF SendOverflow, acc, Content
<1>20. CASE SendFull
  BY <1>20, PushKeepsHead DEF SendFull, PushFrame, Content, OwnerInv
<1>21. CASE FlushPush
  BY <1>21, PushKeepsHead DEF FlushPush, PushFrame, Content, OwnerInv
<1>22. CASE Loopback
  BY <1>22, RxStoreKeepsHead DEF Loopback, RxStore, Content
<1>23. CASE FlushSwap
  BY <1>23 DEF FlushSwap, Content, OwnerInv, BufName, SEND_FRAME
<1>24. CASE FlushMark
  BY <1>24 DEF FlushMark, Content
<1>25. CASE MainReady
  BY <1>25 DEF MainReady, Content
<1>26. CASE FlushReset
  <2>1. sendFrame'[1 - bufferPtr] = sendFrame[1 - bufferPtr]
    BY <1>26 DEF FlushReset
  <2> QED
    BY <1>26, <2>1 DEF FlushReset, Content, OwnerInv, BufName
<1>27. CASE SendRaw
  BY <1>27 DEF SendRaw, Content
<1> QED
  BY <1>1, <1>2, <1>3, <1>4, <1>5, <1>6, <1>7, <1>8, <1>9, <1>10, <1>11,
     <1>12, <1>13, <1>14, <1>15, <1>16, <1>17, <1>18, <1>19, <1>20, <1>21,
     <1>22, <1>23, <1>24, <1>25, <1>26, <1>27
  DEF Next, Callback, Uart, Main

------------------------------------------------------------------------------
(* Conservation. *)

\* What RangeOfSeq and the operations on sequences make of the numbers.
LEMMA RangeAppend ==
  ASSUME NEW S, NEW s \in Seq(S), NEW e \in S
  PROVE  Range(Append(s, e)) = Range(s) \cup {e}
<1>1. Append(s, e) = s \o <<e>>
  BY AppendIsConcat
<1>2. <<e>> \in Seq(S) /\ Range(<<e>>) = {e}
  BY DEF Range
<1>3. Range(s \o <<e>>) = Range(s) \cup Range(<<e>>)
  BY ZenonT(40), <1>2, RangeConcatenation
<1> QED
  BY <1>1, <1>2, <1>3

\* Conservation, of the packets w on their way, a accepted and l lost; and p is
\* the number of a packet that is still to come.
Conserved(w, a, l) == InOrder(w) /\ Range(w) = Range(a) \ Range(l)
Above(p, a) == \A q \in Range(a) : q < p

\* A packet with a larger number than all that were accepted joins the end.
LEMMA AcceptOne ==
  ASSUME NEW w \in Seq(Nat), NEW a \in Seq(Nat), NEW l \in Seq(Nat), NEW p \in Nat,
         Conserved(w, a, l), Range(l) \subseteq Range(a), Above(p, a)
  PROVE  Conserved(Append(w, p), Append(a, p), l)
<1> USE DEF Conserved, Above
<1>1. InOrder(Append(w, p))
  <2> DEFINE n == Len(w)
             v == Append(w, p)
  <2>1. /\ n \in Nat /\ Len(v) = n + 1
        /\ \A i \in 1 .. n : v[i] = w[i]
        /\ v[n + 1] = p
    BY AppendProperties
  <2>2. ASSUME NEW i \in 1 .. n
        PROVE  w[i] < p
    <3>1. w[i] \in Range(w)
      BY DEF Range
    <3> QED
      BY <3>1
  <2>3. \A i, j \in 1 .. n : i < j => w[i] < w[j]
    BY DEF InOrder
  <2> HIDE DEF n, v
  <2>4. ASSUME NEW i \in 1 .. n + 1, NEW j \in 1 .. n + 1, i < j
        PROVE  v[i] < v[j]
    <3>1. i \in 1 .. n /\ (j = n + 1 \/ j \in 1 .. n)
      BY <2>1, <2>4
    <3>2. CASE j = n + 1
      BY <2>1, <2>2, <3>1, <3>2
    <3>3. CASE j \in 1 .. n
      BY <2>1, <2>3, <2>4, <3>1, <3>3
    <3> QED
      BY <3>1, <3>2, <3>3
  <2>5. InOrder(v)
    BY <2>1, <2>4 DEF InOrder
  <2> QED
    BY <2>5 DEF v
<1>2. p \notin Range(l)
  <2>1. p \notin Range(a)
    BY RangeOfSeq
  <2> QED
    BY <2>1
<1> QED
  BY <1>1, <1>2, RangeAppend

\* The frame at the end is dropped as a whole.
LEMMA DropFrame ==
  ASSUME NEW u \in Seq(Nat), NEW v \in Seq(Nat), NEW a \in Seq(Nat), NEW l \in Seq(Nat),
         Conserved(u \o v, a, l)
  PROVE  Conserved(u, a, l \o v) /\ Range(v) \subseteq Range(a)
<1> USE DEF Conserved
<1>1. /\ Len(u) \in Nat /\ Len(v) \in Nat /\ Len(u \o v) = Len(u) + Len(v)
      /\ \A i \in 1 .. Len(u) + Len(v) :
            (u \o v)[i] = IF i <= Len(u) THEN u[i] ELSE v[i - Len(u)]
  BY ConcatProperties
<1>2. \A i \in 1 .. Len(u) : (u \o v)[i] = u[i]
  BY <1>1
<1>3. \A i \in 1 .. Len(v) : (u \o v)[Len(u) + i] = v[i]
  <2> SUFFICES ASSUME NEW i \in 1 .. Len(v)
               PROVE  (u \o v)[Len(u) + i] = v[i]
    OBVIOUS
  <2>1. Len(u) + i \in 1 .. Len(u) + Len(v) /\ ~ (Len(u) + i <= Len(u)) /\ (Len(u) + i) - Len(u) = i
    BY <1>1
  <2> QED
    BY <1>1, <2>1
<1>4. InOrder(u)
  <2> SUFFICES ASSUME NEW i \in 1 .. Len(u), NEW j \in 1 .. Len(u), i < j
               PROVE  u[i] < u[j]
    BY DEF InOrder
  <2>1. i \in 1 .. Len(u \o v) /\ j \in 1 .. Len(u \o v)
    BY <1>1
  <2>2. (u \o v)[i] < (u \o v)[j]
    BY <2>1 DEF InOrder
  <2> QED
    BY <1>2, <2>2
<1>5. \A i \in 1 .. Len(u), j \in 1 .. Len(v) : u[i] < v[j]
  <2> SUFFICES ASSUME NEW i \in 1 .. Len(u), NEW j \in 1 .. Len(v)
               PROVE  u[i] < v[j]
    OBVIOUS
  <2>1. i \in 1 .. Len(u \o v) /\ Len(u) + j \in 1 .. Len(u \o v) /\ i < Len(u) + j
    BY <1>1
  <2>2. (u \o v)[i] < (u \o v)[Len(u) + j]
    BY <2>1 DEF InOrder
  <2> QED
    BY <1>2, <1>3, <2>2
<1>6. Range(u) \cap Range(v) = {}
  <2> SUFFICES ASSUME NEW x, x \in Range(u), x \in Range(v)
               PROVE  FALSE
    OBVIOUS
  <2>1. PICK i \in 1 .. Len(u) : x = u[i]
    BY DEF Range
  <2>2. PICK j \in 1 .. Len(v) : x = v[j]
    BY DEF Range
  <2>3. u[i] \in Nat /\ v[j] \in Nat
    OBVIOUS
  <2>4. u[i] < v[j]
    BY <1>5
  <2>5. x < x /\ x \in Nat
    BY <2>1, <2>2, <2>3, <2>4
  <2> QED
    BY <2>5
<1>7. Range(u \o v) = Range(u) \cup Range(v) /\ Range(l \o v) = Range(l) \cup Range(v)
  BY RangeConcatenation
<1> QED
  BY <1>4, <1>6, <1>7

\* The packets on their way, without the frame that is being filled.
Queued == IF SEND_FRAME THEN FlattenSeq(send_queue) ELSE Handed

\* All of these are sequences of packets, and packets are numbers.
LEMMA OutgoingType ==
  ASSUME IInv
  PROVE  /\ Packets \subseteq Nat
         /\ {wire, lost, accepted, acc, Queued, Filling, Outgoing, wire \o Queued} \subseteq Seq(Packets)
         /\ Outgoing = Queued \o Filling
         /\ wire \o Outgoing = (wire \o Queued) \o Filling
<1>1. Packets \subseteq Nat
  BY ConstantsAssumption DEF Packets
<1>2. wire \in Seq(Packets) /\ lost \in Seq(Packets) /\ accepted \in Seq(Packets)
  BY DEF IInv, TypeOK
<1>3. acc \in Seq(Packets)
  BY AccType
<1>4. Filling \in Seq(Packets)
  BY <1>3 DEF Filling
<1>5. Handed \in Seq(Packets)
  <2>1. 1 - bufferPtr \in 0 .. 1 /\ sendFrame \in [0 .. 1 -> Seq(Packets)]
    BY DEF IInv, TypeOK
  <2>2. sendFrame[1 - bufferPtr] \in Seq(Packets)
    BY <2>1
  <2> QED
    BY <2>2 DEF Handed
<1>6. Queued \in Seq(Packets)
  BY <1>5, FlattenType DEF IInv, TypeOK, Queued
<1>7. Outgoing = Queued \o Filling
  BY DEF Outgoing, Queued
<1>8. Outgoing \in Seq(Packets) /\ wire \o Queued \in Seq(Packets)
  BY <1>2, <1>4, <1>6, <1>7, ConcatProperties
<1> HIDE DEF Queued
<1>9. (wire \o Queued) \o Filling = wire \o (Queued \o Filling)
  BY <1>2, <1>4, <1>6, ConcatAssociative
<1> QED
  BY <1>1, <1>2, <1>3, <1>4, <1>6, <1>7, <1>8, <1>9

\* A step that leaves all of the packets alone.
LEMMA ConservationQuiet ==
  ASSUME NumberInv, Conservation, SEND_FRAME' = SEND_FRAME,
         UNCHANGED <<accepted, lost, sends, waiting, mpc, wire, sendFrame, bufferPtr,
                     isSending, send_queue>>
  PROVE  NumberInv' /\ Conservation'
<1>1. (wire \o Outgoing)' = wire \o Outgoing
  BY DEF Outgoing, Handed, Filling, acc
<1> QED
  BY <1>1 DEF NumberInv, Conservation

\* A step that leaves the packets on their way and those accepted alone.
LEMMA ConservationAlone ==
  ASSUME NumberInv, Conservation, UNCHANGED <<accepted, lost, sends, waiting>>,
         waiting # 0 => mpc' \in {"pushed", "queued", "ready"},
         (wire \o Outgoing)' = wire \o Outgoing
  PROVE  NumberInv' /\ Conservation'
  BY DEF NumberInv, Conservation, InOrder

\* A packet added to the last of three sequences is added to the whole.
LEMMA ConcatAppend ==
  ASSUME NEW P, NEW s \in Seq(P), NEW t \in Seq(P), NEW p \in P
  PROVE  s \o Append(t, p) = Append(s \o t, p)
<1>1. <<p>> \in Seq(P) /\ s \o t \in Seq(P)
  BY ConcatProperties
<1>2. Append(t, p) = t \o <<p>> /\ Append(s \o t, p) = (s \o t) \o <<p>>
  BY <1>1, AppendIsConcat
<1>3. (s \o t) \o <<p>> = s \o (t \o <<p>>)
  <2> DEFINE r == <<p>>
  <2>1. r \in Seq(P)
    BY <1>1
  <2> HIDE DEF r
  <2>2. (s \o t) \o r = s \o (t \o r)
    BY <2>1, ConcatAssociative
  <2> QED
    BY <2>2 DEF r
<1> QED
  BY <1>2, <1>3

\* The packets on their way after a step.
LEMMA OutgoingNext ==
  IInv' => (wire \o Outgoing = (wire \o Queued) \o Filling)'
<1>1. IInv => wire \o Outgoing = (wire \o Queued) \o Filling
  BY OutgoingType
<1> QED
  BY <1>1, PTL

\* The numbers of accepted packets.
LEMMA CountBounds ==
  ASSUME IInv, NumberInv
  PROVE  /\ sends \in Nat
         /\ \A q \in Range(accepted) : q \in Nat /\ q <= sends /\ q < sends + 1
<1>1. sends \in Nat
  BY ConstantsAssumption DEF IInv, CountInv
<1>2. Range(accepted) \subseteq Nat
  BY OutgoingType, RangeOfSeq
<1> QED
  BY <1>1, <1>2 DEF NumberInv

\* A packet is accepted, with the next number.
LEMMA AcceptNext ==
  ASSUME IInv, NumberInv, Conservation, NEW p \in Nat, Above(p, accepted),
         (wire \o Outgoing)' = Append(wire \o Outgoing, p),
         accepted' = Append(accepted, p), lost' = lost
  PROVE  Conservation'
<1> DEFINE w == wire \o Outgoing
<1>1. w \in Seq(Nat) /\ accepted \in Seq(Nat) /\ lost \in Seq(Nat)
  <2>1. Seq(Packets) \subseteq Seq(Nat)
    BY OutgoingType, SeqMonotonic
  <2>2. w \in Seq(Packets)
    BY OutgoingType, ConcatProperties
  <2> QED
    BY <2>1, <2>2, OutgoingType
<1>2. Conserved(w, accepted, lost) /\ Range(lost) \subseteq Range(accepted)
  BY DEF Conservation, NumberInv, Conserved
<1>3. (wire \o Outgoing)' = Append(w, p)
  OBVIOUS
<1> HIDE DEF w
<1>4. Conserved(Append(w, p), Append(accepted, p), lost)
  BY <1>1, <1>2, AcceptOne
<1> QED
  BY <1>3, <1>4 DEF Conservation, Conserved

\* ... and the bounds hold for it.
LEMMA NumberNext ==
  ASSUME IInv, NumberInv, NEW p \in Nat, p \in Packets, Above(p, accepted),
         accepted' = Append(accepted, p), lost' = lost,
         sends' \in Nat, sends <= sends', p <= sends', waiting' = 0
  PROVE  NumberInv'
<1>1. Range(accepted') = Range(accepted) \cup {p}
  BY OutgoingType, RangeAppend
<1>2. \A q \in Range(accepted) : q <= sends'
  BY CountBounds
<1> QED
  BY <1>1, <1>2 DEF NumberInv

\* jd_send_frame_raw: the frame is on its way, or it is lost as a whole.
LEMMA PushConserves ==
  ASSUME IInv, IInv', NumberInv, Conservation, PushFrame, SEND_FRAME, SEND_FRAME' = SEND_FRAME,
         UNCHANGED <<accepted, wire>>, Filling = acc, Filling' = <<>>
  PROVE  Conservation' /\ Range(lost') \subseteq Range(accepted)
<1> DEFINE u == wire \o Queued
<1>1. /\ wire \o Outgoing = u \o acc
      /\ (wire \o Outgoing)' = (wire \o Queued') \o <<>>
  BY OutgoingType, OutgoingNext
<1>2. /\ u \in Seq(Packets) /\ acc \in Seq(Packets) /\ wire \in Seq(Packets)
      /\ send_queue \in Seq(Seq(Packets)) /\ Queued \in Seq(Packets)
      /\ accepted \in Seq(Packets) /\ lost \in Seq(Packets)
  BY OutgoingType DEF IInv, TypeOK
<1>3. CASE Len(send_queue) < SendCap
  <2>1. send_queue' = Append(send_queue, acc) /\ lost' = lost
    BY <1>3 DEF PushFrame
  <2>2. Queued' = Queued \o acc
    BY <1>2, <2>1, FlattenAppend DEF Queued
  <2>3. (wire \o (Queued \o acc)) \o <<>> = (wire \o Queued) \o acc
    <3> DEFINE a == acc
               q == Queued
    <3>1. a \in Seq(Packets) /\ q \in Seq(Packets)
      BY <1>2
    <3> HIDE DEF a, q
    <3>5. (wire \o q) \o a = wire \o (q \o a)
      BY SMTT(90), <1>2, <3>1, ConcatAssociative
    <3>2. wire \o q \in Seq(Packets)
      BY <1>2, <3>1, ConcatProperties
    <3>3. (wire \o q) \o a \in Seq(Packets)
      BY <3>1, <3>2, ConcatProperties
    <3>4. ((wire \o q) \o a) \o <<>> = (wire \o q) \o a
      BY <3>3, ConcatEmptySeq
    <3> QED
      BY <3>4, <3>5 DEF a, q
  <2>4. (wire \o Outgoing)' = wire \o Outgoing
    BY <1>1, <2>2, <2>3
  <2> QED
    BY <2>1, <2>4 DEF Conservation, NumberInv
<1>4. CASE ~ (Len(send_queue) < SendCap)
  <2>1. send_queue' = send_queue /\ lost' = lost \o acc
    BY <1>4 DEF PushFrame
  <2>2. Queued' = Queued
    BY <2>1 DEF Queued
  <2>3. (wire \o Outgoing)' = u
    BY <1>1, <1>2, <2>2, ConcatEmptySeq
  <2>4. Conserved(u \o acc, accepted, lost)
    BY <1>1 DEF Conservation, Conserved
  <2>5. u \in Seq(Nat) /\ acc \in Seq(Nat) /\ accepted \in Seq(Nat) /\ lost \in Seq(Nat)
    <3>1. Seq(Packets) \subseteq Seq(Nat)
      BY OutgoingType, SeqMonotonic
    <3> QED
      BY <1>2, <3>1
  <2> DEFINE a == acc
  <2>6. Conserved(u \o a, accepted, lost) /\ a \in Seq(Nat)
    BY <2>4, <2>5
  <2> HIDE DEF u, a
  <2>7. Conserved(u, accepted, lost \o a) /\ Range(a) \subseteq Range(accepted)
    BY <2>5, <2>6, DropFrame
  <2>8. Range(lost \o a) = Range(lost) \cup Range(a)
    BY <2>5, <2>6, RangeConcatenation
  <2>9. lost' = lost \o a
    BY <2>1 DEF a
  <2> QED
    BY <2>3, <2>7, <2>8, <2>9 DEF Conservation, Conserved, NumberInv
<1> QED
  BY <1>3, <1>4

\* Every step of every context conserves the packets.
LEMMA ConservationStep ==
  ASSUME IInv, IInv', NumberInv, Conservation, Next
  PROVE  NumberInv' /\ Conservation'
<1> USE DEF phys, txq, raw, main, rxs, hist
<1> UNCHANGED build
  BY DEF Next
<1> SEND_FRAME' = SEND_FRAME
  BY DEF SEND_FRAME
<1> CountInv /\ TypeOK /\ OwnerInv
  BY DEF IInv
<1>1. CASE TimerFires
  BY <1>1, ConservationQuiet DEF TimerFires
<1>2. CASE Tick
  BY <1>2, ConservationQuiet DEF Tick
<1>3. CASE RxTimeoutFires
  BY <1>3, ConservationQuiet DEF RxTimeoutFires, RxTimeout
<1>4. CASE SetupRxTimeout
  BY <1>4, ConservationQuiet DEF SetupRxTimeout, RxTimeout
<1>5. CASE FlushClaim
  BY <1>5, ConservationQuiet DEF FlushClaim
<1>6. CASE FlushGet
  <2>1. UNCHANGED <<accepted, lost, sends, waiting, wire, mpc, sendFrame, bufferPtr, send_queue>>
    BY <1>6 DEF FlushGet, GetRaw, GetQueued, GetBuffer
  <2>2. isSending' = isSending \/ (isSending = 1 /\ isSending' = 2)
    BY <1>6 DEF FlushGet, GetRaw, GetQueued, GetBuffer
  <2>3. (wire \o Outgoing)' = wire \o Outgoing
    <3>1. isSending' # 0 <=> isSending # 0
      BY <2>2
    <3>2. Handed' = Handed /\ Filling' = Filling
      BY <2>1, <3>1 DEF Handed, Filling, acc
    <3> QED
      BY <2>1, <3>2 DEF Outgoing
  <2> QED
    BY <2>1, <2>3, ConservationAlone DEF NumberInv
<1>7. CASE StartTx
  BY <1>7, ConservationQuiet DEF StartTx
<1>8. CASE StartTxRefused
  BY <1>8, ConservationQuiet DEF StartTxRefused
<1>9. CASE FlushRefused
  BY <1>9, ConservationQuiet DEF FlushRefused
<1>10. CASE FlushStarted
  BY <1>10, ConservationQuiet DEF FlushStarted
<1>11. CASE LineFalls
  BY <1>11, ConservationQuiet DEF LineFalls
<1>12. CASE LineStuckLow
  BY <1>12, ConservationQuiet DEF LineStuckLow, RxTimeout
<1>13. CASE RxBytes
  BY <1>13, ConservationQuiet DEF RxBytes
<1>14. ASSUME NEW usable \in BOOLEAN, RxCompleted(usable)
      PROVE  NumberInv' /\ Conservation'
  BY <1>14, ConservationQuiet DEF RxCompleted
<1>15. CASE TxCompleted
  <2>1. UNCHANGED <<accepted, lost, sends, waiting, mpc, sendFrame, bufferPtr>>
    BY <1>15 DEF TxCompleted, FrameSent
  <2>2. wire' = wire \o Content(txFrame) /\ FrameSent
    BY <1>15 DEF TxCompleted
  <2>3. wire' \o Queued' = wire \o Queued
    <3>1. CASE txFrame = "raw"
      <4>1. Content(txFrame) = <<>> /\ wire \o <<>> = wire
        BY <3>1, ConcatEmptySeq, OutgoingType DEF Content
      <4>2. UNCHANGED <<send_queue, isSending>>
        BY <2>2, <3>1 DEF FrameSent, OwnerInv
      <4> QED
        BY <2>1, <2>2, <4>1, <4>2 DEF Queued, Handed
    <3>2. CASE txFrame = "queue"
      <4> DEFINE h == Head(send_queue)
                 t == FlattenSeq(Tail(send_queue))
      <4>1. /\ send_queue \in Seq(Seq(Packets)) /\ send_queue # <<>>
            /\ Content(txFrame) = h
            /\ send_queue' = Tail(send_queue) /\ SEND_FRAME
        BY <2>2, <3>2 DEF FrameSent, OwnerInv, TypeOK, Content
      <4>2. Queued = h \o t /\ Queued' = t
        BY <4>1, FlattenHead DEF Queued
      <4>3. h \in Seq(Packets) /\ t \in Seq(Packets)
        BY <4>1, TailOfQueue, FlattenType
      <4>4. wire \in Seq(Packets)
        BY DEF TypeOK
      <4> HIDE DEF h, t
      <4>5. (wire \o h) \o t = wire \o (h \o t)
        BY <4>3, <4>4, ConcatAssociative
      <4> QED
        BY <2>2, <4>1, <4>2, <4>5
    <3>3. CASE txFrame \in {"buf0", "buf1"}
      <4>1. isSending = 2 /\ isSending' = 0 /\ ~ SEND_FRAME /\ mpc # "swapped"
        BY <2>2, <3>3 DEF FrameSent, OwnerInv
      <4>2. Content(txFrame) = sendFrame[1 - bufferPtr]
        BY <3>3, <4>1 DEF Content, OwnerInv, BufName, TypeOK
      <4>3. Queued = sendFrame[1 - bufferPtr] /\ Queued' = <<>>
        BY <2>1, <4>1 DEF Queued, Handed
      <4>4. wire \o Queued \in Seq(Packets)
        BY OutgoingType
      <4>5. (wire \o Queued) \o <<>> = wire \o Queued
        BY <4>4, ConcatEmptySeq
      <4> QED
        BY <2>2, <4>2, <4>3, <4>5
    <3> QED
      BY <1>15, <3>1, <3>2, <3>3 DEF TxCompleted, OwnerInv, TypeOK
  <2>4. Filling' = Filling
    BY <2>1 DEF Filling, acc
  <2>5. (wire \o Outgoing)' = wire \o Outgoing
    BY <2>3, <2>4, OutgoingNext, OutgoingType
  <2> QED
    BY <2>1, <2>5, ConservationAlone DEF NumberInv
<1>16. CASE RxGet
  BY <1>16, ConservationQuiet DEF RxGet
<1>17. CASE RxRelease
  BY <1>17, ConservationQuiet DEF RxRelease
<1>18. CASE Send
  <2> DEFINE n == sends + 1
  <2>1. /\ UNCHANGED <<lost, waiting, mpc, bufferPtr, isSending, send_queue, wire>>
        /\ mpc = "loop" /\ sends' = n /\ accepted' = Append(accepted, n)
        /\ sendFrame' = [sendFrame EXCEPT ![bufferPtr] = Append(acc, n)]
    BY <1>18 DEF Send, acc
  <2>2. n \in Packets /\ n \in Nat
    BY <1>18, ConstantsAssumption DEF Send, CountInv, Packets
  <2>3. Filling = acc /\ Filling' = Append(acc, n)
    BY <2>1 DEF Filling, acc, TypeOK
  <2>4. wire' \o Queued' = wire \o Queued
    <3>1. sendFrame'[1 - bufferPtr] = sendFrame[1 - bufferPtr]
      BY <2>1 DEF TypeOK
    <3> QED
      BY <2>1, <3>1 DEF Queued, Handed
  <2>5. (wire \o Outgoing)' = Append(wire \o Outgoing, n)
    <3> DEFINE u == wire \o Queued
    <3>1. u \in Seq(Packets) /\ acc \in Seq(Packets) /\ wire \o Outgoing = u \o acc
      BY <2>3, OutgoingType
    <3>2. (wire \o Outgoing)' = u \o Append(acc, n)
      BY <2>3, <2>4, OutgoingNext
    <3> HIDE DEF u, n
    <3>3. u \o Append(acc, n) = Append(u \o acc, n)
      BY <2>2, <3>1, ConcatAppend
    <3> QED
      BY <3>1, <3>2, <3>3
  <2>6. Above(n, accepted)
    BY <2>2, CountBounds DEF Above
  <2>7. waiting' = 0
    BY <2>1 DEF NumberInv
  <2> HIDE DEF n
  <2>8. Conservation'
    BY <2>1, <2>2, <2>5, <2>6, AcceptNext
  <2>9. NumberInv'
    <3>1. n \in Nat /\ sends <= n /\ n <= n
      BY <2>2, CountBounds DEF n
    <3> QED
      BY <2>1, <2>2, <2>6, <2>7, <3>1, NumberNext
  <2> QED
    BY <2>8, <2>9
<1>19. CASE SendOverflow
  <2>1. /\ UNCHANGED <<accepted, lost, waiting, mpc, wire, sendFrame, bufferPtr, isSending, send_queue>>
        /\ sends' = sends + 1 /\ mpc = "loop"
    BY <1>19 DEF SendOverflow
  <2>2. (wire \o Outgoing)' = wire \o Outgoing
    BY <2>1 DEF Outgoing, Handed, Filling, acc
  <2>3. waiting = 0
    BY <2>1 DEF NumberInv
  <2> QED
    BY <2>1, <2>2, <2>3, CountBounds DEF NumberInv, Conservation
<1>20. CASE SendFull
  <2>1. /\ PushFrame /\ SEND_FRAME /\ mpc = "loop" /\ mpc' = "pushed"
        /\ UNCHANGED <<accepted, wire, sendFrame, bufferPtr>>
    BY <1>20 DEF SendFull, PushFrame
  <2>2. Filling = acc /\ Filling' = <<>>
    BY <2>1 DEF Filling
  <2>3. /\ sends' \in {sends, sends + 1}
        /\ \/ waiting' = waiting
           \/ waiting' = sends' /\ sends' = sends + 1
    BY <1>20 DEF SendFull, CountInv
  <2>4. Conservation' /\ Range(lost') \subseteq Range(accepted)
    BY <2>1, <2>2, PushConserves
  <2>5. waiting = 0
    BY <2>1 DEF NumberInv
  <2> QED
    BY <2>1, <2>3, <2>4, <2>5, CountBounds DEF NumberInv, CountInv
<1>21. CASE FlushPush
  <2>1. /\ PushFrame /\ SEND_FRAME /\ mpc = "loop" /\ mpc' = "pushed"
        /\ UNCHANGED <<accepted, wire, sendFrame, bufferPtr>>
    BY <1>21 DEF FlushPush, PushFrame
  <2>2. Filling = acc /\ Filling' = <<>>
    BY <2>1 DEF Filling
  <2>3. /\ sends' \in {sends, sends + 1}
        /\ \/ waiting' = waiting
           \/ waiting' = sends' /\ sends' = sends + 1
    BY <1>21 DEF FlushPush, CountInv
  <2>4. Conservation' /\ Range(lost') \subseteq Range(accepted)
    BY <2>1, <2>2, PushConserves
  <2>5. waiting = 0
    BY <2>1 DEF NumberInv
  <2> QED
    BY <2>1, <2>3, <2>4, <2>5, CountBounds DEF NumberInv, CountInv
<1>22. CASE Loopback
  <2>1. UNCHANGED <<accepted, lost, sends, waiting, wire, sendFrame, bufferPtr, isSending, send_queue>>
    BY <1>22 DEF Loopback
  <2>2. mpc = "pushed" /\ mpc' = "queued"
    BY <1>22 DEF Loopback
  <2>3. Queued' = Queued /\ Filling' = Filling
    BY <2>1, <2>2 DEF Queued, Handed, Filling
  <2> QED
    BY <2>1, <2>2, <2>3, OutgoingNext, OutgoingType, ConservationAlone
<1>23. CASE FlushSwap
  <2>1. /\ UNCHANGED <<accepted, lost, sends, waiting, wire, sendFrame, isSending, send_queue>>
        /\ ~ SEND_FRAME /\ mpc = "loop" /\ mpc' = "swapped"
        /\ isSending = 0 /\ bufferPtr' = 1 - bufferPtr /\ bufferPtr \in 0 .. 1
    BY <1>23 DEF FlushSwap, TypeOK
  <2>2. 1 - (1 - bufferPtr) = bufferPtr
    BY <2>1
  <2>3. Queued = <<>> /\ Filling = acc
    BY <2>1 DEF Queued, Handed, Filling
  <2>4. Queued' = acc /\ Filling' = <<>>
    BY <2>1, <2>2 DEF Queued, Handed, Filling, acc
  <2>5. /\ wire \in Seq(Packets) /\ acc \in Seq(Packets)
        /\ wire \o acc \in Seq(Packets)
    BY OutgoingType, ConcatProperties
  <2>6. (wire \o acc) \o <<>> = wire \o acc /\ wire \o <<>> = wire
    BY <2>5, ConcatEmptySeq
  <2>7. (wire \o Outgoing)' = wire \o Outgoing
    BY <2>1, <2>3, <2>4, <2>6, OutgoingNext, OutgoingType
  <2>8. waiting = 0
    BY <2>1 DEF NumberInv
  <2> QED
    BY <2>1, <2>7, <2>8, ConservationAlone
<1>24. CASE FlushMark
  <2>1. UNCHANGED <<accepted, lost, sends, waiting, wire, sendFrame, bufferPtr, send_queue>>
    BY <1>24 DEF FlushMark
  <2>2. mpc = "swapped" /\ mpc' = "queued" /\ isSending' = 1 /\ ~ SEND_FRAME
    BY <1>24 DEF FlushMark, OwnerInv
  <2>3. Queued' = Queued /\ Filling' = Filling
    BY <2>1, <2>2 DEF Queued, Handed, Filling
  <2> QED
    BY <2>1, <2>2, <2>3, OutgoingNext, OutgoingType, ConservationAlone
<1>25. CASE MainReady
  <2>1. UNCHANGED <<accepted, lost, sends, waiting, wire, sendFrame, bufferPtr, isSending, send_queue>>
    BY <1>25 DEF MainReady
  <2>2. (mpc = "queued" /\ mpc' = "ready") \/ (mpc = "raw" /\ mpc' = "loop")
    BY <1>25 DEF MainReady
  <2>3. Queued' = Queued /\ Filling' = Filling
    BY <2>1, <2>2 DEF Queued, Handed, Filling, acc
  <2> QED
    BY <2>1, <2>2, <2>3, OutgoingNext, OutgoingType, ConservationAlone DEF NumberInv
<1>26. CASE FlushReset
  <2>1. /\ UNCHANGED <<lost, sends, bufferPtr, isSending, send_queue, wire>>
        /\ mpc = "ready" /\ mpc' = "loop" /\ waiting' = 0
    BY <1>26 DEF FlushReset
  <2>2. wire' \o Queued' = wire \o Queued
    <3>1. sendFrame'[1 - bufferPtr] = sendFrame[1 - bufferPtr]
      BY <1>26 DEF FlushReset, TypeOK
    <3> QED
      BY <2>1, <3>1 DEF Queued, Handed
  <2>3. Filling = <<>>
    BY <2>1 DEF Filling
  <2>4. CASE waiting = 0
    <3>1. Filling' = <<>> /\ accepted' = accepted
      BY <1>26, <2>1, <2>4 DEF FlushReset, Filling, acc, TypeOK
    <3>2. (wire \o Outgoing)' = wire \o Outgoing
      BY <2>2, <2>3, <3>1, OutgoingNext, OutgoingType
    <3> QED
      BY <2>1, <2>4, <3>1, <3>2, ConservationAlone
  <2>5. CASE waiting # 0
    <3>1. /\ waiting \in Packets /\ waiting \in Nat /\ waiting <= sends
          /\ Above(waiting, accepted)
      BY <2>5 DEF TypeOK, Packets, NumberInv, Above
    <3>2. Filling' = <<waiting>> /\ accepted' = Append(accepted, waiting)
      BY <1>26, <2>1, <2>5 DEF FlushReset, Filling, acc, TypeOK
    <3>3. Append(<<>>, waiting) = <<waiting>> /\ <<>> \in Seq(Packets)
      OBVIOUS
    <3>4. (wire \o Outgoing)' = Append(wire \o Outgoing, waiting)
      <4> DEFINE u == wire \o Queued
                 e == <<>>
      <4>1. /\ u \in Seq(Packets) /\ e \in Seq(Packets) /\ wire \o Outgoing = u \o e
            /\ (wire \o Outgoing)' = u \o Append(e, waiting)
        BY <2>2, <2>3, <3>2, <3>3, OutgoingType, OutgoingNext
      <4> HIDE DEF u, e
      <4>2. u \o Append(e, waiting) = Append(u \o e, waiting)
        BY <3>1, <4>1, ConcatAppend
      <4> QED
        BY <4>1, <4>2
    <3>5. Conservation'
      BY <2>1, <3>1, <3>2, <3>4, AcceptNext
    <3>6. NumberInv'
      BY <2>1, <3>1, <3>2, CountBounds, NumberNext
    <3> QED
      BY <3>5, <3>6
  <2> QED
    BY <2>4, <2>5
<1>27. CASE SendRaw
  <2>1. UNCHANGED <<accepted, lost, sends, waiting, wire, sendFrame, bufferPtr, isSending, send_queue>>
    BY <1>27 DEF SendRaw
  <2>2. mpc = "loop" /\ mpc' = "raw"
    BY <1>27 DEF SendRaw
  <2>3. Queued' = Queued /\ Filling' = Filling
    BY <2>1, <2>2 DEF Queued, Handed, Filling, acc
  <2> QED
    BY <2>1, <2>2, <2>3, OutgoingNext, OutgoingType, ConservationAlone DEF NumberInv
<1> QED
  BY <1>1, <1>2, <1>3, <1>4, <1>5, <1>6, <1>7, <1>8, <1>9, <1>10, <1>11,
     <1>12, <1>13, <1>14, <1>15, <1>16, <1>17, <1>18, <1>19, <1>20, <1>21,
     <1>22, <1>23, <1>24, <1>25, <1>26, <1>27
  DEF Next, Callback, Uart, Main

------------------------------------------------------------------------------
(* The theorems. *)

\* The state after _jd_phys_start satisfies the inductive invariant.
LEMMA InitInv ==
  ASSUME Init
  PROVE  IInv
<1>1. CountInv
  BY ConstantsAssumption DEF Init, CountInv
<1>2. /\ RxCap \in Nat /\ SendCap \in Nat /\ MaxPackets \in Nat
  BY <1>1, ConstantsAssumption DEF CountInv, RxCap, SendCap
<1>3. TypeOK
  <2>1. PhysType
    BY DEF Init, PhysType, Callbacks
  <2>2. sendFrame \in [0 .. 1 -> Seq(Packets)]
    BY DEF Init
  <2>3. QueueType
    BY <1>2, <2>2 DEF Init, QueueType, Packets
  <2> QED
    BY <2>1, <2>3 DEF TypeOK, PhysType, QueueType
<1>4. BusInv
  BY DEF Init, BusInv, ReceptionInv, ClaimInv
<1>5. OwnerInv
  BY DEF Init, OwnerInv
<1>6. NoTearing /\ ~ panic
  BY DEF Init, NoTearing
<1> QED
  BY <1>1, <1>3, <1>4, <1>5, <1>6 DEF IInv

\* Every step of every context keeps the inductive invariant.
LEMMA StepInv ==
  ASSUME IInv, [Next]_<<vars, build>>
  PROVE  IInv'
<1>1. CASE Next
  <2>1. TypeOK'
    BY <1>1, PhysTypeStep, QueueTypeStep DEF TypeOK, PhysType, QueueType
  <2> QED
    BY <1>1, <2>1, BusStep, OwnerStep, QueueTypeStep, TearStep DEF IInv
<1>2. CASE UNCHANGED <<vars, build>>
  BY <1>2 DEF IInv, CountInv, TypeOK, BusInv, ReceptionInv, ClaimInv, OwnerInv, NoTearing,
              Content, SEND_FRAME, SendCap, RxCap, vars, phys, txq, raw, main, rxs, hist
<1> QED
  BY <1>1, <1>2

\* The inductive invariant holds in every behaviour, for every build.
THEOREM Inductive == Spec => []IInv
<1>1. Init => IInv
  BY InitInv
<1>2. IInv /\ [Next]_<<vars, build>> => IInv'
  BY StepInv
<1> QED
  BY <1>1, <1>2, PTL DEF Spec

\* jd_line_falling never panics, no JD_ASSERT of tx_queue.c and simple_rx.c
\* fails, and no queue or index leaves its range, however the main loop, the
\* timer callback and the UART interrupts interleave.
THEOREM NeverPanics == Spec => []NoPanic
<1>1. IInv => NoPanic
  BY DEF IInv, NoPanic
<1> QED
  BY <1>1, Inductive, PTL

\* Outside its callback the timer is always set: no interleaving leaves the
\* device waiting for nothing.
THEOREM TimerAlwaysSet == Spec => []TimerNeverLost
<1>1. IInv => TimerNeverLost
  BY DEF IInv, BusInv, ClaimInv, TimerNeverLost
<1> QED
  BY <1>1, Inductive, PTL

\* The bus is claimed for both directions at once only while flush_tx_queue
\* prepares a transmission that uart_start_tx has yet to try.
THEOREM BusIsHalfDuplex == Spec => []HalfDuplex
<1>1. IInv => HalfDuplex
  BY DEF IInv, BusInv, ReceptionInv, ClaimInv, HalfDuplex
<1> QED
  BY <1>1, Inductive, PTL

\* The frame on the wire is the frame jd_tx_get_frame handed over, to its end,
\* and a received frame stays where it is until it is released.
THEOREM FramesAreNotTorn == Spec => []NoTearing
<1>1. IInv => NoTearing
  BY DEF IInv
<1> QED
  BY <1>1, Inductive, PTL

\* Every packet jd_send accepted is on the wire or on its way to it, once and in
\* the order it was accepted, unless a full send queue dropped its frame.
THEOREM PacketsConserved == Spec => []Conservation
<1>1. Init => NumberInv /\ Conservation
  <2> SUFFICES ASSUME Init
               PROVE  NumberInv /\ Conservation
    OBVIOUS
  <2>1. wire = <<>> /\ accepted = <<>> /\ lost = <<>> /\ Filling = <<>>
    BY DEF Init, Filling, acc
  <2>2. (IF SEND_FRAME THEN FlattenSeq(send_queue) ELSE Handed) = <<>>
    BY FlattenEmpty DEF Init, Handed
  <2>3. <<>> \o <<>> = <<>> /\ Range(<<>>) = {}
    BY DEF Range
  <2>4. wire \o Outgoing = <<>>
    BY <2>1, <2>2, <2>3 DEF Outgoing
  <2>5. Conservation
    BY <2>1, <2>3, <2>4 DEF Conservation, InOrder
  <2>6. NumberInv
    BY <2>1, <2>3 DEF NumberInv, Init
  <2> QED
    BY <2>5, <2>6
<1>2. /\ IInv /\ IInv' /\ NumberInv /\ Conservation
      /\ [Next]_<<vars, build>>
      => NumberInv' /\ Conservation'
  <2> SUFFICES ASSUME IInv, IInv', NumberInv, Conservation, [Next]_<<vars, build>>
               PROVE  NumberInv' /\ Conservation'
    OBVIOUS
  <2>1. CASE Next
    BY <2>1, ConservationStep
  <2>2. CASE UNCHANGED <<vars, build>>
    BY <2>2, ConservationQuiet DEF vars, phys, txq, main, hist, SEND_FRAME
  <2> QED
    BY <2>1, <2>2
<1> QED
  BY <1>1, <1>2, Inductive, PTL DEF Spec

-----------------------------------------------------------------------------
(***************************************************************************)
(* Frames of packets (JdFrame), for every size of a frame and of packets.  *)
(***************************************************************************)
CONSTANTS PAYLOAD, PacketSizes, DataBytes, MaxSent
VARIABLES buf, bufSize, packed, sentCount, frm, done

Frm == INSTANCE JdFrame WITH
  Sizes <- PacketSizes, Bytes <- DataBytes, data <- buf, size <- bufSize, pushed <- packed,
  sent <- sentCount, rx <- frm, handled <- done

\* No size and no byte of data is the mark.
NoMarks ==
  PAYLOAD \in Nat /\ PacketSizes \subseteq Nat /\ Frm!MARK \notin PacketSizes \cup DataBytes

Packet == [size : Nat, byte : DataBytes \cup {0}]

\* Packets ps take the places off[1], off[2], ... up to sz.
Offsets(off, ps, sz) ==
  /\ ps \in Seq(Packet) /\ off \in [1 .. Len(ps) + 1 -> Nat] /\ off[1] = 0 /\ off[Len(ps) + 1] = sz
  /\ \A i \in 1 .. Len(ps) : off[i + 1] = off[i] + Frm!ALIGN(ps[i].size + 4)
  /\ \A i \in 1 .. Len(ps) : off[i] + ps[i].size + 4 <= PAYLOAD
  /\ \A i, j \in 1 .. Len(ps) + 1 : i <= j => off[i] <= off[j]

\* The packet at a place.
Stored(d, at, p) == d[at] = p.size /\ p.byte = IF p.size = 0 THEN 0 ELSE d[at + 4]

\* A buffer: it reaches to the end of the last word.
Cells == 0 .. PAYLOAD + 3
Buffer(d) == d = [i \in Cells |-> d[i]]
Unmarked(d) == \A i \in Cells : d[i] # Frm!MARK

FilledWith(d, ps, sz, off) ==
  /\ Offsets(off, ps, sz) /\ \A i \in 1 .. Len(ps) : Stored(d, off[i], ps[i])

\* The receiver is at packet k: this one is at the front, the later ones are
\* untouched, and behind a packet that was moved is where the next one is.
TakenTo(d, ps, sz, k, off) ==
  /\ Offsets(off, ps, sz) /\ k \in 1 .. Len(ps)
  /\ \A i \in k + 1 .. Len(ps) : Stored(d, off[i], ps[i])
  /\ d[0] = ps[k].size
  /\ IF k = 1 THEN Unmarked(d)
     ELSE d[ps[k].size + 4] = Frm!MARK /\ d[ps[k].size + 5] = off[k + 1]

FrmInv ==
  /\ Buffer(buf) /\ Unmarked(buf) /\ bufSize \in Nat /\ done \in Seq(Packet)
  /\ \E off : FilledWith(buf, packed, bufSize, off)
  /\ frm = [data |-> frm.data, size |-> frm.size, packets |-> frm.packets]
  /\ frm # Frm!NoRx =>
       /\ Buffer(frm.data)
       /\ \E off : TakenTo(frm.data, frm.packets, frm.size, Len(done), off)
       /\ \A i \in 1 .. Len(done) : done[i] = frm.packets[i]

\* Rounding up to words.
LEMMA AlignNumbers ==
  ASSUME NEW n \in Nat
  PROVE  Frm!ALIGN(n) \in Nat /\ n <= Frm!ALIGN(n) /\ Frm!ALIGN(n) <= n + 3
         /\ Frm!ALIGN(n) = ((n + 3) \div 4) * 4
<1>1. PICK d \in Nat : d = (n + 3) \div 4 /\ 4 * d <= n + 3 /\ n + 3 < 4 * d + 4
  <2> DEFINE x == n + 3
             d == x \div 4
             r == x % 4
  <2>1. x \in Nat /\ 4 \in Nat \ {0}
    OBVIOUS
  <2> HIDE DEF x
  <2>2. r \in 0 .. 4 - 1 /\ d \in Int /\ x = 4 * d + r
    BY <2>1, Division
  <2> HIDE DEF d, r
  <2>3. d \in Nat /\ 4 * d <= x /\ x < 4 * d + 4
    BY <2>1, <2>2
  <2> QED
    BY <2>3 DEF d, x
<1> QED
  BY <1>1 DEF Frm!ALIGN

\* Where the parts of one packet are.
LEMMA PacketPlace ==
  ASSUME NEW off, NEW ps, NEW sz, Offsets(off, ps, sz), PAYLOAD \in Nat, NEW i \in 1 .. Len(ps)
  PROVE  /\ i \in Nat /\ i + 1 \in 1 .. Len(ps) + 1 /\ i \in 1 .. Len(ps) + 1 /\ Len(ps) \in Nat
         /\ ps[i] \in Packet /\ ps[i].size \in Nat /\ off[i] \in Nat /\ off[i + 1] \in Nat /\ sz \in Nat
         /\ off[i + 1] = off[i] + Frm!ALIGN(ps[i].size + 4)
         /\ off[i] + ps[i].size + 4 <= PAYLOAD /\ off[i] + ps[i].size + 4 <= off[i + 1]
         /\ off[i + 1] <= off[i] + ps[i].size + 7 /\ off[i + 1] <= sz
         /\ i > 1 => off[i] >= 4
<1>1. /\ Len(ps) \in Nat /\ i \in Nat /\ i + 1 \in 1 .. Len(ps) + 1 /\ i \in 1 .. Len(ps) + 1
      /\ Len(ps) + 1 \in 1 .. Len(ps) + 1 /\ i + 1 <= Len(ps) + 1
  BY DEF Offsets
<1>2. ps[i] \in Packet /\ ps[i].size \in Nat
  <2>1. ps[i] \in Packet
    BY DEF Offsets
  <2> QED
    BY <2>1 DEF Packet
<1>3. off[i] \in Nat /\ off[i + 1] \in Nat /\ off[i + 1] <= sz /\ sz \in Nat
  BY <1>1 DEF Offsets
<1>4. off[i + 1] = off[i] + Frm!ALIGN(ps[i].size + 4) /\ off[i] + ps[i].size + 4 <= PAYLOAD
  BY DEF Offsets
<1>5. off[i] + ps[i].size + 4 <= off[i + 1] /\ off[i + 1] <= off[i] + ps[i].size + 7
  <2> DEFINE n == ps[i].size + 4
  <2>1. n \in Nat
    BY <1>2
  <2>2. Frm!ALIGN(n) \in Nat /\ n <= Frm!ALIGN(n) /\ Frm!ALIGN(n) <= n + 3
    BY <2>1, AlignNumbers
  <2>3. \A a, b, c, m \in Nat :
          b = a + m /\ c + 4 <= m /\ m <= (c + 4) + 3 => a + c + 4 <= b /\ b <= a + c + 7
    OBVIOUS
  <2>4. off[i + 1] = off[i] + Frm!ALIGN(n)
    BY <1>4
  <2> QED
    BY <1>2, <1>3, <2>2, <2>3, <2>4
<1>6. ASSUME i > 1
      PROVE  off[i] >= 4
  <2> DEFINE j == i - 1
             n == ps[j].size + 4
  <2>1. j \in 1 .. Len(ps) /\ j + 1 = i /\ j \in 1 .. Len(ps) + 1
    BY <1>1, <1>6
  <2> HIDE DEF j
  <2>2. ps[j].size \in Nat /\ off[j] \in Nat /\ off[j + 1] = off[j] + Frm!ALIGN(n)
    <3>1. ps[j] \in Packet /\ off[j] \in Nat /\ off[j + 1] = off[j] + Frm!ALIGN(n)
      BY <2>1 DEF Offsets
    <3> QED
      BY <3>1 DEF Packet
  <2>3. n \in Nat /\ n >= 4
    BY <2>2
  <2> HIDE DEF n
  <2>4. Frm!ALIGN(n) \in Nat /\ n <= Frm!ALIGN(n)
    BY <2>3, AlignNumbers
  <2> QED
    BY <2>1, <2>2, <2>3, <2>4
<1> QED
  BY <1>1, <1>2, <1>3, <1>4, <1>5, <1>6

\* Where jd_shift_frame finds the next packet.
LEMMA NextIs ==
  ASSUME NoMarks, NEW off, NEW k, TakenTo(frm.data, frm.packets, frm.size, k, off)
  PROVE  Frm!NextPacket = IF k = Len(frm.packets) THEN -1 ELSE off[k + 1]
<1> DEFINE d == frm.data
           ps == frm.packets
           sz == frm.size
           old == d[0] + 4
           marked == d[old] = Frm!MARK
           ptr == IF marked THEN d[old + 1] ELSE Frm!ALIGN(old)
           o == ps[k].size + 4
<1>1. Frm!NextPacket = IF \/ Frm!ALIGN(old) >= sz
                          \/ marked /\ (ptr >= sz \/ ptr <= old)
                          \/ ptr + d[ptr] + 4 > sz
                       THEN -1 ELSE ptr
  BY DEF Frm!NextPacket
<1>2. /\ Offsets(off, ps, sz) /\ k \in 1 .. Len(ps) /\ PAYLOAD \in Nat /\ d[0] = ps[k].size
      /\ \A i \in k + 1 .. Len(ps) : Stored(d, off[i], ps[i])
      /\ IF k = 1 THEN Unmarked(d) ELSE d[o] = Frm!MARK /\ d[ps[k].size + 5] = off[k + 1]
  BY DEF TakenTo, NoMarks
<1> HIDE DEF d, ps, sz
<1>3. /\ k \in Nat /\ Len(ps) \in Nat /\ ps[k].size \in Nat /\ off[k] \in Nat /\ off[k + 1] \in Nat /\ sz \in Nat
      /\ off[k + 1] = off[k] + Frm!ALIGN(o) /\ off[k] + o <= PAYLOAD /\ off[k] + o <= off[k + 1]
      /\ off[k + 1] <= sz /\ (k > 1 => off[k] >= 4)
  <2>1. /\ k \in Nat /\ Len(ps) \in Nat /\ ps[k].size \in Nat /\ off[k] \in Nat /\ off[k + 1] \in Nat /\ sz \in Nat
        /\ off[k + 1] = off[k] + Frm!ALIGN(ps[k].size + 4)
        /\ off[k] + ps[k].size + 4 <= PAYLOAD /\ off[k] + ps[k].size + 4 <= off[k + 1]
        /\ off[k + 1] <= sz /\ (k > 1 => off[k] >= 4)
    BY <1>2, PacketPlace
  <2>2. \A a, b \in Nat : a + b + 4 = a + (b + 4)
    OBVIOUS
  <2>3. off[k] + ps[k].size + 4 = off[k] + o
    BY ONLY <2>1, <2>2
  <2> QED
    BY ONLY <2>1, <2>3
<1>4. o \in Nat /\ o >= 4 /\ o \in Cells /\ old = o /\ ps[k].size + 5 = o + 1
  <2>1. o \in Nat /\ o >= 4 /\ ps[k].size + 5 = o + 1
    BY <1>3
  <2>2. old = o
    BY <1>2
  <2> HIDE DEF o
  <2>3. o \in Cells
    BY <1>2, <1>3, <2>1 DEF Cells
  <2> QED
    BY <2>1, <2>2, <2>3
<1>5. Frm!ALIGN(o) \in Nat
  BY <1>4, AlignNumbers
<1> HIDE DEF o
<1>6. marked <=> k # 1
  BY <1>2, <1>4 DEF Unmarked
<1>7. ptr = off[k + 1]
  <2>1. CASE k = 1
    <3>1. off[k] = 0
      BY <1>2, <2>1 DEF Offsets
    <3> QED
      BY <1>3, <1>4, <1>5, <1>6, <2>1, <3>1
  <2>2. CASE k # 1
    BY <1>2, <1>4, <1>6, <2>2
  <2> QED
    BY <2>1, <2>2
<1> HIDE DEF marked, ptr, old
<1>8. CASE k = Len(ps)
  <2>1. off[k + 1] = sz
    BY <1>2, <1>8 DEF Offsets
  <2>2. CASE k = 1
    <3>1. off[k] = 0
      BY <1>2, <2>2 DEF Offsets
    <3>2. Frm!ALIGN(old) >= sz
      BY <1>3, <1>4, <1>5, <2>1, <3>1
    <3> QED
      BY <1>1, <1>8, <3>2 DEF ps
  <2>3. CASE k # 1
    <3>1. marked /\ ptr >= sz
      BY <1>3, <1>6, <1>7, <2>1, <2>3
    <3> QED
      BY <1>1, <1>8, <3>1 DEF ps
  <2> QED
    BY <2>2, <2>3
<1>9. CASE k # Len(ps)
  <2> DEFINE m == k + 1
  <2>1. m \in 1 .. Len(ps) /\ m \in k + 1 .. Len(ps)
    BY <1>2, <1>3, <1>9
  <2> HIDE DEF m
  <2>2. ps[m].size \in Nat /\ off[m] \in Nat /\ off[m + 1] \in Nat
        /\ off[m] + ps[m].size + 4 <= off[m + 1] /\ off[m + 1] <= sz
    BY <1>2, <2>1, PacketPlace
  <2>3. d[off[m]] = ps[m].size
    BY <1>2, <2>1 DEF Stored
  <2>4. ptr = off[m]
    BY <1>7 DEF m
  <2>5. ~ Frm!ALIGN(old) >= sz
    <3> DEFINE a == Frm!ALIGN(o)
    <3>1. a \in Nat /\ off[m] = off[k] + a /\ Frm!ALIGN(old) = a
      BY <1>3, <1>4, <1>5 DEF m
    <3> HIDE DEF a
    <3>2. off[m] < sz
      BY <1>3, <2>2
    <3>3. off[k] \in Nat /\ sz \in Nat
      BY <1>3
    <3> QED
      BY ONLY <3>1, <3>2, <3>3
  <2>6. ~ (marked /\ (ptr >= sz \/ ptr <= old))
    <3>1. marked => k > 1
      BY <1>2, <1>3, <1>6
    <3>2. off[m] < sz
      BY <1>3, <2>2
    <3>3. marked => off[m] > o
      BY <1>3, <1>4, <3>1 DEF m
    <3> QED
      BY <1>3, <1>4, <2>2, <2>4, <3>2, <3>3
  <2>7. ~ ptr + d[ptr] + 4 > sz
    BY <1>3, <2>2, <2>3, <2>4
  <2> QED
    BY <1>1, <1>7, <1>9, <2>5, <2>6, <2>7 DEF ps
<1> QED
  BY <1>8, <1>9

\* What jd_shift_frame makes of the buffer.
LEMMA ShiftsOn ==
  ASSUME NoMarks, NEW off, NEW k, Buffer(frm.data), TakenTo(frm.data, frm.packets, frm.size, k, off),
         k # Len(frm.packets)
  PROVE  LET e == Frm!Shifted(off[k + 1]) IN
         /\ Buffer(e) /\ TakenTo(e, frm.packets, frm.size, k + 1, off)
         /\ Frm!PacketAt(e) = frm.packets[k + 1]
<1> DEFINE d == frm.data
           ps == frm.packets
           sz == frm.size
           m == k + 1
           at == off[m]
           new == d[at] + 4
           moved == [i \in DOMAIN d |-> IF i < ((new + 3) \div 4) * 4 THEN d[at + i] ELSE d[i]]
           e == Frm!Shifted(at)
           s == ps[m].size
           w == Frm!ALIGN(s + 4)
<1>1. e = [moved EXCEPT ![new] = Frm!MARK, ![new + 1] = at + Frm!ALIGN(new)]
  BY DEF Frm!Shifted
<1>2. /\ Offsets(off, ps, sz) /\ k \in 1 .. Len(ps) /\ PAYLOAD \in Nat
      /\ \A i \in k + 1 .. Len(ps) : Stored(d, off[i], ps[i])
      /\ Len(ps) \in Nat /\ DOMAIN d = Cells
  <2>1. DOMAIN d = Cells
    BY DEF Buffer
  <2>2. Offsets(off, ps, sz) /\ k \in 1 .. Len(ps) /\ PAYLOAD \in Nat
        /\ \A i \in k + 1 .. Len(ps) : Stored(d, off[i], ps[i])
    BY DEF TakenTo, NoMarks
  <2>3. Len(ps) \in Nat
    BY <2>2 DEF Offsets
  <2> QED
    BY <2>1, <2>2, <2>3
<1>3. m \in 1 .. Len(ps) /\ m \in k + 1 .. Len(ps) /\ m > 1 /\ k \in Nat
  BY <1>2
<1> HIDE DEF m, d, ps, sz
<1>4. /\ ps[m] \in Packet /\ s \in Nat /\ at \in Nat /\ off[m + 1] = at + w
      /\ at + s + 4 <= PAYLOAD /\ at + s + 4 <= off[m + 1] /\ off[m + 1] <= at + s + 7
      /\ m + 1 \in 1 .. Len(ps) + 1 /\ m \in Nat /\ at >= 4
  BY <1>2, <1>3, PacketPlace
<1>5. new = s + 4 /\ Stored(d, at, ps[m])
  BY <1>2, <1>3 DEF Stored
<1>6. w \in Nat /\ s + 4 <= w /\ w <= s + 7 /\ w = (((s + 4) + 3) \div 4) * 4
  <2> DEFINE n == s + 4
  <2>1. n \in Nat
    BY <1>4
  <2>2. Frm!ALIGN(n) \in Nat /\ n <= Frm!ALIGN(n) /\ Frm!ALIGN(n) <= n + 3 /\ Frm!ALIGN(n) = ((n + 3) \div 4) * 4
    BY <2>1, AlignNumbers
  <2> QED
    BY <1>4, <2>2
<1>7. moved = [i \in Cells |-> IF i < w THEN d[at + i] ELSE d[i]]
  BY <1>2, <1>5, <1>6
<1> HIDE DEF moved, e, new, s, w, at
<1>8. /\ s + 4 \in Cells /\ s + 5 \in Cells /\ 0 \in Cells /\ new + 1 = s + 5 /\ Frm!ALIGN(new) = w
  BY <1>2, <1>4, <1>5 DEF Cells, w
<1>9. e = [i \in Cells |-> IF i = s + 4 THEN Frm!MARK ELSE IF i = s + 5 THEN at + w
                           ELSE IF i < w THEN d[at + i] ELSE d[i]]
  <2>1. e = [moved EXCEPT ![s + 4] = Frm!MARK, ![s + 5] = at + w]
    BY <1>1, <1>5, <1>8
  <2>2. s + 4 # s + 5
    BY <1>4
  <2> QED
    BY <1>7, <1>8, <2>1, <2>2
<1>10. Buffer(e)
  BY <1>9 DEF Buffer
<1>11. e[0] = s /\ e[s + 4] = Frm!MARK /\ e[s + 5] = off[m + 1]
  <2>1. 0 # s + 4 /\ 0 # s + 5 /\ 0 < w /\ at + 0 = at /\ s + 4 # s + 5
    BY <1>4, <1>6
  <2>2. e[0] = d[at + 0] /\ e[s + 4] = Frm!MARK /\ e[s + 5] = at + w
    BY <1>8, <1>9, <2>1
  <2> QED
    BY <1>4, <1>5, <2>1, <2>2 DEF Stored, s
<1>12. s # 0 => e[4] = d[at + 4]
  <2>1. s # 0 => 4 \in Cells /\ 4 # s + 4 /\ 4 # s + 5 /\ 4 < w
    BY <1>2, <1>4, <1>6 DEF Cells
  <2> QED
    BY <1>9, <2>1
<1>13. Frm!PacketAt(e) = ps[m]
  <2>1. ps[m] = [size |-> ps[m].size, byte |-> ps[m].byte]
    BY <1>4 DEF Packet
  <2>2. ps[m].byte = IF e[0] = 0 THEN 0 ELSE e[4]
    BY <1>5, <1>11, <1>12 DEF Stored, s
  <2> QED
    BY <1>11, <2>1, <2>2 DEF Frm!PacketAt, s
<1>14. ASSUME NEW i \in m + 1 .. Len(ps)
       PROVE  Stored(e, off[i], ps[i])
  <2>1. i \in 1 .. Len(ps) /\ i \in k + 1 .. Len(ps) /\ i \in 1 .. Len(ps) + 1 /\ m + 1 <= i
    BY <1>2, <1>3, <1>4 DEF m
  <2>2. off[m + 1] <= off[i]
    BY <1>2, <1>4, <2>1 DEF Offsets
  <2>3. /\ ps[i].size \in Nat /\ off[i] \in Nat /\ off[i] + ps[i].size + 4 <= PAYLOAD
    BY <1>2, <2>1, PacketPlace
  <2> DEFINE x == off[i]
  <2>4. /\ x \in Cells /\ x + 4 \in Cells /\ x # s + 4 /\ x # s + 5 /\ ~ x < w
        /\ x + 4 # s + 4 /\ x + 4 # s + 5 /\ ~ x + 4 < w
    <3>1. x \in Nat /\ x >= 4 + w
      BY <1>4, <1>6, <2>2, <2>3
    <3>2. x + 4 <= PAYLOAD
      BY <1>2, <2>3
    <3> HIDE DEF x
    <3>3. x \in Cells /\ x + 4 \in Cells
      BY <1>2, <3>1, <3>2 DEF Cells
    <3> QED
      BY <1>4, <1>6, <3>1, <3>3
  <2> HIDE DEF x
  <2>5. e[x] = d[x] /\ e[x + 4] = d[x + 4]
    BY <1>9, <2>4
  <2>6. Stored(d, x, ps[i])
    BY <1>2, <2>1 DEF x
  <2> QED
    BY <2>5, <2>6 DEF Stored, x
<1>15. TakenTo(e, ps, sz, m, off)
  BY <1>2, <1>3, <1>11, <1>14 DEF TakenTo, s
<1> QED
  BY <1>10, <1>13, <1>15 DEF e, at, m, ps, sz

\* Putting a packet behind the others.
LEMMA PacksBehind ==
  ASSUME NoMarks, NEW off, Buffer(buf), Unmarked(buf), FilledWith(buf, packed, bufSize, off),
         NEW n \in PacketSizes, NEW b \in (IF n = 0 THEN {0} ELSE DataBytes), n + 4 <= PAYLOAD - bufSize
  PROVE  LET e == Frm!jd_push_in_frame(buf, bufSize, n, b) IN
         /\ Buffer(e) /\ Unmarked(e) /\ bufSize + Frm!ALIGN(n + 4) \in Nat
         /\ \E o : FilledWith(e, Append(packed, [size |-> n, byte |-> b]), bufSize + Frm!ALIGN(n + 4), o)
<1> DEFINE e == Frm!jd_push_in_frame(buf, bufSize, n, b)
           p == [size |-> n, byte |-> b]
           ps == Append(packed, p)
           a == Frm!ALIGN(n + 4)
           at == bufSize
           L == Len(packed)
           o == [i \in 1 .. L + 2 |-> IF i <= L + 1 THEN off[i] ELSE at + a]
<1>1. /\ Offsets(off, packed, at) /\ \A i \in 1 .. L : Stored(buf, off[i], packed[i])
  BY DEF FilledWith
<1>2. PAYLOAD \in Nat /\ n \in Nat /\ n # Frm!MARK /\ (n = 0 => b = 0) /\ (n # 0 => b \in DataBytes)
      /\ b # Frm!MARK
  BY DEF NoMarks, Frm!MARK
<1>3. p \in Packet
  BY <1>2 DEF Packet
<1>4. packed \in Seq(Packet) /\ L \in Nat /\ off[L + 1] = at /\ off[1] = 0 /\ off \in [1 .. L + 1 -> Nat]
  BY <1>1 DEF Offsets
<1>5. at \in Nat /\ L + 1 \in 1 .. L + 1
  BY <1>4
<1>6. a \in Nat /\ n + 4 <= a /\ a <= n + 7
  <2> DEFINE x == n + 4
  <2>1. x \in Nat
    BY <1>2
  <2>2. Frm!ALIGN(x) \in Nat /\ x <= Frm!ALIGN(x) /\ Frm!ALIGN(x) <= x + 3
    BY <2>1, AlignNumbers
  <2> QED
    BY <1>2, <2>2
<1>7. /\ ps \in Seq(Packet) /\ Len(ps) = L + 1 /\ ps[L + 1] = p /\ \A i \in 1 .. L : ps[i] = packed[i]
  <2> HIDE DEF p
  <2> QED
    BY <1>3, <1>4
<1>8. DOMAIN buf = Cells
  BY DEF Buffer
<1>9. e = [i \in Cells |-> CASE i = at -> n [] i \in at + 1 .. at + 3 -> 1
                             [] i \in at + 4 .. at + 3 + n -> b [] OTHER -> buf[i]]
  BY <1>8 DEF Frm!jd_push_in_frame
<1> HIDE DEF e, ps, p, a, at, L
<1>10. ASSUME NEW i \in Cells
       PROVE  /\ i < at => e[i] = buf[i]
              /\ i = at => e[i] = n
              /\ n # 0 /\ i = at + 4 => e[i] = b
              /\ e[i] \in {n, 1, b, buf[i]}
  <2>1. i \in Nat
    BY <1>2 DEF Cells
  <2>2. CASE i = at
    <3>1. e[i] = n
      BY <1>9, <2>2
    <3>2. ~ i < at /\ i # at + 4
      BY <1>5, <2>2
    <3> QED
      BY <3>1, <3>2
  <2>3. CASE i # at /\ i \in at + 1 .. at + 3
    <3>1. e[i] = 1
      <4>1. i # at /\ ~ i \in at + 4 .. at + 3 + n
        BY <1>2, <1>5, <2>1, <2>3
      <4> QED
        BY <1>9, <2>3, <4>1
    <3>2. ~ i < at /\ i # at + 4
      BY <1>5, <2>1, <2>3
    <3> QED
      BY <2>3, <3>1, <3>2
  <2>4. CASE i # at /\ ~ i \in at + 1 .. at + 3 /\ i \in at + 4 .. at + 3 + n
    <3>1. e[i] = b
      BY <1>9, <2>4
    <3>2. ~ i < at
      BY <1>5, <2>1, <2>4
    <3> QED
      BY <2>4, <3>1, <3>2
  <2>5. CASE i # at /\ ~ i \in at + 1 .. at + 3 /\ ~ i \in at + 4 .. at + 3 + n
    <3>1. e[i] = buf[i]
      BY <1>9, <2>5
    <3>2. n # 0 => i # at + 4
      BY <1>2, <1>5, <2>1, <2>5
    <3> QED
      BY <2>5, <3>1, <3>2
  <2> QED
    BY <2>2, <2>3, <2>4, <2>5
<1>11. Buffer(e)
  BY <1>9 DEF Buffer
<1>12. Unmarked(e)
  <2> SUFFICES ASSUME NEW i \in Cells
               PROVE  e[i] # Frm!MARK
    BY DEF Unmarked
  <2>1. buf[i] # Frm!MARK /\ 1 # Frm!MARK
    BY DEF Unmarked, Frm!MARK
  <2> QED
    BY <1>2, <1>10, <2>1
<1>13. /\ o \in [1 .. L + 2 -> Nat] /\ o[L + 2] = at + a /\ \A i \in 1 .. L + 1 : o[i] = off[i]
  BY <1>4, <1>5, <1>6
<1> HIDE DEF o
<1>14. ASSUME NEW i \in 1 .. L
       PROVE  /\ o[i] = off[i] /\ o[i + 1] = off[i + 1] /\ off[i] \in Nat /\ packed[i].size \in Nat
              /\ off[i + 1] = off[i] + Frm!ALIGN(packed[i].size + 4)
              /\ off[i] + packed[i].size + 4 <= PAYLOAD
              /\ off[i] + packed[i].size + 4 <= at
  <2>1. i \in 1 .. Len(packed)
    BY DEF L
  <2>2. /\ off[i] \in Nat /\ packed[i].size \in Nat /\ off[i + 1] \in Nat /\ at \in Nat
        /\ off[i + 1] = off[i] + Frm!ALIGN(packed[i].size + 4)
        /\ off[i] + packed[i].size + 4 <= PAYLOAD
        /\ off[i] + packed[i].size + 4 <= off[i + 1] /\ off[i + 1] <= at
    BY <1>1, <1>2, <2>1, PacketPlace
  <2>3. i \in 1 .. L + 1 /\ i + 1 \in 1 .. L + 1
    BY <1>4
  <2>4. off[i] + packed[i].size + 4 <= at
    BY <2>2
  <2> QED
    BY <1>13, <2>2, <2>3, <2>4
<1>15. ASSUME NEW i \in 1 .. L + 1
       PROVE  /\ o[i + 1] = o[i] + Frm!ALIGN(ps[i].size + 4)
              /\ o[i] + ps[i].size + 4 <= PAYLOAD
              /\ Stored(e, o[i], ps[i])
  <2>1. CASE i = L + 1
    <3>1. ps[i] = p /\ p.size = n /\ p.byte = b /\ o[i] = at /\ o[i + 1] = at + a /\ i + 1 = L + 2
      <4>1. i + 1 = L + 2
        BY <1>4, <2>1
      <4>2. p.size = n /\ p.byte = b
        BY DEF p
      <4> QED
        BY <1>4, <1>7, <1>13, <2>1, <4>1, <4>2
    <3>2. at + n + 4 <= PAYLOAD /\ at \in Cells /\ (n # 0 => at + 4 \in Cells)
      <4>1. n + 4 <= PAYLOAD - at
        BY DEF at
      <4> QED
        BY <1>2, <1>5, <4>1 DEF Cells
    <3>3. e[at] = n /\ (n # 0 => e[at + 4] = b)
      BY <1>10, <3>2
    <3>4. Stored(e, at, p)
      BY <1>2, <3>1, <3>3 DEF Stored
    <3> QED
      BY <3>1, <3>2, <3>4 DEF a
  <2>2. CASE i # L + 1
    <3>1. i \in 1 .. L
      BY <1>4, <2>2
    <3> DEFINE x == off[i]
               y == packed[i].size
    <3>2. ps[i] = packed[i] /\ o[i] = x
      BY <1>7, <1>14, <3>1
    <3>3. x \in Nat /\ y \in Nat /\ x + y + 4 <= PAYLOAD /\ x + y + 4 <= at
      BY <1>14, <3>1
    <3>4. Stored(buf, x, packed[i])
      BY <1>1, <3>1
    <3> HIDE DEF x
    <3>5. Stored(e, x, packed[i])
      <4>1. /\ x \in Cells /\ x < at
        <5> HIDE DEF y
        <5> QED
          BY <1>2, <1>5, <3>3 DEF Cells
      <4>2. y # 0 => x + 4 \in Cells /\ x + 4 < at
        <5> HIDE DEF y
        <5> QED
          BY <1>2, <1>5, <3>3 DEF Cells
      <4>3. e[x] = buf[x] /\ (y # 0 => e[x + 4] = buf[x + 4])
        BY <1>10, <4>1, <4>2
      <4> QED
        BY <3>4, <4>3 DEF Stored
    <3> QED
      BY <1>14, <3>1, <3>2, <3>5
  <2> QED
    BY <2>1, <2>2
<1>16. ASSUME NEW i \in 1 .. L + 2, NEW j \in 1 .. L + 2, i <= j
       PROVE  o[i] <= o[j]
  <2>1. \A x \in 1 .. L + 1 : off[x] \in Nat /\ off[x] <= at
    <3> SUFFICES ASSUME NEW x \in 1 .. L + 1
                 PROVE  off[x] \in Nat /\ off[x] <= at
      OBVIOUS
    <3>1. x <= L + 1
      BY <1>4
    <3>2. \A u, v \in 1 .. L + 1 : u <= v => off[u] <= off[v]
      BY <1>1 DEF Offsets, L
    <3> QED
      BY <1>4, <1>5, <3>1, <3>2
  <2>2. CASE j = L + 2
    <3>1. CASE i = L + 2
      BY <1>5, <1>6, <1>13, <2>2, <3>1
    <3>2. CASE i # L + 2
      <4>1. i \in 1 .. L + 1
        BY <1>4, <3>2
      <4> QED
        BY <1>5, <1>6, <1>13, <2>1, <2>2, <4>1
    <3> QED
      BY <3>1, <3>2
  <2>3. CASE j # L + 2
    <3>1. i \in 1 .. L + 1 /\ j \in 1 .. L + 1
      BY <1>4, <1>16, <2>3
    <3>2. off[i] <= off[j]
      BY <1>1, <1>16, <3>1 DEF Offsets, L
    <3> QED
      BY <1>13, <3>1, <3>2
  <2> QED
    BY <2>2, <2>3
<1>17. o[1] = 0
  BY <1>4, <1>13
<1>18. Len(ps) = L + 1 /\ Len(ps) + 1 = L + 2
  BY <1>4, <1>7
<1>19. Offsets(o, ps, at + a)
  BY <1>7, <1>13, <1>15, <1>16, <1>17, <1>18 DEF Offsets
<1>20. FilledWith(e, ps, at + a, o)
  BY <1>15, <1>18, <1>19 DEF FilledWith
<1>21. \E x : FilledWith(e, ps, at + a, x)
  BY <1>20
<1>22. at + a \in Nat
  BY <1>5, <1>6
<1> QED
  BY <1>11, <1>12, <1>21, <1>22 DEF e, ps, p, at, a

LEMMA FrmInit == ASSUME NoMarks, Frm!Init PROVE FrmInv
<1>1. /\ buf = [i \in 0 .. PAYLOAD + 3 |-> 0] /\ bufSize = 0 /\ packed = <<>> /\ frm = Frm!NoRx /\ done = <<>>
  BY DEF Frm!Init
<1>2. Buffer(buf) /\ Unmarked(buf)
  BY <1>1 DEF Buffer, Unmarked, Cells, Frm!MARK
<1>3. Offsets([i \in 1 .. 1 |-> 0], <<>>, 0)
  <2> DEFINE o == [i \in 1 .. 1 |-> 0]
  <2>1. <<>> \in Seq(Packet) /\ Len(<<>>) = 0
    OBVIOUS
  <2>2. o \in [1 .. 0 + 1 -> Nat] /\ o[1] = 0 /\ \A i \in 1 .. 0 + 1 : o[i] = 0
    OBVIOUS
  <2> HIDE DEF o
  <2>3. o[0 + 1] = 0 /\ \A i, j \in 1 .. 0 + 1 : i <= j => o[i] <= o[j]
    BY <2>2
  <2>4. \A i \in 1 .. 0 : FALSE
    OBVIOUS
  <2>5. Offsets(o, <<>>, 0)
    BY <2>1, <2>2, <2>3, <2>4 DEF Offsets
  <2> QED
    BY <2>5 DEF o
<1>4. \E off : FilledWith(buf, packed, bufSize, off)
  <2>1. \A i \in 1 .. Len(packed) : FALSE
    BY <1>1
  <2>2. FilledWith(buf, packed, bufSize, [i \in 1 .. 1 |-> 0])
    BY <1>1, <1>3, <2>1 DEF FilledWith
  <2> QED
    BY <2>2
<1>5. frm = [data |-> frm.data, size |-> frm.size, packets |-> frm.packets]
  BY <1>1 DEF Frm!NoRx
<1>6. bufSize \in Nat /\ done \in Seq(Packet)
  BY <1>1
<1> QED
  BY <1>1, <1>2, <1>4, <1>5, <1>6 DEF FrmInv

\* The receiver's part stays when it does nothing.
LEMMA FrmReceiverStays ==
  ASSUME FrmInv, Buffer(buf)', Unmarked(buf)', bufSize' \in Nat,
         (\E off : FilledWith(buf, packed, bufSize, off))', frm' = frm, done' = done
  PROVE  FrmInv'
  BY DEF FrmInv

LEMMA FrmSends ==
  ASSUME NoMarks, FrmInv, NEW n \in PacketSizes, NEW b \in (IF n = 0 THEN {0} ELSE DataBytes),
         Frm!jd_send(n, b)
  PROVE  FrmInv'
<1>1. /\ n + 4 <= PAYLOAD - bufSize /\ buf' = Frm!jd_push_in_frame(buf, bufSize, n, b)
      /\ bufSize' = bufSize + Frm!ALIGN(n + 4) /\ packed' = Append(packed, [size |-> n, byte |-> b])
      /\ frm' = frm /\ done' = done
  BY DEF Frm!jd_send
<1>2. Buffer(buf) /\ Unmarked(buf) /\ \E off : FilledWith(buf, packed, bufSize, off)
  BY DEF FrmInv
<1>3. PICK off : FilledWith(buf, packed, bufSize, off)
  BY <1>2
<1> DEFINE e == Frm!jd_push_in_frame(buf, bufSize, n, b)
           ps == Append(packed, [size |-> n, byte |-> b])
           z == bufSize + Frm!ALIGN(n + 4)
<1>4. Buffer(e) /\ Unmarked(e) /\ z \in Nat /\ \E o : FilledWith(e, ps, z, o)
  BY <1>1, <1>2, <1>3, PacksBehind
<1>5. buf' = e /\ packed' = ps /\ bufSize' = z
  BY <1>1
<1> HIDE DEF e, ps, z
<1>6. Buffer(buf)' /\ Unmarked(buf)' /\ bufSize' \in Nat
  BY <1>4, <1>5 DEF Buffer, Unmarked
<1>7. (\E o : FilledWith(buf, packed, bufSize, o))'
  BY <1>4, <1>5
<1> QED
  BY <1>1, <1>6, <1>7, FrmReceiverStays

LEMMA FrmSent ==
  ASSUME NoMarks, FrmInv, Frm!SendFrame
  PROVE  FrmInv'
<1>1. /\ bufSize > 0 /\ frm' = [data |-> buf, size |-> bufSize, packets |-> packed]
      /\ done' = <<Frm!PacketAt(buf)>> /\ bufSize' = 0 /\ packed' = <<>> /\ buf' = buf
  BY DEF Frm!SendFrame
<1>2. Buffer(buf) /\ Unmarked(buf) /\ bufSize \in Nat /\ PAYLOAD \in Nat
  BY DEF FrmInv, NoMarks
<1>3. PICK off : FilledWith(buf, packed, bufSize, off)
  BY DEF FrmInv
<1>4. Offsets(off, packed, bufSize) /\ \A i \in 1 .. Len(packed) : Stored(buf, off[i], packed[i])
  BY <1>3 DEF FilledWith
<1>5. Len(packed) \in Nat /\ off[1] = 0 /\ off[Len(packed) + 1] = bufSize /\ packed \in Seq(Packet)
  BY <1>4 DEF Offsets
<1>6. 1 \in 1 .. Len(packed)
  <2>1. Len(packed) # 0
    BY <1>1, <1>5
  <2> QED
    BY <1>5, <2>1
<1>7. packed[1] \in Packet /\ Stored(buf, 0, packed[1])
  BY <1>4, <1>5, <1>6
<1>8. Frm!PacketAt(buf) = packed[1]
  <2>1. packed[1] = [size |-> packed[1].size, byte |-> packed[1].byte]
    BY <1>7 DEF Packet
  <2>2. buf[0] = packed[1].size /\ packed[1].byte = IF buf[0] = 0 THEN 0 ELSE buf[4]
    BY <1>7 DEF Stored
  <2> QED
    BY <2>1, <2>2 DEF Frm!PacketAt
<1>9. TakenTo(buf, packed, bufSize, 1, off)
  <2>1. \A i \in 1 + 1 .. Len(packed) : i \in 1 .. Len(packed)
    OBVIOUS
  <2>2. buf[0] = packed[1].size
    BY <1>7 DEF Stored
  <2> QED
    BY <1>2, <1>4, <1>6, <2>1, <2>2 DEF TakenTo
<1>10. frm'.data = buf /\ frm'.size = bufSize /\ frm'.packets = packed
  BY <1>1
<1>11. done' \in Seq(Packet) /\ Len(done') = 1 /\ done'[1] = packed[1] /\ \A i \in 1 .. Len(done') : i = 1
  BY <1>1, <1>7, <1>8
<1>12. (\E o : TakenTo(frm.data, frm.packets, frm.size, Len(done), o))'
  BY <1>9, <1>10, <1>11
<1>13. (\A i \in 1 .. Len(done) : done[i] = frm.packets[i])'
  BY <1>10, <1>11
<1>14. (frm = [data |-> frm.data, size |-> frm.size, packets |-> frm.packets])' /\ Buffer(frm.data)'
  BY <1>1, <1>2, <1>10
<1>15. (Buffer(buf) /\ Unmarked(buf) /\ bufSize \in Nat)'
  BY <1>1, <1>2
<1>16. (\E o : FilledWith(buf, packed, bufSize, o))'
  <2> DEFINE o == [i \in 1 .. 1 |-> 0]
  <2>1. <<>> \in Seq(Packet) /\ Len(<<>>) = 0
    OBVIOUS
  <2>2. o \in [1 .. 0 + 1 -> Nat] /\ o[1] = 0 /\ \A i \in 1 .. 0 + 1 : o[i] = 0
    OBVIOUS
  <2> HIDE DEF o
  <2>3. o[0 + 1] = 0 /\ \A i, j \in 1 .. 0 + 1 : i <= j => o[i] <= o[j]
    BY <2>2
  <2>4. \A i \in 1 .. 0 : FALSE
    OBVIOUS
  <2>5. FilledWith(buf, <<>>, 0, o)
    BY <2>1, <2>2, <2>3, <2>4 DEF Offsets, FilledWith
  <2>6. FilledWith(buf, packed, bufSize, o)'
    BY <1>1, <2>5
  <2> QED
    BY <2>6
<1> QED
  BY <1>11, <1>12, <1>13, <1>14, <1>15, <1>16 DEF FrmInv

\* The sender's part stays when it does nothing.
LEMMA FrmSenderStays ==
  ASSUME FrmInv, buf' = buf, bufSize' = bufSize, packed' = packed
  PROVE  (Buffer(buf) /\ Unmarked(buf) /\ bufSize \in Nat /\ \E off : FilledWith(buf, packed, bufSize, off))'
  BY DEF FrmInv

LEMMA FrmShifts ==
  ASSUME NoMarks, FrmInv, Frm!jd_shift_frame
  PROVE  FrmInv'
<1> DEFINE ptr == Frm!NextPacket
           e == Frm!Shifted(ptr)
           k == Len(done)
           ps == frm.packets
<1>1. /\ frm # Frm!NoRx /\ ptr # -1 /\ frm' = [frm EXCEPT !.data = e]
      /\ done' = Append(done, Frm!PacketAt(e)) /\ buf' = buf /\ bufSize' = bufSize /\ packed' = packed
  BY DEF Frm!jd_shift_frame
<1>2. /\ Buffer(frm.data) /\ done \in Seq(Packet) /\ \A i \in 1 .. k : done[i] = ps[i]
      /\ frm = [data |-> frm.data, size |-> frm.size, packets |-> frm.packets]
  BY <1>1 DEF FrmInv
<1>3. PICK off : TakenTo(frm.data, ps, frm.size, k, off)
  BY <1>1 DEF FrmInv
<1>4. ptr = IF k = Len(ps) THEN -1 ELSE off[k + 1]
  BY <1>3, NextIs
<1>5. k # Len(ps) /\ ptr = off[k + 1]
  BY <1>1, <1>4
<1> DEFINE g == Frm!Shifted(off[k + 1])
<1>6. e = g
  BY <1>5
<1>7. Buffer(g) /\ TakenTo(g, ps, frm.size, k + 1, off) /\ Frm!PacketAt(g) = ps[k + 1]
  BY <1>2, <1>3, <1>5, ShiftsOn
<1> HIDE DEF g, e, ptr
<1>8. frm' = [data |-> g, size |-> frm.size, packets |-> frm.packets]
  BY <1>1, <1>2, <1>6
<1>9. frm'.data = g /\ frm'.size = frm.size /\ frm'.packets = ps
      /\ (frm = [data |-> frm.data, size |-> frm.size, packets |-> frm.packets])'
  BY <1>8
<1>10. k + 1 \in 1 .. Len(ps) /\ ps \in Seq(Packet)
  BY <1>7 DEF TakenTo, Offsets
<1>11. ps[k + 1] \in Packet
  BY <1>10
<1>12. /\ done' \in Seq(Packet) /\ Len(done') = k + 1 /\ done'[k + 1] = ps[k + 1]
       /\ \A i \in 1 .. k : done'[i] = done[i]
  <2> DEFINE x == ps[k + 1]
  <2>1. done' = Append(done, x) /\ x \in Packet
    BY <1>1, <1>6, <1>7, <1>11
  <2> HIDE DEF x
  <2>2. done' \in Seq(Packet) /\ Len(done') = k + 1 /\ done'[k + 1] = x /\ \A i \in 1 .. k : done'[i] = done[i]
    BY <1>2, <2>1
  <2> QED
    BY <2>2 DEF x
<1>13. (\E o : TakenTo(frm.data, frm.packets, frm.size, Len(done), o))'
  BY <1>7, <1>9, <1>12
<1>14. (\A i \in 1 .. Len(done) : done[i] = frm.packets[i])'
  <2> SUFFICES ASSUME NEW i \in 1 .. k + 1
               PROVE  done'[i] = ps[i]
    BY <1>9, <1>12
  <2>1. k \in Nat
    BY <1>2
  <2>2. CASE i = k + 1
    BY <1>12, <2>2
  <2>3. CASE i # k + 1
    <3>1. i \in 1 .. k
      BY <2>1, <2>3
    <3> QED
      BY <1>2, <1>12, <3>1
  <2> QED
    BY <2>2, <2>3
<1>15. Buffer(frm.data)'
  BY <1>7, <1>9
<1>16. (Buffer(buf) /\ Unmarked(buf) /\ bufSize \in Nat /\ \E o : FilledWith(buf, packed, bufSize, o))'
  BY <1>1, FrmSenderStays
<1> QED
  BY <1>9, <1>12, <1>13, <1>14, <1>15, <1>16 DEF FrmInv

LEMMA FrmNext == ASSUME NoMarks, FrmInv, [Frm!Next]_(Frm!vars) PROVE FrmInv'
<1>1. ASSUME NEW n \in PacketSizes, NEW b \in (IF n = 0 THEN {0} ELSE DataBytes), Frm!jd_send(n, b)
      PROVE  FrmInv'
  BY <1>1, FrmSends
<1>2. CASE Frm!SendFrame
  BY <1>2, FrmSent
<1>3. CASE Frm!jd_shift_frame
  BY <1>3, FrmShifts
<1>4. CASE Frm!Done
  <2>1. frm' = Frm!NoRx /\ done' = <<>> /\ buf' = buf /\ bufSize' = bufSize /\ packed' = packed
    BY <1>4 DEF Frm!Done
  <2>2. (Buffer(buf) /\ Unmarked(buf) /\ bufSize \in Nat /\ \E o : FilledWith(buf, packed, bufSize, o))'
    BY <2>1, FrmSenderStays
  <2>3. (frm = [data |-> frm.data, size |-> frm.size, packets |-> frm.packets])' /\ done' \in Seq(Packet)
    BY <2>1 DEF Frm!NoRx
  <2>4. (frm = Frm!NoRx)'
    BY <2>1 DEF Frm!NoRx
  <2> QED
    BY <2>2, <2>3, <2>4 DEF FrmInv
<1>5. CASE UNCHANGED Frm!vars
  <2>1. buf' = buf /\ bufSize' = bufSize /\ packed' = packed /\ frm' = frm /\ done' = done
    BY <1>5 DEF Frm!vars
  <2>2. (Buffer(buf) /\ Unmarked(buf) /\ bufSize \in Nat /\ \E o : FilledWith(buf, packed, bufSize, o))'
    BY <2>1, FrmSenderStays
  <2> QED
    BY <2>1, <2>2, FrmReceiverStays
<1> QED
  BY <1>1, <1>2, <1>3, <1>4, <1>5 DEF Frm!Next

\* Unless a size or a byte of data looks like the mark of jd_shift_frame, the
\* receiver takes every frame apart into the packets that jd_push_in_frame put into
\* it, whatever their sizes and whatever is left in the padding.
THEOREM FramesComeApart == NoMarks => (Frm!Spec => []Frm!EveryPacketHandled)
<1> SUFFICES ASSUME NoMarks
             PROVE  Frm!Spec => []Frm!EveryPacketHandled
  OBVIOUS
<1>1. Frm!Init => FrmInv
  BY FrmInit
<1>2. FrmInv /\ [Frm!Next]_(Frm!vars) => FrmInv'
  BY FrmNext
<1>3. FrmInv => Frm!EveryPacketHandled
  <2> SUFFICES ASSUME FrmInv, frm # Frm!NoRx
               PROVE  /\ Len(done) <= Len(frm.packets)
                      /\ \A i \in 1 .. Len(done) : done[i] = frm.packets[i]
                      /\ Frm!NextPacket = -1 => Len(done) = Len(frm.packets)
    BY DEF Frm!EveryPacketHandled
  <2>1. PICK off : TakenTo(frm.data, frm.packets, frm.size, Len(done), off)
    BY DEF FrmInv
  <2>2. Offsets(off, frm.packets, frm.size) /\ Len(done) \in 1 .. Len(frm.packets) /\ PAYLOAD \in Nat
    BY <2>1 DEF TakenTo, NoMarks
  <2>3. Len(done) <= Len(frm.packets)
    BY <2>2
  <2>4. Frm!NextPacket = IF Len(done) = Len(frm.packets) THEN -1 ELSE off[Len(done) + 1]
    BY <2>1, NextIs
  <2>5. off[Len(done) + 1] \in Nat
    BY <2>2, PacketPlace
  <2>6. Frm!NextPacket = -1 => Len(done) = Len(frm.packets)
    BY <2>4, <2>5
  <2>7. \A i \in 1 .. Len(done) : done[i] = frm.packets[i]
    BY DEF FrmInv
  <2> QED
    BY <2>3, <2>6, <2>7
<1> QED
  BY <1>1, <1>2, <1>3, PTL DEF Frm!Spec

-----------------------------------------------------------------------------
(***************************************************************************)
(* The USB bridge (JdUsb), for any frames, text, chunks and buffers.       *)
(***************************************************************************)
CONSTANTS
  Byte, WireFrames, Text, CHUNK, SERIAL, QUEUE, RXMAX, LOG, MaxFrames, MaxLost
VARIABLES
  usb_queue, usb_frame_ptr, usb_frame_gap, usb_panic_mode, usb_fwd_en, serial_buf, chunk, pulling,
  usb_rx_buf, usb_rx_state, usb_rx_was_magic, log, log_ptr, dmesg_ptr, onLine,
  queued, refused, printed, missed, hit, gaps, got, serial

Usb == INSTANCE JdUsb WITH Frames <- WireFrames, dst <- chunk, line <- onLine, accepted <- queued,
  dropped <- refused, lost <- missed

\* f is the beginning of g.
Begins(f, g) == Len(f) <= Len(g) /\ \A j \in 1 .. Len(f) : f[j] = g[j]

\* Frames fit in the buffer of the receiver, and none is the beginning of another one: its
\* size is in its header.  A chunk has room for a start marker and an escaped byte.
UsbSizes ==
  /\ {"M", "L", "S", "E", "G", "p", "0"} \subseteq Byte
  /\ WireFrames \subseteq Seq(Byte) /\ Text \in Seq(Byte)
  /\ \A f \in WireFrames : Len(f) \in 1 .. RXMAX
  /\ \A f, g \in WireFrames : Begins(f, g) => f = g
  /\ {CHUNK, SERIAL, QUEUE, RXMAX, MaxFrames} \subseteq Nat /\ CHUNK >= 4 /\ LOG \in Nat \ {0}
  /\ MaxLost = 0

\* The state of the receiver, with what it has received.
Rcv(b, s, m, g, t, n) == [buf |-> b, state |-> s, magic |-> m, got |-> g, serial |-> t, gaps |-> n]
Receiver ==
  [buf : Seq(Byte), state : 0 .. 1, magic : 0 .. 1, got : Seq(WireFrames), serial : Seq(Byte), gaps : Nat]
Bit(b) == IF b THEN 1 ELSE 0
Now == Rcv(usb_rx_buf, Bit(usb_rx_state), Bit(usb_rx_was_magic), got, serial, gaps)

\* y is x with a byte of a frame or of text.
Given(x, c, y) ==
  IF x.state = 1
  THEN Len(x.buf) < RXMAX /\ y = Rcv(Append(x.buf, c), 1, 0, x.got, x.serial, x.gaps)
  ELSE y = Rcv(x.buf, 0, 0, x.got, Append(x.serial, c), x.gaps)

\* y is x after the end of a frame.
Ended(x, y) ==
  IF x.state = 1
  THEN y = Rcv(<<>>, 0, 0, IF x.buf \in WireFrames THEN Append(x.got, x.buf) ELSE x.got, x.serial, x.gaps)
  ELSE y = Rcv(x.buf, 0, 0, x.got, x.serial, x.gaps)

\* y is x after a byte that a bridge may send.
Takes(x, c, y) ==
  \/ x.magic = 0 /\ c = "M" /\ y = Rcv(x.buf, x.state, 1, x.got, x.serial, x.gaps)
  \/ x.magic = 0 /\ c # "M" /\ Given(x, c, y)
  \/ x.magic = 1 /\ c = "L" /\ Given(x, "M", y)
  \/ x.magic = 1 /\ c = "S" /\ x.buf = <<>> /\ y = Rcv(<<>>, 1, 0, x.got, x.serial, x.gaps)
  \/ x.magic = 1 /\ c = "E" /\ Ended(x, y)
  \/ x.magic = 1 /\ c = "G" /\ y = Rcv(x.buf, x.state, 0, x.got, x.serial, x.gaps + 1)

\* t is the way of the receiver through the bytes p.
Way(t, p) ==
  /\ p \in Seq(Byte) /\ t \in [1 .. Len(p) + 1 -> Receiver]
  /\ \A i \in 1 .. Len(p) : Takes(t[i], p[i], t[i + 1])

\* The receiver has the first frames, and the beginning of the next one.
Fine(x, q) ==
  /\ Begins(x.got, q)
  /\ x.state = 1 => Len(x.got) < Len(q) /\ Begins(x.buf, q[Len(x.got) + 1])
  /\ x.state = 0 => x.buf = <<>>

\* The receiver has the first of n characters.
Reads(x, n) == Len(x.serial) <= n /\ Begins(x.serial, Text)

-----------------------------------------------------------------------------
\* jd_usb_push does what Takes says.
LEMMA PushTakes ==
  ASSUME UsbSizes, Usb!jd_usb_push, NEW y, Takes(Now, Head(onLine), y), Now \in Receiver,
         usb_rx_state \in BOOLEAN, usb_rx_was_magic \in BOOLEAN
  PROVE  Now' = y
<1> DEFINE c == Head(onLine)
<1>1. /\ Now.buf = usb_rx_buf /\ Now.state = Bit(usb_rx_state) /\ Now.magic = Bit(usb_rx_was_magic)
      /\ Now.got = got /\ Now.serial = serial /\ Now.gaps = gaps
  BY DEF Now, Rcv
<1>2. /\ usb_rx_buf \in Seq(Byte) /\ got \in Seq(WireFrames) /\ serial \in Seq(Byte) /\ gaps \in Nat
  BY <1>1 DEF Receiver
<1>3. /\ usb_rx_state => Now.state = 1
      /\ ~ usb_rx_state => Now.state = 0
      /\ usb_rx_was_magic => Now.magic = 1
      /\ ~ usb_rx_was_magic => Now.magic = 0
  BY <1>1 DEF Bit
<1>4. serial \o <<>> = serial
  BY <1>2
<1>5. SUFFICES y = Rcv(usb_rx_buf', Bit(usb_rx_state'), Bit(usb_rx_was_magic'), got', serial', gaps')
  BY DEF Now
<1>6. CASE ~ usb_rx_was_magic /\ c = "M"
  <2>1. /\ usb_rx_was_magic' = TRUE /\ usb_rx_buf' = usb_rx_buf /\ usb_rx_state' = usb_rx_state
        /\ got' = got /\ serial' = serial /\ gaps' = gaps
    BY <1>6 DEF Usb!jd_usb_push, Usb!M
  <2>2. y = Rcv(Now.buf, Now.state, 1, Now.got, Now.serial, Now.gaps)
    BY <1>3, <1>6 DEF Takes
  <2>3. Bit(usb_rx_was_magic') = 1 /\ Bit(usb_rx_state') = Bit(usb_rx_state)
    BY <2>1 DEF Bit
  <2> QED
    BY <1>1, <2>1, <2>2, <2>3
<1>7. ASSUME NEW b, Usb!Deliver(b), usb_rx_was_magic' = FALSE, got' = got, gaps' = gaps, Given(Now, b, y)
      PROVE  y = Rcv(usb_rx_buf', Bit(usb_rx_state'), Bit(usb_rx_was_magic'), got', serial', gaps')
  <2>1. Bit(usb_rx_was_magic') = 0
    BY <1>7 DEF Bit
  <2>2. CASE usb_rx_state
    <3>1. Len(usb_rx_buf) < RXMAX /\ y = Rcv(Append(usb_rx_buf, b), 1, 0, got, serial, gaps)
      BY <1>1, <1>3, <1>7, <2>2 DEF Given
    <3>2. ~ Len(usb_rx_buf) >= RXMAX
      BY <3>1, <1>2 DEF UsbSizes
    <3>3. usb_rx_buf' = Append(usb_rx_buf, b) /\ usb_rx_state' = usb_rx_state /\ serial' = serial
      BY <1>7, <2>2, <3>2 DEF Usb!Deliver
    <3>4. Bit(usb_rx_state') = 1
      BY <2>2, <3>3 DEF Bit
    <3> QED
      BY <1>7, <2>1, <3>1, <3>3, <3>4
  <2>3. CASE ~ usb_rx_state
    <3>1. y = Rcv(usb_rx_buf, 0, 0, got, Append(serial, b), gaps)
      BY <1>1, <1>3, <1>7, <2>3 DEF Given
    <3>2. usb_rx_buf' = usb_rx_buf /\ usb_rx_state' = usb_rx_state /\ serial' = Append(serial, b)
      BY <1>7, <2>3 DEF Usb!Deliver
    <3>3. Bit(usb_rx_state') = 0
      BY <2>3, <3>2 DEF Bit
    <3> QED
      BY <1>7, <2>1, <3>1, <3>2, <3>3
  <2> QED
    BY <2>2, <2>3
<1>8. CASE ~ usb_rx_was_magic /\ c # "M"
  <2>1. Usb!Deliver(c) /\ usb_rx_was_magic' = usb_rx_was_magic /\ got' = got /\ gaps' = gaps
    BY <1>8 DEF Usb!jd_usb_push, Usb!M
  <2>2. usb_rx_was_magic' = FALSE
    BY <1>8, <2>1
  <2>3. Given(Now, c, y)
    BY <1>3, <1>8 DEF Takes
  <2> HIDE DEF c
  <2> QED
    BY <1>7, <2>1, <2>2, <2>3
<1>9. CASE usb_rx_was_magic
  <2>1. c \in {"L", "S", "E", "G"}
    BY <1>3, <1>9 DEF Takes
  <2>2. Usb!Quoted(c)
    BY <1>9, <2>1 DEF Usb!jd_usb_push, Usb!M
  <2>3. usb_rx_was_magic' = FALSE /\ Bit(usb_rx_was_magic') = 0
    BY <2>2 DEF Usb!Quoted, Bit
  <2>4. CASE c = "L"
    <3>1. Usb!Deliver("M") /\ got' = got /\ gaps' = gaps
      BY <2>2, <2>4 DEF Usb!Quoted, Usb!LITERAL, Usb!M, Usb!START, Usb!END, Usb!GAP
    <3>2. Given(Now, "M", y)
      BY <1>3, <1>9, <2>4 DEF Takes
    <3> QED
      BY <1>7, <2>3, <3>1, <3>2
  <2>5. CASE c = "S"
    <3>1. /\ serial' = serial \o usb_rx_buf /\ usb_rx_buf' = <<>> /\ usb_rx_state' = TRUE
          /\ got' = got /\ gaps' = gaps
      BY <2>2, <2>5 DEF Usb!Quoted, Usb!LITERAL, Usb!M, Usb!START, Usb!END, Usb!GAP
    <3>2. Now.buf = <<>> /\ y = Rcv(<<>>, 1, 0, Now.got, Now.serial, Now.gaps)
      BY <1>3, <1>9, <2>5 DEF Takes
    <3>3. Bit(usb_rx_state') = 1 /\ serial' = serial
      BY <1>1, <1>4, <3>1, <3>2 DEF Bit
    <3> QED
      BY <1>1, <2>3, <3>1, <3>2, <3>3
  <2>6. CASE c = "E"
    <3>1. serial' = serial /\ gaps' = gaps
      BY <2>2, <2>6 DEF Usb!Quoted, Usb!LITERAL, Usb!M, Usb!START, Usb!END, Usb!GAP
    <3>2. IF usb_rx_state THEN Usb!jd_usb_handle_frame /\ usb_rx_state' = FALSE /\ usb_rx_buf' = <<>>
          ELSE got' = got /\ usb_rx_state' = usb_rx_state /\ usb_rx_buf' = usb_rx_buf
      BY <2>2, <2>6 DEF Usb!Quoted, Usb!LITERAL, Usb!M, Usb!START, Usb!END, Usb!GAP
    <3>3. Bit(usb_rx_state') = 0
      BY <3>2 DEF Bit
    <3>4. Ended(Now, y)
      BY <1>3, <1>9, <2>6 DEF Takes
    <3>5. CASE usb_rx_state
      BY <1>1, <1>3, <2>3, <3>1, <3>2, <3>3, <3>4, <3>5 DEF Ended, Usb!jd_usb_handle_frame
    <3>6. CASE ~ usb_rx_state
      BY <1>1, <1>3, <2>3, <3>1, <3>2, <3>3, <3>4, <3>6 DEF Ended
    <3> QED
      BY <3>5, <3>6
  <2>7. CASE c = "G"
    <3>1. gaps' = gaps + 1 /\ usb_rx_buf' = usb_rx_buf /\ usb_rx_state' = usb_rx_state
          /\ serial' = serial /\ got' = got
      BY <2>2, <2>7 DEF Usb!Quoted, Usb!LITERAL, Usb!M, Usb!START, Usb!END, Usb!GAP
    <3>2. y = Rcv(Now.buf, Now.state, 0, Now.got, Now.serial, Now.gaps + 1)
      BY <1>3, <1>9, <2>7 DEF Takes
    <3>3. Bit(usb_rx_state') = Bit(usb_rx_state)
      BY <3>1 DEF Bit
    <3> QED
      BY <1>1, <2>3, <3>1, <3>2, <3>3
  <2> QED
    BY <2>1, <2>4, <2>5, <2>6, <2>7
<1> QED
  BY <1>6, <1>8, <1>9


-----------------------------------------------------------------------------
\* There is a way of the receiver from a to e through what is on the line (l) and in the
\* chunk (d); there are whole pairs on the line.  In panic mode the text does not count.
Legible(t, n, m) == m = 0 => \A i \in 1 .. n : Reads(t[i], Len(t[n].serial))
Leads(t, l, d, q, m) ==
  /\ Way(t, l \o d) /\ \A i \in 1 .. Len(l) + Len(d) + 1 : Fine(t[i], q)
  /\ t[Len(l) + 1].magic = 0 /\ Legible(t, Len(l) + Len(d) + 1, m)
Along(l, d, q, a, e, m) == \E t : Leads(t, l, d, q, m) /\ t[1] = a /\ t[Len(l) + Len(d) + 1] = e

LEMMA AlongTypes ==
  ASSUME NEW l \in Seq(Byte), NEW d \in Seq(Byte), NEW q, NEW a, NEW e, NEW m, Along(l, d, q, a, e, m)
  PROVE  /\ a \in Receiver /\ e \in Receiver /\ Fine(a, q) /\ Fine(e, q)
         /\ m = 0 => Reads(a, Len(e.serial)) /\ Reads(e, Len(e.serial))
         /\ l \o d = <<>> => a = e
         /\ d = <<>> => e.magic = 0
<1>1. PICK t : Leads(t, l, d, q, m) /\ t[1] = a /\ t[Len(l) + Len(d) + 1] = e
  BY DEF Along
<1> DEFINE n == Len(l) + Len(d) + 1
<1>2. n \in Nat /\ 1 \in 1 .. n /\ n \in 1 .. n /\ Len(l \o d) + 1 = n /\ (d = <<>> => n = Len(l) + 1)
      /\ (l \o d = <<>> => n = 1)
  OBVIOUS
<1>3. t \in [1 .. n -> Receiver] /\ Fine(t[1], q) /\ Fine(t[n], q) /\ Legible(t, n, m) /\ t[Len(l) + 1].magic = 0
  BY <1>1, <1>2 DEF Leads, Way
<1>4. t[n] = e
  BY <1>1
<1> HIDE DEF n
<1> QED
  BY <1>1, <1>2, <1>3, <1>4 DEF Legible

\* With nothing on its way.
LEMMA AlongStart ==
  ASSUME NEW q, NEW a \in Receiver, NEW m, Fine(a, q), a.magic = 0, m = 0 => Reads(a, Len(a.serial))
  PROVE  Along(<<>>, <<>>, q, a, a, m)
<1> DEFINE t == [i \in 1 .. 1 |-> a]
<1>1. <<>> \o <<>> = <<>> /\ Len(<<>>) = 0 /\ <<>> \in Seq(Byte) /\ 0 + 0 + 1 = 1 /\ 0 + 1 = 1 /\ 1 .. 0 = {}
      /\ \A i \in 1 .. 1 : i = 1
  OBVIOUS
<1>2. t \in [1 .. 1 -> Receiver] /\ \A i \in 1 .. 1 : t[i] = a
  OBVIOUS
<1>3. t[1] = a
  BY <1>1, <1>2
<1> HIDE DEF t
<1>4. Way(t, <<>>)
  BY <1>1, <1>2 DEF Way
<1>5. Legible(t, 1, m)
  BY <1>2, <1>3 DEF Legible
<1>6. Leads(t, <<>>, <<>>, q, m)
  BY <1>1, <1>2, <1>3, <1>4, <1>5 DEF Leads
<1> QED
  BY <1>1, <1>3, <1>6 DEF Along

\* The way goes on by a byte.
LEMMA AlongByte ==
  ASSUME NEW l \in Seq(Byte), NEW d \in Seq(Byte), NEW q, NEW a, NEW e, NEW m, Along(l, d, q, a, e, m),
         NEW c \in Byte, NEW y \in Receiver, Takes(e, c, y), Fine(y, q),
         m = 0 => Reads(y, Len(y.serial)) /\ Len(e.serial) <= Len(y.serial)
  PROVE  Along(l, d \o <<c>>, q, a, y, m)
<1>1. PICK t : Leads(t, l, d, q, m) /\ t[1] = a /\ t[Len(l) + Len(d) + 1] = e
  BY DEF Along
<1> DEFINE n == Len(l) + Len(d)
           u == [i \in 1 .. n + 2 |-> IF i <= n + 1 THEN t[i] ELSE y]
           p == l \o d
           dd == d \o <<c>>
<1>2. /\ p \in Seq(Byte) /\ Len(p) = n /\ n \in Nat /\ dd \in Seq(Byte) /\ Len(dd) = Len(d) + 1
      /\ Len(l) \in Nat /\ Len(d) \in Nat
  OBVIOUS
<1>3. l \o dd = Append(p, c)
  OBVIOUS
<1>4. /\ Append(p, c) \in Seq(Byte) /\ Len(Append(p, c)) = n + 1 /\ Append(p, c)[n + 1] = c
      /\ \A i \in 1 .. n : Append(p, c)[i] = p[i]
  BY <1>2
<1>5. /\ t \in [1 .. n + 1 -> Receiver] /\ (\A i \in 1 .. n : Takes(t[i], p[i], t[i + 1]))
      /\ (\A i \in 1 .. n + 1 : Fine(t[i], q)) /\ t[Len(l) + 1].magic = 0 /\ Legible(t, n + 1, m)
  BY <1>1, <1>2 DEF Leads, Way
<1>6. t[n + 1] = e
  BY <1>1
<1> HIDE DEF n, p, dd
<1>7. /\ u \in [1 .. n + 2 -> Receiver] /\ (\A i \in 1 .. n + 1 : u[i] = t[i]) /\ u[n + 2] = y
  BY <1>2, <1>5
<1>8. n \in Nat /\ 1 \in 1 .. n + 1 /\ Len(l) + 1 \in 1 .. n + 1 /\ Len(l) + Len(dd) + 1 = n + 2
  BY <1>2 DEF n
<1> HIDE DEF u
<1>9. Way(u, l \o dd)
  <2>1. \A i \in 1 .. n + 1 : Takes(u[i], Append(p, c)[i], u[i + 1])
    <3> TAKE i \in 1 .. n + 1
    <3>1. CASE i = n + 1
      <4>1. u[i] = e /\ u[i + 1] = y /\ Append(p, c)[i] = c
        BY <1>4, <1>6, <1>7, <1>8, <3>1
      <4> QED
        BY <4>1
    <3>2. CASE i # n + 1
      <4>1. i \in 1 .. n /\ i + 1 \in 1 .. n + 1
        BY <1>8, <3>2
      <4>2. u[i] = t[i] /\ u[i + 1] = t[i + 1] /\ Append(p, c)[i] = p[i]
        BY <1>4, <1>7, <4>1
      <4> QED
        BY <1>5, <4>1, <4>2
    <3> QED
      BY <3>1, <3>2
  <2>2. (n + 1) + 1 = n + 2
    BY <1>8
  <2> QED
    BY <1>3, <1>4, <1>7, <2>1, <2>2 DEF Way
<1>10. \A i \in 1 .. n + 2 : Fine(u[i], q)
  <2>1. \A i \in 1 .. n + 2 : i \in 1 .. n + 1 \/ i = n + 2
    BY <1>8
  <2> QED
    BY <1>5, <1>7, <2>1
<1>11. Legible(u, n + 2, m)
  <2>1. SUFFICES ASSUME m = 0, NEW i \in 1 .. n + 2
                 PROVE  Reads(u[i], Len(y.serial))
    BY <1>7 DEF Legible
  <2>2. CASE i = n + 2
    BY <1>7, <2>1, <2>2
  <2>3. CASE i # n + 2
    <3>1. i \in 1 .. n + 1
      BY <1>8, <2>3
    <3>2. Reads(t[i], Len(e.serial)) /\ u[i] = t[i] /\ t[i] \in Receiver /\ e \in Receiver
      BY <1>5, <1>6, <1>7, <1>8, <2>1, <3>1 DEF Legible
    <3>3. Len(t[i].serial) \in Nat /\ Len(e.serial) \in Nat /\ Len(y.serial) \in Nat
      <4>1. \A x \in Receiver : x.serial \in Seq(Byte)
        BY ONLY DEF Receiver
      <4> QED
        BY ONLY <3>2, <4>1, y \in Receiver
    <3> QED
      BY <2>1, <3>2, <3>3 DEF Reads
  <2> QED
    BY <2>2, <2>3
<1>12. u[Len(l) + 1].magic = 0 /\ u[1] = a
  BY <1>1, <1>5, <1>7, <1>8
<1>13. Leads(u, l, dd, q, m)
  BY <1>8, <1>9, <1>10, <1>11, <1>12 DEF Leads
<1>14. Along(l, dd, q, a, y, m)
  BY <1>7, <1>8, <1>12, <1>13 DEF Along
<1> QED
  BY <1>14 DEF dd

\* A frame is queued.
LEMMA AlongQueue ==
  ASSUME NEW l \in Seq(Byte), NEW d \in Seq(Byte), NEW q \in Seq(WireFrames), NEW a, NEW e, NEW m,
         Along(l, d, q, a, e, m), NEW f \in WireFrames, WireFrames \subseteq Seq(Byte)
  PROVE  Along(l, d, Append(q, f), a, e, m)
<1>1. PICK t : Leads(t, l, d, q, m) /\ t[1] = a /\ t[Len(l) + Len(d) + 1] = e
  BY DEF Along
<1>2. ASSUME NEW x \in Receiver, Fine(x, q)
      PROVE  Fine(x, Append(q, f))
  <2>1. Len(x.got) \in Nat /\ Len(q) \in Nat /\ Len(Append(q, f)) = Len(q) + 1
    BY DEF Receiver
  <2>2. \A j \in 1 .. Len(q) : Append(q, f)[j] = q[j]
    OBVIOUS
  <2>3. Begins(x.got, Append(q, f))
    BY <1>2, <2>1, <2>2 DEF Fine, Begins
  <2>4. ASSUME x.state = 1
        PROVE  Len(x.got) < Len(Append(q, f)) /\ Begins(x.buf, Append(q, f)[Len(x.got) + 1])
    <3>1. Len(x.got) < Len(q) /\ Begins(x.buf, q[Len(x.got) + 1]) /\ Len(x.got) + 1 \in 1 .. Len(q)
      BY <1>2, <2>1, <2>4 DEF Fine
    <3> QED
      BY <2>1, <2>2, <3>1
  <2> QED
    BY <1>2, <2>3, <2>4 DEF Fine
<1>3. \A i \in 1 .. Len(l) + Len(d) + 1 : t[i] \in Receiver
  <2>1. Len(l \o d) + 1 = Len(l) + Len(d) + 1
    OBVIOUS
  <2> QED
    BY <1>1, <2>1 DEF Leads, Way
<1>4. Leads(t, l, d, Append(q, f), m)
  BY <1>1, <1>2, <1>3 DEF Leads
<1> QED
  BY <1>1, <1>4 DEF Along

\* The chunk goes on the line.
LEMMA AlongReturn ==
  ASSUME NEW d \in Seq(Byte), NEW q, NEW a, NEW e, NEW m, Along(<<>>, d, q, a, e, m), e.magic = 0
  PROVE  Along(d, <<>>, q, a, e, m)
<1>1. PICK t : Leads(t, <<>>, d, q, m) /\ t[1] = a /\ t[Len(<<>>) + Len(d) + 1] = e
  BY DEF Along
<1>2. /\ <<>> \o d = d \o <<>> /\ Len(<<>>) + Len(d) + 1 = Len(d) + Len(<<>>) + 1
      /\ Len(d) + Len(<<>>) + 1 = Len(d) + 1
  OBVIOUS
<1>3. Leads(t, d, <<>>, q, m)
  BY <1>1, <1>2 DEF Leads
<1> QED
  BY <1>1, <1>2, <1>3 DEF Along

\* The receiver takes a byte.
LEMMA AlongPush ==
  ASSUME NEW l \in Seq(Byte), l # <<>>, NEW d \in Seq(Byte), NEW q, NEW a, NEW e, NEW m,
         Along(l, d, q, a, e, m)
  PROVE  \E y : Takes(a, Head(l), y) /\ Along(Tail(l), d, q, y, e, m)
<1>1. PICK t : Leads(t, l, d, q, m) /\ t[1] = a /\ t[Len(l) + Len(d) + 1] = e
  BY DEF Along
<1> DEFINE n == Len(l) + Len(d)
           u == [i \in 1 .. n |-> t[i + 1]]
           p == l \o d
           r == Tail(l)
<1>2. /\ p \in Seq(Byte) /\ Len(p) = n /\ n \in Nat /\ n >= 1 /\ r \in Seq(Byte) /\ Len(r) = Len(l) - 1
      /\ Len(l) \in Nat /\ Len(d) \in Nat /\ Len(l) >= 1 /\ p[1] = Head(l)
  OBVIOUS
<1>3. r \o d \in Seq(Byte) /\ Len(r \o d) = n - 1 /\ \A i \in 1 .. n - 1 : (r \o d)[i] = p[i + 1]
  OBVIOUS
<1>4. /\ t \in [1 .. n + 1 -> Receiver] /\ (\A i \in 1 .. n : Takes(t[i], p[i], t[i + 1]))
      /\ (\A i \in 1 .. n + 1 : Fine(t[i], q)) /\ t[Len(l) + 1].magic = 0 /\ Legible(t, n + 1, m)
  BY <1>1, <1>2 DEF Leads, Way
<1>5. t[n + 1] = e
  BY <1>1
<1>6. n \in Nat /\ n >= 1 /\ Len(r) + Len(d) + 1 = n /\ Len(r) + 1 = Len(l) /\ Len(l) \in 1 .. n
  BY <1>2 DEF n
<1> HIDE DEF n, p, r
<1>7. /\ u \in [1 .. n -> Receiver] /\ \A i \in 1 .. n : u[i] = t[i + 1] /\ i + 1 \in 1 .. n + 1
  BY <1>4, <1>6
<1> HIDE DEF u
<1>8. Way(u, r \o d)
  <2>1. \A i \in 1 .. n - 1 : Takes(u[i], (r \o d)[i], u[i + 1])
    <3> TAKE i \in 1 .. n - 1
    <3>1. i \in 1 .. n /\ i + 1 \in 1 .. n
      BY <1>6
    <3>2. u[i] = t[i + 1] /\ u[i + 1] = t[(i + 1) + 1] /\ (r \o d)[i] = p[i + 1]
      BY <1>3, <1>7, <3>1
    <3> QED
      BY <1>4, <3>1, <3>2
  <2>2. (n - 1) + 1 = n
    BY <1>6
  <2> QED
    BY <1>3, <1>7, <2>1, <2>2 DEF Way
<1>9. \A i \in 1 .. n : Fine(u[i], q)
  BY <1>4, <1>7
<1>10. u[n] = e /\ u[1] = t[2] /\ u[Len(r) + 1].magic = 0
  <2>1. n \in 1 .. n /\ 1 \in 1 .. n /\ 1 + 1 = 2
    BY <1>6
  <2> QED
    BY <1>4, <1>5, <1>6, <1>7, <2>1
<1>11. Legible(u, n, m)
  BY <1>4, <1>5, <1>7, <1>10 DEF Legible
<1>12. Leads(u, r, d, q, m)
  BY <1>6, <1>8, <1>9, <1>10, <1>11 DEF Leads
<1>13. Along(r, d, q, t[2], e, m)
  BY <1>6, <1>10, <1>12 DEF Along
<1>14. Takes(a, Head(l), t[2])
  <2>1. 1 \in 1 .. n /\ 1 + 1 = 2
    BY <1>6
  <2> QED
    BY <1>1, <1>2, <1>4, <2>1
<1> QED
  BY <1>13, <1>14 DEF r

\* The chunk is forgotten.
LEMMA AlongLine ==
  ASSUME NEW l \in Seq(Byte), NEW d \in Seq(Byte), NEW q, NEW a, NEW e, NEW m, Along(l, d, q, a, e, m)
  PROVE  \E x : Along(l, <<>>, q, a, x, 1)
<1>1. PICK t : Leads(t, l, d, q, m) /\ t[1] = a /\ t[Len(l) + Len(d) + 1] = e
  BY DEF Along
<1> DEFINE n == Len(l) + 1
           u == [i \in 1 .. n |-> t[i]]
<1>2. /\ Len(l) \in Nat /\ Len(d) \in Nat /\ l \o <<>> = l /\ Len(<<>>) = 0 /\ Len(l) + 0 + 1 = n
      /\ Len(l \o d) = Len(l) + Len(d)
      /\ \A i \in 1 .. Len(l) : (l \o d)[i] = l[i]
  OBVIOUS
<1>3. /\ \A i \in 1 .. n : i \in 1 .. Len(l) + Len(d) + 1
      /\ \A i \in 1 .. Len(l) : i \in 1 .. Len(l) + Len(d) /\ i + 1 \in 1 .. n /\ i \in 1 .. n
      /\ 1 \in 1 .. n /\ n \in 1 .. n
  BY <1>2
<1>4. /\ \A i \in 1 .. Len(l) + Len(d) + 1 : t[i] \in Receiver /\ Fine(t[i], q)
      /\ \A i \in 1 .. Len(l) + Len(d) : Takes(t[i], (l \o d)[i], t[i + 1])
      /\ t[n].magic = 0
  BY <1>1, <1>2 DEF Leads, Way
<1>5. u \in [1 .. n -> Receiver] /\ \A i \in 1 .. n : u[i] = t[i]
  BY <1>3, <1>4
<1> HIDE DEF u
<1>6. Way(u, l)
  BY <1>2, <1>3, <1>4, <1>5 DEF Way
<1>7. (\A i \in 1 .. n : Fine(u[i], q)) /\ u[n].magic = 0 /\ u[1] = a
  BY <1>1, <1>3, <1>4, <1>5
<1>8. Legible(u, n, 1)
  BY DEF Legible
<1>9. Leads(u, l, <<>>, q, 1)
  BY <1>2, <1>6, <1>7, <1>8 DEF Leads
<1> QED
  BY <1>2, <1>7, <1>9 DEF Along

\* In panic mode the text does not count, whichever mode it is.
LEMMA AlongMode ==
  ASSUME NEW l, NEW d, NEW q, NEW a, NEW e, NEW m, NEW k, Along(l, d, q, a, e, m), k # 0
  PROVE  Along(l, d, q, a, e, k)
  BY DEF Along, Leads, Legible


-----------------------------------------------------------------------------
\* What the sender has still to send: the frames,
InFrame(ptr, pl) == ptr > 0 \/ pl = "frame"
FramesLeft(e, q, uq, ptr, pl) ==
  /\ Len(q) = Len(e.got) + Len(uq) /\ \A j \in 1 .. Len(uq) : q[Len(e.got) + j] = uq[j]
  /\ InFrame(ptr, pl) => e.state = 1 /\ uq # <<>> /\ Len(e.buf) = ptr
  /\ ~ InFrame(ptr, pl) => e.state = 0

\* a gap, unless it has told of one since,
GapsLeft(n, gap, ref) == (ref > 0 => gap = 1 \/ n > 0) /\ (gap = 2 => n > 0)

\* and the text, of which it has sent n characters: the next ones are in serial_buf, the rest
\* is in the ring.
RingAt(from, k) == IF from + k < LOG THEN from + k ELSE from + k - LOG
ReadFrom(dp) == IF dp >= LOG THEN 0 ELSE dp
InRing(r, from, lg, lp, pr) ==
  /\ r <= pr /\ pr - r < LOG /\ lp = RingAt(from, pr - r)
  /\ \A k \in 0 .. pr - r - 1 : lg[RingAt(from, k)] = Text[r + k + 1]
TextLeft(n, sb, dp, lg, lp, pr) ==
  /\ \A j \in 1 .. Len(sb) : sb[j] = Text[n + j]
  /\ InRing(n + Len(sb), ReadFrom(dp), lg, lp, pr)

Sent(e) ==
  /\ e.magic = 0 /\ FramesLeft(e, queued, usb_queue, usb_frame_ptr, pulling)
  /\ GapsLeft(e.gaps, usb_frame_gap, refused)
  /\ TextLeft(Len(e.serial), serial_buf, dmesg_ptr, log, log_ptr, printed)

PanicText == <<"M", "E", "p">>

UsbTypes ==
  /\ usb_queue \in Seq(WireFrames) /\ usb_frame_ptr \in Nat /\ usb_frame_gap \in 0 .. 2
  /\ usb_panic_mode \in 0 .. 2 /\ serial_buf \in Seq(Byte) /\ chunk \in Seq(Byte)
  /\ pulling \in {"no", "gap", "front", "frame", "text", "return"}
  /\ usb_rx_state \in BOOLEAN /\ usb_rx_was_magic \in BOOLEAN
  /\ usb_panic_mode = 0 => log \in [0 .. LOG - 1 -> Byte] /\ log_ptr \in 0 .. LOG - 1
  /\ dmesg_ptr \in 0 .. LOG
  /\ onLine \in Seq(Byte) /\ queued \in Seq(WireFrames) /\ refused \in Nat
  /\ printed \in 0 .. Len(Text) /\ missed = 0

\* What the steps of jd_usb_pull, and a panic, can rely on.
UsbPlace ==
  /\ usb_panic_mode # 0 => ~ usb_fwd_en /\ pulling = "no" /\ serial_buf \in {<<>>, PanicText}
  /\ pulling = "no" => chunk = <<>>
  /\ pulling # "no" => onLine = <<>>
  /\ pulling = "frame" /\ usb_frame_ptr = 0 => Len(chunk) + 2 <= CHUNK
  /\ pulling = "text" => usb_frame_ptr = 0 \/ CHUNK - Len(chunk) < 2

UsbWay ==
  \E e : Along(onLine, chunk, queued, Now, e, usb_panic_mode) /\ (usb_panic_mode = 0 => Sent(e))

UsbInv == UsbTypes /\ UsbPlace /\ UsbWay

-----------------------------------------------------------------------------
LEMMA Fields ==
  ASSUME NEW b, NEW s, NEW m, NEW g, NEW t, NEW n
  PROVE  LET x == Rcv(b, s, m, g, t, n) IN
         x.buf = b /\ x.state = s /\ x.magic = m /\ x.got = g /\ x.serial = t /\ x.gaps = n
  BY DEF Rcv

LEMMA RcvType ==
  ASSUME NEW b \in Seq(Byte), NEW s \in 0 .. 1, NEW m \in 0 .. 1, NEW g \in Seq(WireFrames),
         NEW t \in Seq(Byte), NEW n \in Nat
  PROVE  Rcv(b, s, m, g, t, n) \in Receiver
  BY DEF Rcv, Receiver

LEMMA ReceiverFields ==
  ASSUME NEW x \in Receiver
  PROVE  /\ x.buf \in Seq(Byte) /\ x.state \in 0 .. 1 /\ x.magic \in 0 .. 1 /\ x.got \in Seq(WireFrames)
         /\ x.serial \in Seq(Byte) /\ x.gaps \in Nat
  BY DEF Receiver

\* The end of a frame leaves the receiver with the first frames.
LEMMA EndedFine ==
  ASSUME UsbSizes, NEW q \in Seq(WireFrames), NEW x \in Receiver, Fine(x, q), NEW y, Ended(x, y)
  PROVE  /\ y \in Receiver /\ Fine(y, q) /\ y.state = 0 /\ y.magic = 0 /\ y.serial = x.serial /\ y.gaps = x.gaps
         /\ x.state = 1 /\ x.buf = q[Len(x.got) + 1] => y.got = Append(x.got, x.buf)
<1>1. /\ x.buf \in Seq(Byte) /\ x.state \in 0 .. 1 /\ x.got \in Seq(WireFrames)
      /\ x.serial \in Seq(Byte) /\ x.gaps \in Nat
  BY ReceiverFields
<1>2. CASE x.state = 0
  <2>1. y = Rcv(x.buf, 0, 0, x.got, x.serial, x.gaps)
    BY <1>2 DEF Ended
  <2>2. y \in Receiver
    BY <1>1, <2>1, RcvType
  <2>3. y.buf = x.buf /\ y.state = 0 /\ y.magic = 0 /\ y.got = x.got /\ y.serial = x.serial /\ y.gaps = x.gaps
    BY <2>1, Fields
  <2> QED
    BY <1>2, <2>2, <2>3 DEF Fine
<1>3. CASE x.state = 1
  <2> DEFINE g == IF x.buf \in WireFrames THEN Append(x.got, x.buf) ELSE x.got
             k == Len(x.got) + 1
  <2>1. y = Rcv(<<>>, 0, 0, g, x.serial, x.gaps)
    BY <1>3 DEF Ended
  <2>2. g \in Seq(WireFrames)
    BY <1>1
  <2>3. Len(x.got) < Len(q) /\ Begins(x.buf, q[k]) /\ Begins(x.got, q) /\ k \in 1 .. Len(q) /\ q[k] \in WireFrames
    BY <1>1, <1>3 DEF Fine
  <2>4. Begins(g, q)
    <3>1. CASE x.buf \in WireFrames
      <4>1. x.buf = q[k]
        BY <2>3, <3>1 DEF UsbSizes
      <4>2. Len(Append(x.got, x.buf)) = k /\ k <= Len(q)
            /\ \A j \in 1 .. k : Append(x.got, x.buf)[j] = IF j = k THEN x.buf ELSE x.got[j]
        BY <1>1, <2>3
      <4>3. \A j \in 1 .. k : j # k => j \in 1 .. Len(x.got)
        BY <1>1
      <4>4. \A j \in 1 .. k : Append(x.got, x.buf)[j] = q[j]
        BY <2>3, <4>1, <4>2, <4>3 DEF Begins
      <4> QED
        BY <3>1, <4>2, <4>4 DEF Begins
    <3>2. CASE x.buf \notin WireFrames
      BY <2>3, <3>2
    <3> QED
      BY <3>1, <3>2
  <2>5. /\ y.buf = <<>> /\ y.state = 0 /\ y.magic = 0 /\ y.got = g /\ y.serial = x.serial /\ y.gaps = x.gaps
    BY <2>1, Fields
  <2>6. <<>> \in Seq(Byte)
    OBVIOUS
  <2>7. x.buf = q[k] => g = Append(x.got, x.buf)
    BY <2>3
  <2> HIDE DEF g, k
  <2>8. y \in Receiver
    <3>1. 0 \in 0 .. 1
      OBVIOUS
    <3> QED
      BY <1>1, <2>1, <2>2, <2>6, <3>1, RcvType
  <2> QED
    BY <2>4, <2>5, <2>7, <2>8 DEF Fine, k
<1> QED
  BY <1>1, <1>2, <1>3

\* The receiver after the first byte of a pair.
Marked(e) == Rcv(e.buf, e.state, 1, e.got, e.serial, e.gaps)

\* The way goes on by a pair.
LEMMA AlongPair ==
  ASSUME UsbSizes, NEW l \in Seq(Byte), NEW d \in Seq(Byte), NEW q, NEW a, NEW e, NEW m, Along(l, d, q, a, e, m),
         e.magic = 0, NEW c \in Byte, NEW y \in Receiver, Takes(Marked(e), c, y), Fine(y, q),
         m = 0 => Reads(y, Len(y.serial)) /\ Len(e.serial) <= Len(y.serial)
  PROVE  Along(l, d \o <<"M", c>>, q, a, y, m)
<1> DEFINE x == Marked(e)
<1>1. e \in Receiver /\ Fine(e, q) /\ (m = 0 => Reads(e, Len(e.serial)))
  BY AlongTypes
<1>2. x.buf = e.buf /\ x.state = e.state /\ x.got = e.got /\ x.serial = e.serial
  BY Fields DEF Marked
<1>3. x \in Receiver
  <2>1. /\ e.buf \in Seq(Byte) /\ e.state \in 0 .. 1 /\ e.got \in Seq(WireFrames) /\ e.serial \in Seq(Byte)
        /\ e.gaps \in Nat /\ 1 \in 0 .. 1
    BY <1>1, ReceiverFields
  <2> QED
    BY <2>1, RcvType DEF Marked
<1>4. Takes(e, "M", x)
  BY DEF Takes, Marked
<1>5. Fine(x, q)
  BY <1>1, <1>2 DEF Fine
<1>6. m = 0 => Reads(x, Len(x.serial)) /\ Len(e.serial) <= Len(x.serial)
  <2>1. Len(e.serial) \in Nat
    BY <1>1, ReceiverFields
  <2> QED
    BY <1>1, <1>2, <2>1 DEF Reads
<1>7. "M" \in Byte
  BY DEF UsbSizes
<1> HIDE DEF x
<1>8. Along(l, d \o <<"M">>, q, a, x, m)
  BY <1>3, <1>4, <1>5, <1>6, <1>7, AlongByte
<1> DEFINE dd == d \o <<"M">>
<1>9. dd \in Seq(Byte) /\ dd \o <<c>> = d \o <<"M", c>>
  BY <1>7
<1>10. Takes(x, c, y) /\ Along(l, dd, q, a, x, m)
  BY <1>8 DEF x
<1> HIDE DEF dd
<1>11. m = 0 => Reads(y, Len(y.serial)) /\ Len(x.serial) <= Len(y.serial)
  BY <1>2
<1>12. Along(l, dd \o <<c>>, q, a, y, m)
  BY <1>9, <1>10, <1>11, AlongByte
<1> QED
  BY <1>9, <1>12

\* The way goes on by a byte that is escaped if need be.
LEMMA AlongGiven ==
  ASSUME UsbSizes, NEW l \in Seq(Byte), NEW d \in Seq(Byte), NEW q, NEW a, NEW e, NEW m, Along(l, d, q, a, e, m),
         e.magic = 0, NEW c \in Byte, NEW y \in Receiver, Given(e, c, y), Fine(y, q),
         m = 0 => Reads(y, Len(y.serial)) /\ Len(e.serial) <= Len(y.serial)
  PROVE  Along(l, d \o Usb!Escaped(c), q, a, y, m)
<1>1. CASE c = "M"
  <2>1. Usb!Escaped(c) = <<"M", "L">>
    BY <1>1 DEF Usb!Escaped, Usb!M, Usb!LITERAL
  <2>2. /\ Marked(e).buf = e.buf /\ Marked(e).state = e.state /\ Marked(e).got = e.got /\ Marked(e).magic = 1
        /\ Marked(e).serial = e.serial /\ Marked(e).gaps = e.gaps
    BY Fields DEF Marked
  <2>3. Takes(Marked(e), "L", y)
    BY <1>1, <2>2 DEF Takes, Given
  <2>4. "L" \in Byte
    BY DEF UsbSizes
  <2>5. Along(l, d \o <<"M", "L">>, q, a, y, m)
    BY <2>3, <2>4, AlongPair
  <2> QED
    BY <2>1, <2>5
<1>2. CASE c # "M"
  <2>1. Usb!Escaped(c) = <<c>>
    BY <1>2 DEF Usb!Escaped, Usb!M
  <2>2. Takes(e, c, y)
    BY <1>2 DEF Takes
  <2> QED
    BY <2>1, <2>2, AlongByte
<1> QED
  BY <1>1, <1>2


-----------------------------------------------------------------------------
\* The next characters are read from the ring.
LEMMA TextRead ==
  ASSUME UsbSizes, NEW n \in Nat, dmesg_ptr \in 0 .. LOG, log \in [0 .. LOG - 1 -> Byte],
         log_ptr \in 0 .. LOG - 1, printed \in Nat,
         TextLeft(n, <<>>, dmesg_ptr, log, log_ptr, printed)
  PROVE  LET r == Usb!jd_dmesg_read(SERIAL, dmesg_ptr) IN
         /\ r.bytes \in Seq(Byte) /\ r.state \in 0 .. LOG
         /\ TextLeft(n, r.bytes, r.state, log, log_ptr, printed)
<1> DEFINE from == ReadFrom(dmesg_ptr)
           avail == (IF log_ptr < from THEN LOG ELSE log_ptr) - from
           k == IF avail > SERIAL THEN SERIAL ELSE avail
           bytes == [i \in 1 .. k |-> log[from + i - 1]]
           r == Usb!jd_dmesg_read(SERIAL, dmesg_ptr)
           u == printed - n
<1>1. r = [bytes |-> bytes, state |-> from + k]
  BY DEF Usb!jd_dmesg_read, ReadFrom
<1>2. LOG \in Nat /\ LOG >= 1 /\ SERIAL \in Nat /\ from \in 0 .. LOG - 1
  BY DEF UsbSizes, ReadFrom
<1>3. n + Len(<<>>) = n
  OBVIOUS
<1>4. n <= printed /\ u < LOG /\ log_ptr = RingAt(from, u) /\ \A j \in 0 .. u - 1 : log[RingAt(from, j)] = Text[n + j + 1]
  BY <1>3 DEF TextLeft, InRing
<1>5. r.bytes = bytes /\ r.state = from + k
  BY <1>1
<1> HIDE DEF r, from
<1>6. u \in Nat
  BY <1>4
<1>7. k \in Nat /\ k <= u /\ from + k <= LOG
  BY <1>2, <1>4, <1>6 DEF RingAt
<1>8. \A i \in 1 .. k : log[from + i - 1] = Text[n + i] /\ log[from + i - 1] \in Byte
  <2> TAKE i \in 1 .. k
  <2>1. i - 1 \in 0 .. u - 1 /\ from + (i - 1) < LOG /\ from + (i - 1) = from + i - 1 /\ n + (i - 1) + 1 = n + i
        /\ from + i - 1 \in 0 .. LOG - 1
    BY <1>2, <1>6, <1>7
  <2>2. RingAt(from, i - 1) = from + i - 1
    BY <2>1 DEF RingAt
  <2> QED
    BY <1>4, <2>1, <2>2
<1>9. bytes \in [1 .. k -> Byte] /\ \A i \in 1 .. k : bytes[i] = Text[n + i]
  BY <1>8
<1> HIDE DEF k
<1>10. bytes \in Seq(Byte) /\ Len(bytes) = k
  BY <1>7, <1>9
<1> HIDE DEF bytes
<1>11. ReadFrom(from + k) = RingAt(from, k)
  BY <1>2, <1>7 DEF ReadFrom, RingAt
<1>12. InRing(n + k, RingAt(from, k), log, log_ptr, printed)
  <2>1. n + k <= printed /\ printed - (n + k) = u - k /\ u - k < LOG
    BY <1>2, <1>4, <1>6, <1>7
  <2>2. \A j \in 0 .. u - k : RingAt(RingAt(from, k), j) = RingAt(from, j + k)
    BY <1>2, <1>4, <1>6, <1>7 DEF RingAt
  <2>3. log_ptr = RingAt(RingAt(from, k), u - k)
    <3>1. u - k \in 0 .. u - k /\ (u - k) + k = u
      BY <1>6, <1>7
    <3> QED
      BY <1>4, <2>2, <3>1
  <2>4. ASSUME NEW j \in 0 .. (u - k) - 1
        PROVE  log[RingAt(RingAt(from, k), j)] = Text[(n + k) + j + 1]
    <3>1. j \in 0 .. u - k /\ j + k \in 0 .. u - 1 /\ n + (j + k) + 1 = (n + k) + j + 1
      BY <1>6, <1>7
    <3> QED
      BY <1>4, <2>2, <3>1
  <2> HIDE DEF u
  <2> QED
    BY <2>1, <2>3, <2>4 DEF InRing
<1>13. TextLeft(n, bytes, from + k, log, log_ptr, printed)
  BY <1>9, <1>10, <1>11, <1>12 DEF TextLeft
<1>14. from + k \in 0 .. LOG
  BY <1>2, <1>7
<1> QED
  BY <1>5, <1>10, <1>13, <1>14 DEF r

\* One of them is sent.
LEMMA TextTaken ==
  ASSUME UsbSizes, NEW n \in Nat, NEW sb \in Seq(Byte), sb # <<>>, NEW dp, printed \in 0 .. Len(Text),
         TextLeft(n, sb, dp, log, log_ptr, printed)
  PROVE  /\ TextLeft(n + 1, Tail(sb), dp, log, log_ptr, printed) /\ Tail(sb) \in Seq(Byte)
         /\ n + 1 \in 1 .. Len(Text) /\ Head(sb) = Text[n + 1] /\ Head(sb) \in Byte
<1>1. /\ Len(sb) \in Nat /\ Len(sb) >= 1 /\ Tail(sb) \in Seq(Byte) /\ Len(Tail(sb)) = Len(sb) - 1 /\ Head(sb) = sb[1]
      /\ 1 \in 1 .. Len(sb) /\ sb[1] \in Byte
      /\ \A j \in 1 .. Len(sb) - 1 : Tail(sb)[j] = sb[j + 1]
  OBVIOUS
<1>2. /\ \A j \in 1 .. Len(sb) : sb[j] = Text[n + j]
      /\ InRing(n + Len(sb), ReadFrom(dp), log, log_ptr, printed)
  BY DEF TextLeft
<1>3. n + Len(sb) <= printed /\ Len(Text) \in Nat
  BY <1>2 DEF InRing, UsbSizes
<1>4. (n + 1) + (Len(sb) - 1) = n + Len(sb) /\ n + 1 \in 1 .. Len(Text)
  BY <1>1, <1>3
<1>5. \A j \in 1 .. Len(sb) - 1 : j + 1 \in 1 .. Len(sb) /\ n + (j + 1) = (n + 1) + j
  BY <1>1
<1>6. \A j \in 1 .. Len(sb) - 1 : Tail(sb)[j] = Text[(n + 1) + j]
  BY <1>1, <1>2, <1>5
<1>7. TextLeft(n + 1, Tail(sb), dp, log, log_ptr, printed)
  BY <1>1, <1>2, <1>4, <1>6 DEF TextLeft
<1> QED
  BY <1>1, <1>2, <1>4, <1>7

\* Where a character is written, in numbers: i is the place of the k-th unread one.
LEMMA WrittenAt ==
  ASSUME NEW size \in Nat, NEW from \in 0 .. size - 1, NEW u \in Nat, NEW len \in Nat, len > 0, u + len < size,
         NEW lp \in 0 .. size - 1, lp = IF from + u < size THEN from + u ELSE from + u - size,
         NEW k \in 0 .. u + len - 1,
         NEW i, i = IF from + k < size THEN from + k ELSE from + k - size
  PROVE  LET wrap == size - lp < len + 1
             at == IF wrap THEN len - (size - lp) ELSE lp + len
             w == IF wrap /\ i < lp THEN i + size - lp ELSE i - lp
         IN  /\ i \in 0 .. size - 1 /\ at \in 0 .. size - 1 /\ i # at
             /\ at = IF from + (u + len) < size THEN from + (u + len) ELSE from + (u + len) - size
             /\ k >= u => w = k - u /\ w \in 0 .. len - 1 /\ (i >= lp \/ wrap)
             /\ k < u => ~ (w \in 0 .. len - 1 /\ (i >= lp \/ wrap))
  OBVIOUS

\* More text is written.
LEMMA TextWritten ==
  ASSUME UsbSizes, UsbTypes, usb_panic_mode = 0, NEW len \in 1 .. 2, Usb!jd_dmesg_write(len), NEW n \in Nat, Len(serial) \in Nat,
         Len(serial) <= n, TextLeft(n, serial_buf, dmesg_ptr, log, log_ptr, printed)
  PROVE  /\ TextLeft(n, serial_buf, dmesg_ptr, log', log_ptr', printed')
         /\ log' \in [0 .. LOG - 1 -> Byte] /\ log_ptr' \in 0 .. LOG - 1 /\ printed' \in 0 .. Len(Text)
<1> DEFINE r == n + Len(serial_buf)
           from == ReadFrom(dmesg_ptr)
           u == printed - r
           space == LOG - log_ptr
           wrap == space < len + 1
           at == IF wrap THEN len - space ELSE log_ptr + len
           w(i) == IF wrap /\ i < log_ptr THEN i + LOG - log_ptr ELSE i - log_ptr
           written == [i \in 0 .. LOG - 1 |->
                        IF w(i) \in 0 .. len - 1 /\ (i >= log_ptr \/ wrap) THEN Text[printed + w(i) + 1]
                        ELSE log[i]]
<1>1. /\ printed + len <= Len(Text) /\ (printed - Len(serial)) + len < LOG
      /\ log' = [written EXCEPT ![at] = "0"] /\ log_ptr' = at /\ printed' = printed + len
  BY DEF Usb!jd_dmesg_write, Usb!Unread
<1>2. /\ LOG \in Nat /\ LOG >= 1 /\ from \in 0 .. LOG - 1 /\ Len(serial_buf) \in Nat /\ Len(Text) \in Nat
      /\ log_ptr \in 0 .. LOG - 1 /\ printed \in Nat /\ Text \in Seq(Byte) /\ len \in Nat /\ len > 0
      /\ log \in [0 .. LOG - 1 -> Byte]
  <2>1. LOG \in Nat /\ LOG >= 1 /\ Text \in Seq(Byte) /\ serial_buf \in Seq(Byte) /\ dmesg_ptr \in 0 .. LOG
    BY DEF UsbSizes, UsbTypes
  <2>2. Len(Text) \in Nat /\ Len(serial_buf) \in Nat
    BY <2>1
  <2>3. from \in 0 .. LOG - 1
    BY <2>1 DEF ReadFrom
  <2>4. printed \in 0 .. Len(Text) /\ log_ptr \in 0 .. LOG - 1 /\ log \in [0 .. LOG - 1 -> Byte]
    BY DEF UsbTypes
  <2> HIDE DEF from
  <2> QED
    BY <2>1, <2>2, <2>3, <2>4
<1>3. /\ \A j \in 1 .. Len(serial_buf) : serial_buf[j] = Text[n + j]
      /\ r <= printed /\ u < LOG /\ log_ptr = RingAt(from, u)
      /\ \A k \in 0 .. u - 1 : log[RingAt(from, k)] = Text[r + k + 1]
  BY DEF TextLeft, InRing
<1>4. u \in Nat /\ u + len < LOG /\ r \in Nat
  <2>1. r \in Nat /\ r >= Len(serial)
    BY <1>2
  <2> HIDE DEF r
  <2>2. u \in Nat
    BY <1>2, <1>3, <2>1
  <2>3. (printed - r) + len < LOG
    BY <1>1, <1>2, <2>1
  <2> QED
    BY <2>1, <2>2, <2>3
<1>5. \A k \in 0 .. u + len - 1 :
        LET i == RingAt(from, k) IN
        /\ i \in 0 .. LOG - 1 /\ at \in 0 .. LOG - 1 /\ i # at
        /\ at = RingAt(from, u + len)
        /\ k >= u => w(i) = k - u /\ w(i) \in 0 .. len - 1 /\ (i >= log_ptr \/ wrap)
        /\ k < u => ~ (w(i) \in 0 .. len - 1 /\ (i >= log_ptr \/ wrap))
  <2> TAKE k \in 0 .. u + len - 1
  <2>1. log_ptr = IF from + u < LOG THEN from + u ELSE from + u - LOG
    BY <1>3 DEF RingAt
  <2> HIDE DEF u, from
  <2> QED
    BY <1>2, <1>4, <2>1, WrittenAt DEF RingAt
<1>6. 0 \in 0 .. u + len - 1
  BY <1>2, <1>4
<1>7. at \in 0 .. LOG - 1 /\ at = RingAt(from, u + len)
  BY <1>5, <1>6
<1>8. log' \in [0 .. LOG - 1 -> Byte]
  <2>1. ASSUME NEW i \in 0 .. LOG - 1, w(i) \in 0 .. len - 1
        PROVE  Text[printed + w(i) + 1] \in Byte
    <3>1. printed + w(i) + 1 \in 1 .. Len(Text)
      BY <1>1, <1>2, <2>1
    <3> HIDE DEF w
    <3> QED
      BY <1>2, <3>1
  <2>2. written \in [0 .. LOG - 1 -> Byte]
    <3> HIDE DEF w, wrap
    <3> QED
      BY <1>2, <2>1
  <2>3. "0" \in Byte
    BY DEF UsbSizes
  <2> HIDE DEF written, at
  <2> QED
    BY <1>1, <2>2, <2>3
<1>9. ASSUME NEW k \in 0 .. u + len - 1
      PROVE  log'[RingAt(from, k)] = Text[r + k + 1]
  <2> DEFINE i == RingAt(from, k)
  <2>1. i \in 0 .. LOG - 1 /\ i # at
    BY <1>5
  <2>2. log'[i] = written[i]
    <3> HIDE DEF at, i, written
    <3>1. DOMAIN written = 0 .. LOG - 1
      BY DEF written
    <3> QED
      BY <1>1, <2>1, <3>1
  <2>3. CASE k >= u
    <3>1. w(i) = k - u /\ w(i) \in 0 .. len - 1 /\ (i >= log_ptr \/ wrap)
      BY <1>5, <2>3
    <3>2. printed + w(i) + 1 = r + k + 1
      BY <1>2, <1>4, <3>1
    <3>3. written[i] = Text[printed + w(i) + 1]
      <4> HIDE DEF w, i, wrap
      <4> QED
        BY <2>1, <3>1
    <3> QED
      BY <2>2, <3>2, <3>3
  <2>4. CASE k < u
    <3>1. ~ (w(i) \in 0 .. len - 1 /\ (i >= log_ptr \/ wrap)) /\ k \in 0 .. u - 1
      BY <1>4, <1>5, <2>4
    <3>2. written[i] = log[i]
      <4> HIDE DEF w, i, wrap
      <4> QED
        BY <2>1, <3>1
    <3> QED
      BY <1>3, <2>2, <3>1, <3>2
  <2>5. k >= u \/ k < u
    BY <1>4
  <2> QED
    BY <2>3, <2>4, <2>5
<1>10. printed' - r = u + len /\ r <= printed' /\ printed' \in 0 .. Len(Text)
  BY <1>1, <1>2, <1>3, <1>4
<1>11. InRing(r, from, log', log_ptr', printed')
  <2> HIDE DEF u, r, from, at
  <2> QED
    BY <1>1, <1>4, <1>7, <1>9, <1>10 DEF InRing
<1> QED
  BY <1>1, <1>3, <1>7, <1>8, <1>10, <1>11 DEF TextLeft


-----------------------------------------------------------------------------
LEMMA SameNow ==
  ASSUME UNCHANGED Usb!rx
  PROVE  Now' = Now
  BY DEF Usb!rx, Now, Bit

LEMMA FramesSame ==
  ASSUME NEW e, NEW y, NEW q, NEW uq, NEW ptr, NEW pl, NEW pn, FramesLeft(e, q, uq, ptr, pl),
         y.got = e.got, y.state = e.state, y.buf = e.buf, InFrame(ptr, pl) <=> InFrame(ptr, pn)
  PROVE  FramesLeft(y, q, uq, ptr, pn)
  BY DEF FramesLeft

\* The frame that is being sent is the next one of those queued.
LEMMA NextFrame ==
  ASSUME UsbSizes, NEW e \in Receiver, NEW q \in Seq(WireFrames), NEW uq \in Seq(WireFrames), NEW ptr, NEW pl,
         FramesLeft(e, q, uq, ptr, pl), uq # <<>>
  PROVE  /\ Len(e.got) < Len(q) /\ Head(uq) = q[Len(e.got) + 1] /\ Len(e.got) + 1 \in 1 .. Len(q)
         /\ Head(uq) \in WireFrames /\ Head(uq) \in Seq(Byte) /\ Len(Head(uq)) \in 1 .. RXMAX
<1>1. Len(e.got) \in Nat /\ Len(q) \in Nat /\ Len(uq) \in Nat /\ Len(uq) >= 1 /\ 1 \in 1 .. Len(uq) /\ Head(uq) = uq[1]
      /\ Head(uq) \in WireFrames
  BY ReceiverFields
<1>2. Len(q) = Len(e.got) + Len(uq) /\ q[Len(e.got) + 1] = uq[1]
  BY <1>1 DEF FramesLeft
<1>3. Head(uq) \in Seq(Byte) /\ Len(Head(uq)) \in 1 .. RXMAX
  BY <1>1 DEF UsbSizes
<1> QED
  BY <1>1, <1>2, <1>3

\* One more frame is queued.
LEMMA FramesQueued ==
  ASSUME NEW e \in Receiver, NEW q \in Seq(WireFrames), NEW uq \in Seq(WireFrames), NEW ptr, NEW pl,
         FramesLeft(e, q, uq, ptr, pl), NEW f \in WireFrames
  PROVE  FramesLeft(e, Append(q, f), Append(uq, f), ptr, pl)
<1> DEFINE n == Len(e.got)
           qq == Append(q, f)
           uu == Append(uq, f)
<1>1. n \in Nat /\ Len(q) \in Nat /\ Len(uq) \in Nat
  BY ReceiverFields
<1>2. Len(q) = n + Len(uq) /\ \A j \in 1 .. Len(uq) : q[n + j] = uq[j]
  BY DEF FramesLeft
<1>3. /\ Len(qq) = Len(q) + 1 /\ qq[Len(q) + 1] = f /\ \A j \in 1 .. Len(q) : qq[j] = q[j]
  OBVIOUS
<1>4. /\ Len(uu) = Len(uq) + 1 /\ uu[Len(uq) + 1] = f /\ uu # <<>> /\ \A j \in 1 .. Len(uq) : uu[j] = uq[j]
  OBVIOUS
<1> HIDE DEF n, qq, uu
<1>5. ASSUME NEW j \in 1 .. Len(uq) + 1
      PROVE  qq[n + j] = uu[j]
  <2>1. CASE j = Len(uq) + 1
    <3>1. n + j = Len(q) + 1
      BY <1>1, <1>2, <2>1
    <3> QED
      BY <1>3, <1>4, <2>1, <3>1
  <2>2. CASE j # Len(uq) + 1
    <3>1. j \in 1 .. Len(uq) /\ n + j \in 1 .. Len(q)
      BY <1>1, <1>2, <2>2
    <3> QED
      BY <1>2, <1>3, <1>4, <3>1
  <2> QED
    BY <2>1, <2>2
<1>6. Len(qq) = n + Len(uu)
  BY <1>1, <1>2, <1>3, <1>4
<1>7. FramesLeft(e, qq, uu, ptr, pl)
  BY <1>4, <1>5, <1>6 DEF FramesLeft, n
<1> QED
  BY <1>7 DEF qq, uu

LEMMA SendFrameStep ==
  ASSUME UsbSizes, UsbInv, Usb!jd_usb_send_frame
  PROVE  UsbInv'
<1>1. usb_panic_mode = 0
  BY DEF UsbInv, UsbPlace, Usb!jd_usb_send_frame
<1>2. PICK e : Along(onLine, chunk, queued, Now, e, 0) /\ Sent(e)
  BY <1>1 DEF UsbInv, UsbWay
<1>3. /\ usb_frame_ptr' = usb_frame_ptr /\ usb_panic_mode' = usb_panic_mode /\ usb_fwd_en' = usb_fwd_en
      /\ serial_buf' = serial_buf /\ chunk' = chunk /\ pulling' = pulling /\ dmesg_ptr' = dmesg_ptr
      /\ onLine' = onLine /\ UNCHANGED Usb!rx /\ UNCHANGED Usb!console /\ missed' = missed
  BY DEF Usb!jd_usb_send_frame
<1>4. /\ log' = log /\ log_ptr' = log_ptr /\ printed' = printed /\ usb_rx_state' = usb_rx_state
      /\ usb_rx_was_magic' = usb_rx_was_magic /\ Now' = Now
  BY <1>3, SameNow DEF Usb!console, Usb!rx
<1>5. /\ onLine \in Seq(Byte) /\ chunk \in Seq(Byte) /\ queued \in Seq(WireFrames) /\ usb_queue \in Seq(WireFrames)
      /\ refused \in Nat /\ usb_frame_gap \in 0 .. 2
  BY DEF UsbInv, UsbTypes
<1>6. e \in Receiver /\ e.got \in Seq(WireFrames) /\ e.gaps \in Nat
  BY <1>2, <1>5, AlongTypes, ReceiverFields
<1>7. UsbPlace'
  BY <1>3 DEF UsbInv, UsbPlace
<1>8. TextLeft(Len(e.serial), serial_buf', dmesg_ptr', log', log_ptr', printed') /\ e.magic = 0
  BY <1>2, <1>3, <1>4 DEF Sent
<1>9. SUFFICES /\ usb_queue' \in Seq(WireFrames) /\ queued' \in Seq(WireFrames) /\ refused' \in Nat
               /\ usb_frame_gap' \in 0 .. 2 /\ Along(onLine, chunk, queued', Now, e, 0)
               /\ FramesLeft(e, queued', usb_queue', usb_frame_ptr, pulling)
               /\ GapsLeft(e.gaps, usb_frame_gap', refused')
  <2>1. UsbTypes'
    BY <1>3, <1>4, <1>9 DEF UsbInv, UsbTypes
  <2>2. Sent(e)'
    BY <1>3, <1>8, <1>9 DEF Sent
  <2>3. UsbWay'
    BY <1>1, <1>3, <1>4, <1>9, <2>2 DEF UsbWay
  <2> QED
    BY <1>7, <2>1, <2>3 DEF UsbInv
<1>10. FramesLeft(e, queued, usb_queue, usb_frame_ptr, pulling) /\ GapsLeft(e.gaps, usb_frame_gap, refused)
  BY <1>2 DEF Sent
<1>11. CASE Len(usb_queue) < QUEUE
  <2>1. PICK f \in WireFrames : usb_queue' = Append(usb_queue, f) /\ queued' = Append(queued, f)
    BY <1>11 DEF Usb!jd_usb_send_frame
  <2>2. usb_frame_gap' = (IF usb_frame_gap = 2 THEN 0 ELSE usb_frame_gap) /\ refused' = refused
    BY <1>11 DEF Usb!jd_usb_send_frame
  <2>3. Along(onLine, chunk, queued', Now, e, 0)
    BY <1>2, <1>5, <2>1, AlongQueue DEF UsbSizes
  <2>4. FramesLeft(e, queued', usb_queue', usb_frame_ptr, pulling)
    BY <1>5, <1>6, <1>10, <2>1, FramesQueued
  <2>5. GapsLeft(e.gaps, usb_frame_gap', refused')
    BY <1>5, <1>6, <1>10, <2>2 DEF GapsLeft
  <2> QED
    BY <1>5, <2>1, <2>2, <2>3, <2>4, <2>5
<1>12. CASE ~ Len(usb_queue) < QUEUE
  <2>1. /\ usb_frame_gap' = (IF usb_frame_gap = 0 THEN 1 ELSE usb_frame_gap) /\ refused' = refused + 1
        /\ usb_queue' = usb_queue /\ queued' = queued
    BY <1>12 DEF Usb!jd_usb_send_frame
  <2>2. GapsLeft(e.gaps, usb_frame_gap', refused')
    BY <1>5, <1>6, <1>10, <2>1 DEF GapsLeft
  <2> QED
    BY <1>2, <1>5, <1>10, <2>1, <2>2
<1> QED
  BY <1>11, <1>12

\* A step of jd_usb_pull that sends what leads to y.
LEMMA PullStep ==
  ASSUME UsbSizes, UsbTypes, UsbPlace, UNCHANGED Usb!quiet, usb_panic_mode = 0,
         pulling # "no", pulling' \in {"gap", "front", "frame", "text", "return"},
         usb_queue' \in Seq(WireFrames), usb_frame_ptr' \in Nat, usb_frame_gap' \in 0 .. 2,
         serial_buf' \in Seq(Byte), chunk' \in Seq(Byte), dmesg_ptr' \in 0 .. LOG,
         pulling' = "frame" /\ usb_frame_ptr' = 0 => Len(chunk') + 2 <= CHUNK,
         pulling' = "text" => usb_frame_ptr' = 0 \/ CHUNK - Len(chunk') < 2,
         NEW y, Along(onLine, chunk', queued, Now, y, 0), y.magic = 0,
         FramesLeft(y, queued, usb_queue', usb_frame_ptr', pulling'),
         GapsLeft(y.gaps, usb_frame_gap', refused),
         TextLeft(Len(y.serial), serial_buf', dmesg_ptr', log, log_ptr, printed)
  PROVE  UsbInv'
<1>1. /\ usb_panic_mode' = usb_panic_mode /\ usb_fwd_en' = usb_fwd_en /\ onLine' = onLine
      /\ UNCHANGED Usb!rx /\ UNCHANGED Usb!console /\ UNCHANGED Usb!history
  BY DEF Usb!quiet
<1>2. /\ log' = log /\ log_ptr' = log_ptr /\ printed' = printed /\ usb_rx_state' = usb_rx_state
      /\ usb_rx_was_magic' = usb_rx_was_magic /\ Now' = Now /\ queued' = queued /\ refused' = refused /\ missed' = missed
  BY <1>1, SameNow DEF Usb!console, Usb!rx, Usb!history
<1>3. UsbTypes'
  BY <1>1, <1>2 DEF UsbTypes
<1>4. UsbPlace'
  BY <1>1 DEF UsbPlace
<1>5. Sent(y)'
  BY <1>1, <1>2 DEF Sent
<1>6. UsbWay'
  BY <1>1, <1>2, <1>5 DEF UsbWay
<1> QED
  BY <1>3, <1>4, <1>6 DEF UsbInv

\* What the steps of jd_usb_pull find.
LEMMA Pulls ==
  ASSUME UsbSizes, UsbInv, pulling # "no"
  PROVE  /\ usb_panic_mode = 0 /\ UsbTypes /\ UsbPlace /\ onLine = <<>>
         /\ \E e \in Receiver : /\ Along(onLine, chunk, queued, Now, e, 0) /\ e.magic = 0 /\ Fine(e, queued)
                                /\ Reads(e, Len(e.serial))
                                /\ FramesLeft(e, queued, usb_queue, usb_frame_ptr, pulling)
                                /\ GapsLeft(e.gaps, usb_frame_gap, refused)
                                /\ TextLeft(Len(e.serial), serial_buf, dmesg_ptr, log, log_ptr, printed)
<1>1. usb_panic_mode = 0 /\ UsbTypes /\ UsbPlace /\ onLine = <<>>
  BY DEF UsbInv, UsbPlace
<1>2. PICK e : Along(onLine, chunk, queued, Now, e, 0) /\ Sent(e)
  BY <1>1 DEF UsbInv, UsbWay
<1>3. onLine \in Seq(Byte) /\ chunk \in Seq(Byte)
  BY <1>1 DEF UsbTypes
<1>4. e \in Receiver /\ Fine(e, queued) /\ Reads(e, Len(e.serial))
  BY <1>2, <1>3, AlongTypes
<1> QED
  BY <1>1, <1>2, <1>4 DEF Sent


LEMMA PullGapStep ==
  ASSUME UsbSizes, UsbInv, Usb!PullGap
  PROVE  UsbInv'
<1>1. /\ pulling = "gap" /\ pulling' = "front" /\ usb_queue' = usb_queue /\ usb_frame_ptr' = usb_frame_ptr
      /\ serial_buf' = serial_buf /\ dmesg_ptr' = dmesg_ptr /\ UNCHANGED Usb!quiet
  BY DEF Usb!PullGap
<1>2. usb_panic_mode = 0 /\ UsbTypes /\ UsbPlace
  BY <1>1, Pulls
<1>3. PICK e \in Receiver :
        /\ Along(onLine, chunk, queued, Now, e, 0) /\ e.magic = 0 /\ Fine(e, queued) /\ Reads(e, Len(e.serial))
        /\ FramesLeft(e, queued, usb_queue, usb_frame_ptr, pulling)
        /\ GapsLeft(e.gaps, usb_frame_gap, refused)
        /\ TextLeft(Len(e.serial), serial_buf, dmesg_ptr, log, log_ptr, printed)
  BY <1>1, Pulls
<1>4. /\ usb_queue \in Seq(WireFrames) /\ usb_frame_ptr \in Nat /\ usb_frame_gap \in 0 .. 2
      /\ serial_buf \in Seq(Byte) /\ chunk \in Seq(Byte) /\ dmesg_ptr \in 0 .. LOG /\ onLine \in Seq(Byte)
  BY <1>2 DEF UsbTypes
<1>5. InFrame(usb_frame_ptr, pulling) <=> InFrame(usb_frame_ptr, "front")
  BY <1>1 DEF InFrame
<1>6. CASE usb_frame_gap' = usb_frame_gap /\ chunk' = chunk
  <2>1. FramesLeft(e, queued, usb_queue, usb_frame_ptr, "front")
    BY <1>3, <1>5, FramesSame
  <2> QED
    BY <1>1, <1>2, <1>3, <1>4, <1>6, <2>1, PullStep
<1>7. CASE usb_frame_gap' = 2 /\ chunk' = chunk \o <<"M", "G">>
  <2> DEFINE y == Rcv(e.buf, e.state, 0, e.got, e.serial, e.gaps + 1)
  <2>1. /\ y.buf = e.buf /\ y.state = e.state /\ y.magic = 0 /\ y.got = e.got /\ y.serial = e.serial
        /\ y.gaps = e.gaps + 1
    BY Fields
  <2>2. y \in Receiver /\ Len(e.serial) \in Nat
    <3>1. /\ e.buf \in Seq(Byte) /\ e.state \in 0 .. 1 /\ e.got \in Seq(WireFrames) /\ e.serial \in Seq(Byte)
          /\ e.gaps + 1 \in Nat /\ 0 \in 0 .. 1
      BY ReceiverFields
    <3> QED
      BY <3>1, RcvType
  <2>3. Takes(Marked(e), "G", y)
    <3>1. /\ Marked(e).buf = e.buf /\ Marked(e).state = e.state /\ Marked(e).got = e.got /\ Marked(e).magic = 1
          /\ Marked(e).serial = e.serial /\ Marked(e).gaps = e.gaps
      BY Fields DEF Marked
    <3> QED
      BY <3>1 DEF Takes
  <2> HIDE DEF y
  <2>4. Fine(y, queued) /\ Reads(y, Len(y.serial)) /\ Len(e.serial) <= Len(y.serial)
    BY <1>3, <2>1, <2>2 DEF Fine, Reads
  <2>5. "G" \in Byte /\ chunk' \in Seq(Byte)
    <3>1. "G" \in Byte /\ "M" \in Byte
      BY DEF UsbSizes
    <3> QED
      BY <1>4, <1>7, <3>1
  <2>6. Along(onLine, chunk', queued, Now, y, 0)
    BY <1>3, <1>4, <1>7, <2>2, <2>3, <2>4, <2>5, AlongPair
  <2>7. FramesLeft(y, queued, usb_queue, usb_frame_ptr, "front")
    BY <1>3, <1>5, <2>1, FramesSame
  <2>8. GapsLeft(y.gaps, 2, refused)
    <3>1. e.gaps + 1 > 0
      BY ReceiverFields
    <3> QED
      BY <2>1, <3>1 DEF GapsLeft
  <2>9. TextLeft(Len(y.serial), serial_buf, dmesg_ptr, log, log_ptr, printed)
    BY <1>3, <2>1
  <2>10. 2 \in 0 .. 2
    OBVIOUS
  <2> QED
    BY <1>1, <1>2, <1>4, <1>7, <2>1, <2>5, <2>6, <2>7, <2>8, <2>9, <2>10, PullStep
<1> QED
  BY <1>6, <1>7 DEF Usb!PullGap, Usb!Put, Usb!M, Usb!GAP

LEMMA PullFrontStep ==
  ASSUME UsbSizes, UsbInv, Usb!PullFront
  PROVE  UsbInv'
<1>1. /\ pulling = "front" /\ usb_queue' = usb_queue /\ usb_frame_ptr' = usb_frame_ptr /\ usb_frame_gap' = usb_frame_gap
      /\ serial_buf' = serial_buf /\ dmesg_ptr' = dmesg_ptr /\ UNCHANGED Usb!quiet
  BY DEF Usb!PullFront
<1>2. usb_panic_mode = 0 /\ UsbTypes /\ UsbPlace
  BY <1>1, Pulls
<1>3. PICK e \in Receiver :
        /\ Along(onLine, chunk, queued, Now, e, 0) /\ e.magic = 0 /\ Fine(e, queued) /\ Reads(e, Len(e.serial))
        /\ FramesLeft(e, queued, usb_queue, usb_frame_ptr, pulling)
        /\ GapsLeft(e.gaps, usb_frame_gap, refused)
        /\ TextLeft(Len(e.serial), serial_buf, dmesg_ptr, log, log_ptr, printed)
  BY <1>1, Pulls
<1>4. /\ usb_queue \in Seq(WireFrames) /\ usb_frame_ptr \in Nat /\ usb_frame_gap \in 0 .. 2 /\ queued \in Seq(WireFrames)
      /\ serial_buf \in Seq(Byte) /\ chunk \in Seq(Byte) /\ dmesg_ptr \in 0 .. LOG /\ onLine \in Seq(Byte)
      /\ CHUNK \in Nat
  BY <1>2 DEF UsbTypes, UsbSizes
<1>5. CASE pulling' = "text" /\ chunk' = chunk /\ (usb_queue = <<>> \/ usb_frame_ptr = 0)
  <2>1. usb_frame_ptr = 0
    BY <1>3, <1>4, <1>5 DEF FramesLeft, InFrame
  <2>2. InFrame(usb_frame_ptr, pulling) <=> InFrame(usb_frame_ptr, "text")
    BY <1>1 DEF InFrame
  <2>3. FramesLeft(e, queued, usb_queue, usb_frame_ptr, "text")
    BY <1>3, <2>2, FramesSame
  <2> QED
    BY <1>1, <1>2, <1>3, <1>4, <1>5, <2>1, <2>3, PullStep
<1>6. CASE pulling' = "frame" /\ chunk' = chunk /\ usb_frame_ptr # 0
  <2>1. InFrame(usb_frame_ptr, pulling) <=> InFrame(usb_frame_ptr, "frame")
    BY <1>4, <1>6 DEF InFrame
  <2>2. FramesLeft(e, queued, usb_queue, usb_frame_ptr, "frame")
    BY <1>3, <2>1, FramesSame
  <2> QED
    BY <1>1, <1>2, <1>3, <1>4, <1>6, <2>2, PullStep
<1>7. CASE /\ pulling' = "frame" /\ chunk' = chunk \o <<"M", "S">> /\ usb_frame_ptr = 0
           /\ usb_queue # <<>> /\ ~ (CHUNK - Len(chunk) < 4)
  <2> DEFINE y == Rcv(<<>>, 1, 0, e.got, e.serial, e.gaps)
  <2>1. /\ y.buf = <<>> /\ y.state = 1 /\ y.magic = 0 /\ y.got = e.got /\ y.serial = e.serial /\ y.gaps = e.gaps
    BY Fields
  <2>2. y \in Receiver /\ Len(e.serial) \in Nat
    <3>1. /\ <<>> \in Seq(Byte) /\ 1 \in 0 .. 1 /\ e.got \in Seq(WireFrames) /\ e.serial \in Seq(Byte)
          /\ e.gaps \in Nat /\ 0 \in 0 .. 1
      BY ReceiverFields
    <3>2. y \in Receiver
      BY ONLY <3>1, RcvType
    <3> QED
      BY <3>1, <3>2
  <2>3. e.buf = <<>>
    BY <1>1, <1>3, <1>7 DEF FramesLeft, InFrame, Fine
  <2>4. Takes(Marked(e), "S", y)
    <3>1. /\ Marked(e).buf = e.buf /\ Marked(e).got = e.got /\ Marked(e).magic = 1
          /\ Marked(e).serial = e.serial /\ Marked(e).gaps = e.gaps
      BY Fields DEF Marked
    <3> QED
      BY <2>3, <3>1 DEF Takes
  <2> HIDE DEF y
  <2>5. Len(e.got) < Len(queued) /\ Head(usb_queue) = queued[Len(e.got) + 1] /\ Len(Head(usb_queue)) \in 1 .. RXMAX
    BY <1>3, <1>4, <1>7, NextFrame
  <2>6. Len(<<>>) = 0 /\ 0 <= Len(Head(usb_queue)) /\ 1 .. 0 = {}
    BY <2>5
  <2>7. Begins(<<>>, Head(usb_queue))
    BY <2>6 DEF Begins
  <2>8. Fine(y, queued) /\ Reads(y, Len(y.serial)) /\ Len(e.serial) <= Len(y.serial)
    BY <1>3, <2>1, <2>2, <2>5, <2>7 DEF Fine, Reads
  <2>9. "S" \in Byte /\ chunk' \in Seq(Byte) /\ Len(chunk') + 2 <= CHUNK
    <3>1. "S" \in Byte /\ "M" \in Byte
      BY DEF UsbSizes
    <3>2. chunk' \in Seq(Byte) /\ Len(chunk') = Len(chunk) + 2
      BY <1>4, <1>7, <3>1
    <3> QED
      BY <1>4, <1>7, <3>1, <3>2
  <2>10. Along(onLine, chunk', queued, Now, y, 0)
    BY <1>3, <1>4, <1>7, <2>2, <2>4, <2>8, <2>9, AlongPair
  <2>11. FramesLeft(y, queued, usb_queue, usb_frame_ptr, "frame")
    BY <1>3, <1>7, <2>1, <2>6 DEF FramesLeft, InFrame
  <2> QED
    BY <1>1, <1>2, <1>3, <1>4, <1>7, <2>1, <2>9, <2>10, <2>11, PullStep
<1> QED
  BY <1>5, <1>6, <1>7 DEF Usb!PullFront, Usb!Put, Usb!M, Usb!START, Usb!SPACE

\* The beginning of a frame, by one byte longer.
LEMMA BeginsOn ==
  ASSUME NEW b \in Seq(Byte), NEW f \in Seq(Byte), Begins(b, f), Len(b) < Len(f)
  PROVE  Begins(Append(b, f[Len(b) + 1]), f) /\ f[Len(b) + 1] \in Byte
<1>1. Len(b) \in Nat /\ Len(f) \in Nat /\ Len(b) + 1 \in 1 .. Len(f)
  OBVIOUS
<1>2. /\ Len(Append(b, f[Len(b) + 1])) = Len(b) + 1
      /\ \A j \in 1 .. Len(b) + 1 : Append(b, f[Len(b) + 1])[j] = IF j = Len(b) + 1 THEN f[Len(b) + 1] ELSE b[j]
  OBVIOUS
<1>3. \A j \in 1 .. Len(b) + 1 : j # Len(b) + 1 => j \in 1 .. Len(b)
  BY <1>1
<1> QED
  BY <1>1, <1>2, <1>3 DEF Begins

LEMMA PullByteStep ==
  ASSUME UsbSizes, UsbInv, Usb!PullByte
  PROVE  UsbInv'
<1> DEFINE f == Head(usb_queue)
           b == f[usb_frame_ptr + 1]
<1>1. /\ pulling = "frame" /\ usb_frame_ptr < Len(f) /\ usb_queue' = usb_queue /\ usb_frame_gap' = usb_frame_gap
      /\ serial_buf' = serial_buf /\ dmesg_ptr' = dmesg_ptr /\ UNCHANGED Usb!quiet
  BY DEF Usb!PullByte
<1>2. usb_panic_mode = 0 /\ UsbTypes /\ UsbPlace
  BY <1>1, Pulls
<1>3. PICK e \in Receiver :
        /\ Along(onLine, chunk, queued, Now, e, 0) /\ e.magic = 0 /\ Fine(e, queued) /\ Reads(e, Len(e.serial))
        /\ FramesLeft(e, queued, usb_queue, usb_frame_ptr, pulling)
        /\ GapsLeft(e.gaps, usb_frame_gap, refused)
        /\ TextLeft(Len(e.serial), serial_buf, dmesg_ptr, log, log_ptr, printed)
  BY <1>1, Pulls
<1>4. /\ usb_queue \in Seq(WireFrames) /\ usb_frame_ptr \in Nat /\ usb_frame_gap \in 0 .. 2 /\ queued \in Seq(WireFrames)
      /\ serial_buf \in Seq(Byte) /\ chunk \in Seq(Byte) /\ dmesg_ptr \in 0 .. LOG /\ onLine \in Seq(Byte)
      /\ CHUNK \in Nat /\ RXMAX \in Nat
  BY <1>2 DEF UsbTypes, UsbSizes
<1>5. e.state = 1 /\ usb_queue # <<>> /\ Len(e.buf) = usb_frame_ptr
  BY <1>1, <1>3 DEF FramesLeft, InFrame
<1>6. Len(e.got) < Len(queued) /\ f = queued[Len(e.got) + 1] /\ f \in Seq(Byte) /\ Len(f) \in 1 .. RXMAX
  BY <1>3, <1>4, <1>5, NextFrame
<1>7. Begins(e.buf, f)
  BY <1>3, <1>5, <1>6 DEF Fine
<1>8. /\ e.buf \in Seq(Byte) /\ e.got \in Seq(WireFrames) /\ e.serial \in Seq(Byte) /\ e.gaps \in Nat
      /\ Len(e.serial) \in Nat
  BY ReceiverFields
<1>9. b \in Byte /\ Begins(Append(e.buf, b), f)
  BY <1>1, <1>5, <1>6, <1>7, <1>8, BeginsOn
<1>10. Usb!Escaped(b) \in Seq(Byte) /\ Len(Usb!Escaped(b)) \in 1 .. 2
  <2>1. "M" \in Byte /\ "L" \in Byte
    BY DEF UsbSizes
  <2> HIDE DEF b
  <2> QED
    BY <1>9, <2>1 DEF Usb!Escaped, Usb!M, Usb!LITERAL
<1>11. CASE CHUNK - Len(chunk) >= Len(Usb!Escaped(b))
  <2>1. chunk' = chunk \o Usb!Escaped(b) /\ usb_frame_ptr' = usb_frame_ptr + 1 /\ pulling' = pulling
    BY <1>11 DEF Usb!PullByte, Usb!Put, Usb!SPACE
  <2> HIDE DEF b, f
  <2> DEFINE y == Rcv(Append(e.buf, b), 1, 0, e.got, e.serial, e.gaps)
  <2>2. /\ y.buf = Append(e.buf, b) /\ y.state = 1 /\ y.magic = 0 /\ y.got = e.got /\ y.serial = e.serial
        /\ y.gaps = e.gaps
    BY DEF Rcv
  <2>3. y \in Receiver
    <3>1. Append(e.buf, b) \in Seq(Byte) /\ 1 \in 0 .. 1 /\ 0 \in 0 .. 1
      BY <1>8, <1>9
    <3> QED
      BY <1>8, <3>1, RcvType
  <2>4. Given(e, b, y)
    BY <1>1, <1>4, <1>5, <1>6 DEF Given
  <2> HIDE DEF y
  <2>5. Fine(y, queued) /\ Reads(y, Len(y.serial)) /\ Len(e.serial) <= Len(y.serial)
    BY <1>3, <1>6, <1>8, <1>9, <2>2 DEF Fine, Reads
  <2>6. Along(onLine, chunk', queued, Now, y, 0)
    BY <1>3, <1>4, <1>9, <2>1, <2>3, <2>4, <2>5, AlongGiven
  <2>7. usb_frame_ptr' \in Nat /\ usb_frame_ptr' # 0 /\ usb_frame_ptr' > 0 /\ chunk' \in Seq(Byte)
        /\ Len(Append(e.buf, b)) = usb_frame_ptr'
    BY <1>4, <1>5, <1>8, <1>10, <2>1
  <2>8. FramesLeft(y, queued, usb_queue, usb_frame_ptr', "frame")
    BY <1>1, <1>3, <1>5, <2>2, <2>7 DEF FramesLeft, InFrame
  <2> QED
    BY <1>1, <1>2, <1>3, <1>4, <2>1, <2>2, <2>6, <2>7, <2>8, PullStep
<1>12. CASE ~ (CHUNK - Len(chunk) >= Len(Usb!Escaped(b)))
  <2>1. /\ pulling' = (IF CHUNK - Len(chunk) < 1 THEN "return" ELSE "text")
        /\ chunk' = chunk /\ usb_frame_ptr' = usb_frame_ptr
    BY <1>12 DEF Usb!PullByte, Usb!SPACE
  <2> HIDE DEF b, f
  <2>2. CHUNK - Len(chunk) < 2 /\ usb_frame_ptr # 0
    <3> DEFINE n == Len(chunk)
               k == Len(Usb!Escaped(b))
    <3>1. usb_frame_ptr = 0 => n + 2 <= CHUNK
      BY <1>1, <1>2 DEF UsbPlace
    <3>2. n \in Nat /\ k \in 1 .. 2 /\ ~ (CHUNK - n >= k)
      BY <1>4, <1>10, <1>12
    <3> HIDE DEF n, k
    <3>3. CHUNK - n < 2 /\ usb_frame_ptr # 0
      BY <1>4, <3>1, <3>2
    <3> QED
      BY <3>3 DEF n
  <2>3. InFrame(usb_frame_ptr, pulling) <=> InFrame(usb_frame_ptr, pulling')
    BY <1>4, <2>2 DEF InFrame
  <2>4. FramesLeft(e, queued, usb_queue, usb_frame_ptr, pulling')
    BY <1>3, <2>3, FramesSame
  <2>5. pulling' \in {"return", "text"}
    BY <2>1
  <2> QED
    BY <1>1, <1>2, <1>3, <1>4, <2>1, <2>2, <2>4, <2>5, PullStep
<1> QED
  BY <1>11, <1>12


\* The whole of it.
LEMMA BeginsWhole ==
  ASSUME NEW b \in Seq(Byte), NEW f \in Seq(Byte), Begins(b, f), Len(b) = Len(f)
  PROVE  b = f
  BY DEF Begins

LEMMA PullEndStep ==
  ASSUME UsbSizes, UsbInv, Usb!PullEnd
  PROVE  UsbInv'
<1> DEFINE f == Head(usb_queue)
<1>1. /\ pulling = "frame" /\ usb_frame_ptr = Len(f) /\ usb_frame_gap' = usb_frame_gap
      /\ serial_buf' = serial_buf /\ dmesg_ptr' = dmesg_ptr /\ UNCHANGED Usb!quiet
  BY DEF Usb!PullEnd
<1>2. usb_panic_mode = 0 /\ UsbTypes /\ UsbPlace
  BY <1>1, Pulls
<1>3. PICK e \in Receiver :
        /\ Along(onLine, chunk, queued, Now, e, 0) /\ e.magic = 0 /\ Fine(e, queued) /\ Reads(e, Len(e.serial))
        /\ FramesLeft(e, queued, usb_queue, usb_frame_ptr, pulling)
        /\ GapsLeft(e.gaps, usb_frame_gap, refused)
        /\ TextLeft(Len(e.serial), serial_buf, dmesg_ptr, log, log_ptr, printed)
  BY <1>1, Pulls
<1>4. /\ usb_queue \in Seq(WireFrames) /\ usb_frame_ptr \in Nat /\ usb_frame_gap \in 0 .. 2 /\ queued \in Seq(WireFrames)
      /\ serial_buf \in Seq(Byte) /\ chunk \in Seq(Byte) /\ dmesg_ptr \in 0 .. LOG /\ onLine \in Seq(Byte)
      /\ CHUNK \in Nat /\ RXMAX \in Nat
  BY <1>2 DEF UsbTypes, UsbSizes
<1>5. e.state = 1 /\ usb_queue # <<>> /\ Len(e.buf) = usb_frame_ptr
  BY <1>1, <1>3 DEF FramesLeft, InFrame
<1>6. Len(e.got) < Len(queued) /\ f = queued[Len(e.got) + 1] /\ f \in Seq(Byte) /\ Len(f) \in 1 .. RXMAX
      /\ f \in WireFrames
  BY <1>3, <1>4, <1>5, NextFrame
<1>7. /\ e.buf \in Seq(Byte) /\ e.got \in Seq(WireFrames) /\ e.serial \in Seq(Byte) /\ e.gaps \in Nat
      /\ Len(e.serial) \in Nat
  BY ReceiverFields
<1>8. e.buf = f
  <2>1. Begins(e.buf, f)
    BY <1>3, <1>5, <1>6 DEF Fine
  <2> HIDE DEF f
  <2> QED
    BY <1>1, <1>5, <1>6, <1>7, <2>1, BeginsWhole
<1>9. CASE CHUNK - Len(chunk) >= 2
  <2>1. chunk' = chunk \o <<"M", "E">> /\ usb_frame_ptr' = 0 /\ usb_queue' = Tail(usb_queue) /\ pulling' = "gap"
    BY <1>9 DEF Usb!PullEnd, Usb!Put, Usb!SPACE, Usb!M, Usb!END
  <2> DEFINE x == Marked(e)
             y == Rcv(<<>>, 0, 0, IF x.buf \in WireFrames THEN Append(x.got, x.buf) ELSE x.got, x.serial, x.gaps)
  <2>2. /\ x.buf = e.buf /\ x.state = e.state /\ x.got = e.got /\ x.magic = 1
        /\ x.serial = e.serial /\ x.gaps = e.gaps
    BY Fields DEF Marked
  <2>3. x \in Receiver
    <3>1. 1 \in 0 .. 1 /\ e.state \in 0 .. 1
      BY <1>5
    <3> QED
      BY <1>7, <3>1, RcvType DEF Marked
  <2> HIDE DEF x
  <2>4. Ended(x, y)
    BY <1>5, <2>2 DEF Ended
  <2> HIDE DEF y
  <2>5. Takes(x, "E", y)
    BY <2>2, <2>4 DEF Takes
  <2>6. Fine(x, queued)
    BY <1>3, <2>2 DEF Fine
  <2>7. /\ y \in Receiver /\ Fine(y, queued) /\ y.state = 0 /\ y.magic = 0 /\ y.serial = e.serial /\ y.gaps = e.gaps
        /\ y.got = Append(e.got, f)
    <3>1. x.state = 1 /\ x.buf = queued[Len(x.got) + 1]
      BY <1>5, <1>6, <1>8, <2>2
    <3>2. /\ y \in Receiver /\ Fine(y, queued) /\ y.state = 0 /\ y.magic = 0 /\ y.serial = x.serial
          /\ y.gaps = x.gaps /\ y.got = Append(x.got, x.buf)
      BY <1>4, <2>3, <2>4, <2>6, <3>1, EndedFine
    <3> QED
      BY <1>8, <2>2, <3>2
  <2>8. Reads(y, Len(y.serial)) /\ Len(e.serial) <= Len(y.serial)
    BY <1>3, <1>7, <2>7 DEF Reads
  <2>9. "E" \in Byte /\ chunk' \in Seq(Byte)
    <3>1. "E" \in Byte /\ "M" \in Byte
      BY DEF UsbSizes
    <3> QED
      BY <1>4, <2>1, <3>1
  <2>10. Along(onLine, chunk', queued, Now, y, 0)
    BY <1>3, <1>4, <2>1, <2>5, <2>7, <2>8, <2>9, AlongPair DEF x
  <2>11. FramesLeft(y, queued, Tail(usb_queue), 0, "gap") /\ Tail(usb_queue) \in Seq(WireFrames)
    <3> DEFINE n == Len(e.got)
               uq == usb_queue
    <3>1. /\ Tail(uq) \in Seq(WireFrames) /\ Len(Tail(uq)) = Len(uq) - 1 /\ Len(uq) \in Nat /\ n \in Nat
          /\ \A j \in 1 .. Len(uq) - 1 : Tail(uq)[j] = uq[j + 1]
      BY <1>4, <1>5, <1>7
    <3>2. Len(queued) = n + Len(uq) /\ \A j \in 1 .. Len(uq) : queued[n + j] = uq[j]
      BY <1>3 DEF FramesLeft
    <3>3. Len(y.got) = n + 1
      <4> HIDE DEF f
      <4> QED
        BY <1>6, <1>7, <2>7
    <3> HIDE DEF n
    <3>4. \A j \in 1 .. Len(uq) - 1 : j + 1 \in 1 .. Len(uq) /\ (n + 1) + j = n + (j + 1)
      BY <3>1
    <3>5. \A j \in 1 .. Len(Tail(uq)) : queued[(n + 1) + j] = Tail(uq)[j]
      BY <3>1, <3>2, <3>4
    <3>6. Len(queued) = (n + 1) + Len(Tail(uq))
      BY <3>1, <3>2
    <3>7. ~ InFrame(0, "gap")
      BY DEF InFrame
    <3> QED
      BY <2>7, <3>1, <3>3, <3>5, <3>6, <3>7 DEF FramesLeft
  <2>12. GapsLeft(y.gaps, usb_frame_gap, refused) /\ TextLeft(Len(y.serial), serial_buf, dmesg_ptr, log, log_ptr, printed)
    BY <1>3, <2>7
  <2>13. 0 \in Nat
    OBVIOUS
  <2> QED
    BY <1>1, <1>2, <1>4, <2>1, <2>7, <2>9, <2>10, <2>11, <2>12, <2>13, PullStep
<1>10. CASE ~ (CHUNK - Len(chunk) >= 2)
  <2>1. pulling' = "text" /\ chunk' = chunk /\ usb_frame_ptr' = usb_frame_ptr /\ usb_queue' = usb_queue
    BY <1>10 DEF Usb!PullEnd, Usb!SPACE
  <2>2. usb_frame_ptr > 0
    BY <1>1, <1>6
  <2>3. InFrame(usb_frame_ptr, pulling) <=> InFrame(usb_frame_ptr, "text")
    BY <2>2 DEF InFrame
  <2>4. FramesLeft(e, queued, usb_queue, usb_frame_ptr, "text")
    BY <1>3, <2>3, FramesSame
  <2>5. CHUNK - Len(chunk) < 2
    BY <1>4, <1>10
  <2> QED
    BY <1>1, <1>2, <1>3, <1>4, <2>1, <2>4, <2>5, PullStep
<1> QED
  BY <1>9, <1>10

LEMMA PullTextStep ==
  ASSUME UsbSizes, UsbInv, Usb!PullText
  PROVE  UsbInv'
<1>1. /\ pulling = "text" /\ usb_queue' = usb_queue /\ usb_frame_ptr' = usb_frame_ptr /\ usb_frame_gap' = usb_frame_gap
      /\ UNCHANGED Usb!quiet
  BY DEF Usb!PullText
<1>2. usb_panic_mode = 0 /\ UsbTypes /\ UsbPlace
  BY <1>1, Pulls
<1>3. PICK e \in Receiver :
        /\ Along(onLine, chunk, queued, Now, e, 0) /\ e.magic = 0 /\ Fine(e, queued) /\ Reads(e, Len(e.serial))
        /\ FramesLeft(e, queued, usb_queue, usb_frame_ptr, pulling)
        /\ GapsLeft(e.gaps, usb_frame_gap, refused)
        /\ TextLeft(Len(e.serial), serial_buf, dmesg_ptr, log, log_ptr, printed)
  BY <1>1, Pulls
<1>4. /\ usb_queue \in Seq(WireFrames) /\ usb_frame_ptr \in Nat /\ usb_frame_gap \in 0 .. 2 /\ queued \in Seq(WireFrames)
      /\ serial_buf \in Seq(Byte) /\ chunk \in Seq(Byte) /\ dmesg_ptr \in 0 .. LOG /\ onLine \in Seq(Byte)
      /\ CHUNK \in Nat /\ printed \in 0 .. Len(Text) /\ log \in [0 .. LOG - 1 -> Byte] /\ log_ptr \in 0 .. LOG - 1
      /\ Text \in Seq(Byte)
  BY <1>2 DEF UsbTypes, UsbSizes
<1>5. /\ e.buf \in Seq(Byte) /\ e.got \in Seq(WireFrames) /\ e.serial \in Seq(Byte) /\ e.gaps \in Nat
      /\ Len(e.serial) \in Nat /\ printed \in Nat
  BY <1>4, ReceiverFields
<1>6. InFrame(usb_frame_ptr, "text") <=> InFrame(usb_frame_ptr, "return")
  BY DEF InFrame
<1>7. FramesLeft(e, queued, usb_queue, usb_frame_ptr, "return") /\ FramesLeft(e, queued, usb_queue, usb_frame_ptr, "text")
  BY <1>1, <1>3, <1>6, FramesSame
<1>8. CASE ~ (CHUNK - Len(chunk) >= 2)
  <2>1. pulling' = "return" /\ serial_buf' = serial_buf /\ chunk' = chunk /\ dmesg_ptr' = dmesg_ptr
    BY <1>8 DEF Usb!PullText, Usb!SPACE
  <2> QED
    BY <1>1, <1>2, <1>3, <1>4, <1>7, <2>1, PullStep
<1>9. CASE CHUNK - Len(chunk) >= 2
  <2> DEFINE r == IF serial_buf = <<>> THEN Usb!jd_dmesg_read(SERIAL, dmesg_ptr)
                  ELSE [bytes |-> serial_buf, state |-> dmesg_ptr]
  <2>1. /\ dmesg_ptr' = r.state
        /\ IF r.bytes = <<>> THEN pulling' = "return" /\ serial_buf' = serial_buf /\ chunk' = chunk
           ELSE /\ chunk' = chunk \o Usb!Escaped(Head(r.bytes)) /\ serial_buf' = Tail(r.bytes) /\ pulling' = pulling
    BY <1>2, <1>9 DEF Usb!PullText, Usb!SPACE, Usb!Put
  <2>2. r.bytes \in Seq(Byte) /\ r.state \in 0 .. LOG /\ TextLeft(Len(e.serial), r.bytes, r.state, log, log_ptr, printed)
    <3>1. CASE serial_buf = <<>>
      <4>1. TextLeft(Len(e.serial), <<>>, dmesg_ptr, log, log_ptr, printed)
        BY <1>3, <3>1
      <4>2. r = Usb!jd_dmesg_read(SERIAL, dmesg_ptr)
        BY <3>1
      <4> HIDE DEF r
      <4> QED
        BY <1>4, <1>5, <4>1, <4>2, TextRead
    <3>2. CASE serial_buf # <<>>
      BY <1>3, <1>4, <3>2
    <3> QED
      BY <3>1, <3>2
  <2>3. r.bytes = <<>> => serial_buf = r.bytes
    OBVIOUS
  <2> HIDE DEF r
  <2>4. CASE r.bytes = <<>>
    BY <1>1, <1>2, <1>3, <1>4, <1>7, <2>1, <2>2, <2>3, <2>4, PullStep
  <2>5. CASE r.bytes # <<>>
    <3> DEFINE c == Head(r.bytes)
               n == Len(e.serial)
               y == Rcv(e.buf, 0, 0, e.got, Append(e.serial, c), e.gaps)
    <3>1. /\ TextLeft(n + 1, Tail(r.bytes), r.state, log, log_ptr, printed) /\ Tail(r.bytes) \in Seq(Byte)
          /\ n + 1 \in 1 .. Len(Text) /\ c = Text[n + 1] /\ c \in Byte
      BY <1>4, <1>5, <2>2, <2>5, TextTaken
    <3>2. usb_frame_ptr = 0
      BY <1>1, <1>2, <1>4, <1>9 DEF UsbPlace
    <3>3. e.state = 0
      BY <1>1, <1>3, <3>2 DEF FramesLeft, InFrame
    <3> HIDE DEF c
    <3>4. /\ y.buf = e.buf /\ y.state = 0 /\ y.magic = 0 /\ y.got = e.got /\ y.serial = Append(e.serial, c)
          /\ y.gaps = e.gaps
      BY DEF Rcv
    <3>5. Append(e.serial, c) \in Seq(Byte) /\ Len(Append(e.serial, c)) = n + 1
      BY <1>5, <3>1
    <3>6. y \in Receiver
      <4>1. 0 \in 0 .. 1
        OBVIOUS
      <4> QED
        BY <1>5, <3>5, <4>1, RcvType
    <3>7. Given(e, c, y)
      BY <3>3 DEF Given
    <3> HIDE DEF y
    <3>8. Fine(y, queued)
      BY <1>3, <3>3, <3>4 DEF Fine
    <3>9. Reads(y, Len(y.serial)) /\ Len(e.serial) <= Len(y.serial)
      <4>1. Begins(e.serial, Text) /\ n < Len(Text) /\ Len(Text) \in Nat
        BY <1>3, <1>4, <1>5, <3>1 DEF Reads
      <4>2. Begins(Append(e.serial, c), Text)
        BY <1>4, <1>5, <3>1, <4>1, BeginsOn
      <4> QED
        BY <1>5, <3>4, <3>5, <4>2 DEF Reads
    <3>10. Along(onLine, chunk \o Usb!Escaped(c), queued, Now, y, 0)
      BY <1>3, <1>4, <3>1, <3>6, <3>7, <3>8, <3>9, AlongGiven
    <3>11. chunk' = chunk \o Usb!Escaped(c) /\ serial_buf' = Tail(r.bytes) /\ pulling' = "text" /\ dmesg_ptr' = r.state
      BY <1>1, <2>1, <2>5 DEF c
    <3>12. chunk' \in Seq(Byte)
      <4>1. "M" \in Byte /\ "L" \in Byte
        BY DEF UsbSizes
      <4> QED
        BY <1>4, <3>1, <3>11, <4>1 DEF Usb!Escaped, Usb!M, Usb!LITERAL
    <3>13. FramesLeft(y, queued, usb_queue, usb_frame_ptr, "text")
      BY <1>7, <3>3, <3>4, FramesSame
    <3>14. TextLeft(Len(y.serial), serial_buf', dmesg_ptr', log, log_ptr, printed)
      BY <3>1, <3>4, <3>5, <3>11
    <3>15. GapsLeft(y.gaps, usb_frame_gap, refused)
      BY <1>3, <3>4
    <3> QED
      BY <1>1, <1>2, <1>4, <2>2, <3>1, <3>2, <3>4, <3>10, <3>11, <3>12, <3>13, <3>14, <3>15, PullStep
  <2> QED
    BY <2>4, <2>5
<1> QED
  BY <1>8, <1>9


LEMMA PullReturnStep ==
  ASSUME UsbSizes, UsbInv, Usb!PullReturn
  PROVE  UsbInv'
<1>1. /\ pulling = "return" /\ onLine' = chunk /\ chunk' = <<>> /\ pulling' = "no"
      /\ usb_queue' = usb_queue /\ usb_frame_ptr' = usb_frame_ptr /\ usb_frame_gap' = usb_frame_gap
      /\ usb_panic_mode' = usb_panic_mode /\ usb_fwd_en' = usb_fwd_en /\ serial_buf' = serial_buf
      /\ dmesg_ptr' = dmesg_ptr /\ UNCHANGED Usb!rx /\ UNCHANGED Usb!console /\ UNCHANGED Usb!history
  BY DEF Usb!PullReturn
<1>2. /\ log' = log /\ log_ptr' = log_ptr /\ printed' = printed /\ usb_rx_state' = usb_rx_state
      /\ usb_rx_was_magic' = usb_rx_was_magic /\ Now' = Now /\ queued' = queued /\ refused' = refused /\ missed' = missed
  BY <1>1, SameNow DEF Usb!console, Usb!rx, Usb!history
<1>3. usb_panic_mode = 0 /\ UsbTypes /\ UsbPlace /\ onLine = <<>> /\ chunk \in Seq(Byte)
  BY <1>1, Pulls DEF UsbTypes
<1>4. PICK e \in Receiver :
        /\ Along(onLine, chunk, queued, Now, e, 0) /\ e.magic = 0
        /\ FramesLeft(e, queued, usb_queue, usb_frame_ptr, pulling)
        /\ GapsLeft(e.gaps, usb_frame_gap, refused)
        /\ TextLeft(Len(e.serial), serial_buf, dmesg_ptr, log, log_ptr, printed)
  BY <1>1, Pulls
<1>5. Along(chunk, <<>>, queued, Now, e, 0)
  BY <1>3, <1>4, AlongReturn
<1>6. InFrame(usb_frame_ptr, pulling) <=> InFrame(usb_frame_ptr, "no")
  BY <1>1 DEF InFrame
<1>7. FramesLeft(e, queued, usb_queue, usb_frame_ptr, "no")
  BY <1>4, <1>6, FramesSame
<1>8. Sent(e)'
  BY <1>1, <1>2, <1>4, <1>7 DEF Sent
<1>9. UsbTypes'
  <2>1. <<>> \in Seq(Byte)
    OBVIOUS
  <2> QED
    BY <1>1, <1>2, <1>3, <2>1 DEF UsbTypes
<1>10. UsbPlace'
  BY <1>1, <1>3 DEF UsbPlace
<1>11. UsbWay'
  BY <1>1, <1>2, <1>3, <1>5, <1>8 DEF UsbWay
<1> QED
  BY <1>9, <1>10, <1>11 DEF UsbInv

\* The receiver takes the text of a panic.
LEMMA PanicTaken ==
  ASSUME UsbSizes, NEW q \in Seq(WireFrames), NEW a, NEW e, Along(<<>>, <<>>, q, a, e, 1)
  PROVE  \E z : Along(PanicText, <<>>, q, a, z, 1)
<1>1. <<>> \in Seq(Byte) /\ "M" \in Byte /\ "E" \in Byte /\ "p" \in Byte
  BY DEF UsbSizes
<1>2. e \in Receiver /\ Fine(e, q) /\ e.magic = 0
  BY <1>1, AlongTypes
<1>3. /\ e.buf \in Seq(Byte) /\ e.state \in 0 .. 1 /\ e.got \in Seq(WireFrames) /\ e.serial \in Seq(Byte) /\ e.gaps \in Nat
  BY <1>2, ReceiverFields
<1> DEFINE x == Marked(e)
<1>4. /\ x.buf = e.buf /\ x.state = e.state /\ x.got = e.got /\ x.magic = 1
  BY Fields DEF Marked
<1>5. x \in Receiver
  <2>1. 1 \in 0 .. 1
    OBVIOUS
  <2> QED
    BY <1>3, <2>1, RcvType DEF Marked
<1> HIDE DEF x
<1>6. Fine(x, q)
  BY <1>2, <1>4 DEF Fine
<1>7. PICK y : Ended(x, y)
  BY DEF Ended
<1>8. y \in Receiver /\ Fine(y, q) /\ y.state = 0 /\ y.magic = 0
  BY <1>5, <1>6, <1>7, EndedFine
<1>9. Takes(Marked(e), "E", y)
  BY <1>4, <1>7 DEF Takes, x
<1>10. Along(<<>>, <<>> \o <<"M", "E">>, q, a, y, 1)
  <2>1. 1 = 0 => Reads(y, Len(y.serial)) /\ Len(e.serial) <= Len(y.serial)
    OBVIOUS
  <2> QED
    BY <1>1, <1>2, <1>8, <1>9, <2>1, AlongPair
<1> DEFINE z == Rcv(y.buf, 0, 0, y.got, Append(y.serial, "p"), y.gaps)
           d == <<"M", "E">>
<1>11. /\ y.buf \in Seq(Byte) /\ y.got \in Seq(WireFrames) /\ y.serial \in Seq(Byte) /\ y.gaps \in Nat
  BY <1>8, ReceiverFields
<1>12. /\ z.buf = y.buf /\ z.state = 0 /\ z.magic = 0 /\ z.got = y.got
  BY DEF Rcv
<1>13. z \in Receiver
  <2>1. Append(y.serial, "p") \in Seq(Byte) /\ 0 \in 0 .. 1
    BY <1>1, <1>11
  <2> QED
    BY <1>11, <2>1, RcvType
<1>14. Takes(y, "p", z)
  BY <1>8 DEF Takes, Given
<1> HIDE DEF z
<1>15. Fine(z, q)
  BY <1>8, <1>12 DEF Fine
<1>16. d \in Seq(Byte) /\ <<>> \o d = d /\ d \o <<"p">> = PanicText /\ PanicText \in Seq(Byte)
  <2>1. d \in Seq(Byte) /\ PanicText \in Seq(Byte)
    BY <1>1 DEF PanicText
  <2>2. <<>> \o d = d
    BY <1>1
  <2>3. d \o <<"p">> = PanicText
    <3> DEFINE w == d \o <<"p">>
    <3>1. w \in Seq(Byte) /\ Len(w) = 3 /\ w[1] = "M" /\ w[2] = "E" /\ w[3] = "p"
      BY <1>1
    <3>2. Len(PanicText) = 3 /\ PanicText[1] = "M" /\ PanicText[2] = "E" /\ PanicText[3] = "p"
      BY DEF PanicText
    <3>3. \A j \in 1 .. 3 : j = 1 \/ j = 2 \/ j = 3
      OBVIOUS
    <3> HIDE DEF w
    <3>4. Begins(w, PanicText)
      BY <3>1, <3>2, <3>3 DEF Begins
    <3>5. w = PanicText
      BY <2>1, <3>1, <3>2, <3>4, BeginsWhole
    <3> QED
      BY <3>5 DEF w
  <2> QED
    BY <2>1, <2>2, <2>3
<1>17. Along(<<>>, d, q, a, y, 1)
  BY <1>10, <1>16
<1> HIDE DEF d
<1>18. Along(<<>>, d \o <<"p">>, q, a, z, 1)
  <2>1. 1 = 0 => Reads(z, Len(z.serial)) /\ Len(y.serial) <= Len(z.serial)
    OBVIOUS
  <2> QED
    BY <1>1, <1>13, <1>14, <1>15, <1>16, <1>17, <2>1, AlongByte
<1> QED
  BY <1>12, <1>16, <1>18, AlongReturn

LEMMA PullBegins ==
  ASSUME UsbSizes, UsbInv, Usb!jd_usb_pull
  PROVE  UsbInv'
<1>1. /\ pulling = "no" /\ onLine = <<>> /\ usb_queue' = usb_queue /\ usb_frame_ptr' = usb_frame_ptr
      /\ usb_frame_gap' = usb_frame_gap /\ usb_panic_mode' = usb_panic_mode /\ usb_fwd_en' = usb_fwd_en
      /\ dmesg_ptr' = dmesg_ptr /\ UNCHANGED Usb!rx /\ UNCHANGED Usb!console /\ UNCHANGED Usb!history
  BY DEF Usb!jd_usb_pull
<1>2. /\ log' = log /\ log_ptr' = log_ptr /\ printed' = printed /\ usb_rx_state' = usb_rx_state
      /\ usb_rx_was_magic' = usb_rx_was_magic /\ Now' = Now /\ queued' = queued /\ refused' = refused /\ missed' = missed
  BY <1>1, SameNow DEF Usb!console, Usb!rx, Usb!history
<1>3. UsbTypes /\ UsbPlace /\ chunk = <<>> /\ usb_panic_mode \in 0 .. 2
  BY <1>1 DEF UsbInv, UsbPlace, UsbTypes
<1>4. PICK e : Along(<<>>, <<>>, queued, Now, e, usb_panic_mode) /\ (usb_panic_mode = 0 => Sent(e))
  BY <1>1, <1>3 DEF UsbInv, UsbWay
<1>5. CASE usb_panic_mode = 0
  <2>1. pulling' = "gap" /\ chunk' = <<>> /\ serial_buf' = serial_buf /\ onLine' = onLine
    BY <1>5 DEF Usb!jd_usb_pull
  <2>2. InFrame(usb_frame_ptr, pulling) <=> InFrame(usb_frame_ptr, "gap")
    BY <1>1 DEF InFrame
  <2>3. FramesLeft(e, queued, usb_queue, usb_frame_ptr, "gap")
    BY <1>4, <1>5, <2>2, FramesSame DEF Sent
  <2>4. Sent(e)'
    BY <1>1, <1>2, <1>4, <1>5, <2>1, <2>3 DEF Sent
  <2>5. UsbTypes'
    BY <1>1, <1>2, <1>3, <2>1 DEF UsbTypes
  <2>6. UsbPlace'
    BY <1>1, <1>3, <1>5, <2>1 DEF UsbPlace
  <2>7. UsbWay'
    BY <1>1, <1>2, <1>4, <1>5, <2>1, <2>4 DEF UsbWay
  <2> QED
    BY <2>5, <2>6, <2>7 DEF UsbInv
<1>6. CASE usb_panic_mode # 0
  <2>1. /\ usb_panic_mode = 1 /\ serial_buf # <<>> /\ onLine' = serial_buf /\ serial_buf' = <<>>
        /\ chunk' = chunk /\ pulling' = pulling
    BY <1>6 DEF Usb!jd_usb_pull
  <2>2. serial_buf = PanicText
    BY <1>3, <1>6, <2>1 DEF UsbPlace
  <2>3. queued \in Seq(WireFrames)
    BY <1>3 DEF UsbTypes
  <2>4. PICK z : Along(PanicText, <<>>, queued, Now, z, 1)
    BY <1>4, <2>1, <2>3, PanicTaken
  <2>5. UsbTypes'
    <3>1. <<>> \in Seq(Byte)
      OBVIOUS
    <3> QED
      BY <1>1, <1>2, <1>3, <2>1, <3>1 DEF UsbTypes
  <2>6. UsbPlace'
    BY <1>1, <1>3, <2>1 DEF UsbPlace
  <2>7. UsbWay'
    BY <1>1, <1>2, <1>3, <2>1, <2>2, <2>4 DEF UsbWay
  <2> QED
    BY <2>5, <2>6, <2>7 DEF UsbInv
<1> QED
  BY <1>5, <1>6

LEMMA WriteStep ==
  ASSUME UsbSizes, UsbInv, NEW len \in 1 .. 2, Usb!jd_dmesg_write(len)
  PROVE  UsbInv'
<1>1. /\ UNCHANGED Usb!tx /\ usb_panic_mode' = usb_panic_mode /\ usb_fwd_en' = usb_fwd_en /\ onLine' = onLine
      /\ UNCHANGED Usb!rx /\ UNCHANGED Usb!history
  BY DEF Usb!jd_dmesg_write
<1>2. /\ usb_queue' = usb_queue /\ usb_frame_ptr' = usb_frame_ptr /\ usb_frame_gap' = usb_frame_gap
      /\ serial_buf' = serial_buf /\ chunk' = chunk /\ pulling' = pulling /\ dmesg_ptr' = dmesg_ptr
      /\ usb_rx_state' = usb_rx_state /\ usb_rx_was_magic' = usb_rx_was_magic /\ Now' = Now
      /\ queued' = queued /\ refused' = refused /\ missed' = missed
  BY <1>1, SameNow DEF Usb!tx, Usb!rx, Usb!history
<1>3. UsbPlace'
  BY <1>1, <1>2 DEF UsbInv, UsbPlace
<1>4. PICK e : Along(onLine, chunk, queued, Now, e, usb_panic_mode) /\ (usb_panic_mode = 0 => Sent(e))
  BY DEF UsbInv, UsbWay
<1>5. onLine \in Seq(Byte) /\ chunk \in Seq(Byte) /\ UsbTypes
  BY DEF UsbInv, UsbTypes
<1>6. e \in Receiver /\ Now \in Receiver
  BY <1>4, <1>5, AlongTypes
<1>7. usb_panic_mode = 0 => Reads(Now, Len(e.serial))
  BY <1>4, <1>5, AlongTypes
<1>8. CASE usb_panic_mode = 0
  <2>1. Now.serial = serial
    BY DEF Now, Rcv
  <2>2. Len(serial) \in Nat /\ Len(serial) <= Len(e.serial) /\ Len(e.serial) \in Nat
    BY <1>6, <1>7, <1>8, <2>1, ReceiverFields DEF Reads
  <2>3. TextLeft(Len(e.serial), serial_buf, dmesg_ptr, log, log_ptr, printed)
    BY <1>4, <1>8 DEF Sent
  <2>4. /\ TextLeft(Len(e.serial), serial_buf, dmesg_ptr, log', log_ptr', printed')
        /\ log' \in [0 .. LOG - 1 -> Byte] /\ log_ptr' \in 0 .. LOG - 1 /\ printed' \in 0 .. Len(Text)
    BY <1>5, <1>8, <2>2, <2>3, TextWritten
  <2>5. Sent(e)'
    BY <1>2, <1>4, <1>8, <2>4 DEF Sent
  <2>6. UsbTypes'
    BY <1>1, <1>2, <1>5, <2>4 DEF UsbTypes
  <2>7. UsbWay'
    BY <1>1, <1>2, <1>4, <2>5 DEF UsbWay
  <2> QED
    BY <1>3, <2>6, <2>7 DEF UsbInv
<1>9. CASE usb_panic_mode # 0
  <2>1. printed' \in 0 .. Len(Text)
    <3>1. printed + len <= Len(Text) /\ printed' = printed + len
      BY DEF Usb!jd_dmesg_write
    <3>2. printed \in 0 .. Len(Text)
      BY <1>5 DEF UsbTypes
    <3> QED
      BY <3>1, <3>2
  <2>2. UsbTypes'
    BY <1>1, <1>2, <1>5, <1>9, <2>1 DEF UsbTypes
  <2>3. UsbWay'
    BY <1>1, <1>2, <1>4, <1>9 DEF UsbWay
  <2> QED
    BY <1>3, <2>2, <2>3 DEF UsbInv
<1> QED
  BY <1>8, <1>9


LEMMA PanicStep ==
  ASSUME UsbSizes, UsbInv, Usb!jd_usb_panic
  PROVE  UsbInv'
<1>1. /\ usb_panic_mode' = 1 /\ usb_fwd_en' = FALSE /\ serial_buf' = PanicText /\ pulling' = "no" /\ chunk' = <<>>
      /\ usb_queue' = usb_queue /\ usb_frame_ptr' = usb_frame_ptr /\ usb_frame_gap' = usb_frame_gap
      /\ dmesg_ptr' = dmesg_ptr /\ onLine' = onLine /\ UNCHANGED Usb!rx /\ UNCHANGED Usb!console
      /\ UNCHANGED Usb!history
  BY DEF Usb!jd_usb_panic, Usb!M, Usb!END, PanicText
<1>2. /\ log' = log /\ log_ptr' = log_ptr /\ printed' = printed /\ usb_rx_state' = usb_rx_state
      /\ usb_rx_was_magic' = usb_rx_was_magic /\ Now' = Now /\ queued' = queued /\ refused' = refused /\ missed' = missed
  BY <1>1, SameNow DEF Usb!console, Usb!rx, Usb!history
<1>3. UsbTypes'
  <2>1. PanicText \in Seq(Byte) /\ <<>> \in Seq(Byte) /\ 1 \in 0 .. 2
    BY DEF PanicText, UsbSizes
  <2> QED
    BY <1>1, <1>2, <2>1 DEF UsbInv, UsbTypes
<1>4. UsbPlace'
  BY <1>1 DEF UsbPlace
<1>5. PICK e : Along(onLine, chunk, queued, Now, e, usb_panic_mode)
  BY DEF UsbInv, UsbWay
<1>6. PICK x : Along(onLine, <<>>, queued, Now, x, 1)
  BY <1>5, AlongLine DEF UsbInv, UsbTypes
<1>7. UsbWay'
  BY <1>1, <1>2, <1>6 DEF UsbWay
<1> QED
  BY <1>3, <1>4, <1>7 DEF UsbInv

LEMMA GiveUpStep ==
  ASSUME UsbSizes, UsbInv, Usb!PanicGivesUp
  PROVE  UsbInv'
<1>1. /\ usb_panic_mode = 1 /\ usb_panic_mode' = 2 /\ usb_fwd_en' = usb_fwd_en /\ serial_buf' = <<>>
      /\ pulling' = pulling /\ chunk' = chunk
      /\ usb_queue' = usb_queue /\ usb_frame_ptr' = usb_frame_ptr /\ usb_frame_gap' = usb_frame_gap
      /\ dmesg_ptr' = dmesg_ptr /\ onLine' = onLine /\ UNCHANGED Usb!rx /\ UNCHANGED Usb!console
      /\ UNCHANGED Usb!history
  BY DEF Usb!PanicGivesUp
<1>2. /\ log' = log /\ log_ptr' = log_ptr /\ printed' = printed /\ usb_rx_state' = usb_rx_state
      /\ usb_rx_was_magic' = usb_rx_was_magic /\ Now' = Now /\ queued' = queued /\ refused' = refused /\ missed' = missed
  BY <1>1, SameNow DEF Usb!console, Usb!rx, Usb!history
<1>3. UsbTypes'
  <2>1. <<>> \in Seq(Byte) /\ 2 \in 0 .. 2
    OBVIOUS
  <2> QED
    BY <1>1, <1>2, <2>1 DEF UsbInv, UsbTypes
<1>4. UsbPlace'
  BY <1>1 DEF UsbInv, UsbPlace
<1>5. PICK e : Along(onLine, chunk, queued, Now, e, usb_panic_mode)
  BY DEF UsbInv, UsbWay
<1>6. Along(onLine, chunk, queued, Now, e, 2)
  BY <1>5, AlongMode
<1>7. UsbWay'
  BY <1>1, <1>2, <1>6 DEF UsbWay
<1> QED
  BY <1>3, <1>4, <1>7 DEF UsbInv

LEMMA PushStep ==
  ASSUME UsbSizes, UsbInv, Usb!jd_usb_push
  PROVE  UsbInv'
<1>1. /\ onLine # <<>> /\ onLine' = Tail(onLine) /\ UNCHANGED Usb!tx /\ usb_panic_mode' = usb_panic_mode
      /\ usb_fwd_en' = usb_fwd_en /\ UNCHANGED Usb!console /\ UNCHANGED Usb!history
  BY DEF Usb!jd_usb_push
<1>2. /\ usb_queue' = usb_queue /\ usb_frame_ptr' = usb_frame_ptr /\ usb_frame_gap' = usb_frame_gap
      /\ serial_buf' = serial_buf /\ chunk' = chunk /\ pulling' = pulling /\ dmesg_ptr' = dmesg_ptr
      /\ log' = log /\ log_ptr' = log_ptr /\ printed' = printed
      /\ queued' = queued /\ refused' = refused /\ missed' = missed
  BY <1>1 DEF Usb!tx, Usb!console, Usb!history
<1>3. onLine \in Seq(Byte) /\ chunk \in Seq(Byte) /\ UsbTypes /\ usb_rx_state \in BOOLEAN /\ usb_rx_was_magic \in BOOLEAN
  BY DEF UsbInv, UsbTypes
<1>4. PICK e : Along(onLine, chunk, queued, Now, e, usb_panic_mode) /\ (usb_panic_mode = 0 => Sent(e))
  BY DEF UsbInv, UsbWay
<1>5. PICK y : Takes(Now, Head(onLine), y) /\ Along(Tail(onLine), chunk, queued, y, e, usb_panic_mode)
  BY <1>1, <1>3, <1>4, AlongPush
<1>6. Now \in Receiver
  BY <1>3, <1>4, AlongTypes
<1>7. Now' = y
  BY <1>3, <1>5, <1>6, PushTakes
<1>8. UsbWay'
  <2>1. usb_panic_mode = 0 => Sent(e)'
    BY <1>2, <1>4 DEF Sent
  <2> QED
    BY <1>1, <1>2, <1>5, <1>7, <2>1 DEF UsbWay
<1>9. usb_rx_state' \in BOOLEAN /\ usb_rx_was_magic' \in BOOLEAN
  <2>1. usb_rx_was_magic' \in BOOLEAN
    BY <1>3 DEF Usb!jd_usb_push, Usb!Quoted
  <2>2. ASSUME NEW c, Usb!Deliver(c)
        PROVE  usb_rx_state' \in BOOLEAN
    BY <1>3, <2>2 DEF Usb!Deliver, Usb!frame_error
  <2>3. ASSUME NEW c, Usb!Quoted(c)
        PROVE  usb_rx_state' \in BOOLEAN
    <3>1. CASE c = "L"
      <4>1. Usb!Deliver("M")
        BY <2>3, <3>1 DEF Usb!Quoted, Usb!LITERAL, Usb!START, Usb!END, Usb!GAP, Usb!M
      <4> QED
        BY <2>2, <4>1
    <3>2. CASE c = "S" \/ c = "E" \/ c = "G"
      BY <1>3, <2>3, <3>2 DEF Usb!Quoted, Usb!LITERAL, Usb!START, Usb!END, Usb!GAP
    <3>3. CASE c \notin {"L", "S", "E", "G"}
      BY <2>3, <3>3 DEF Usb!Quoted, Usb!LITERAL, Usb!START, Usb!END, Usb!GAP
    <3> QED
      BY <3>1, <3>2, <3>3
  <2> PICK c : c = Head(onLine)
    OBVIOUS
  <2>4. CASE usb_rx_was_magic
    <3>1. CASE Head(onLine) = "M"
      BY <1>3, <2>4, <3>1 DEF Usb!jd_usb_push, Usb!M, Usb!frame_error
    <3>2. CASE Head(onLine) # "M"
      <4>1. Usb!Quoted(c)
        BY <2>4, <3>2 DEF Usb!jd_usb_push, Usb!M
      <4> QED
        BY <2>1, <2>3, <4>1
    <3> QED
      BY <3>1, <3>2
  <2>5. CASE ~ usb_rx_was_magic
    <3>1. CASE Head(onLine) = "M"
      BY <1>3, <2>5, <3>1 DEF Usb!jd_usb_push, Usb!M
    <3>2. CASE Head(onLine) # "M"
      <4>1. Usb!Deliver(c)
        BY <2>5, <3>2 DEF Usb!jd_usb_push, Usb!M
      <4> QED
        BY <2>1, <2>2, <4>1
    <3> QED
      BY <3>1, <3>2
  <2> QED
    BY <2>1, <2>4, <2>5
<1>10. UsbTypes'
  <2>1. Tail(onLine) \in Seq(Byte)
    BY <1>1, <1>3
  <2> QED
    BY <1>1, <1>2, <1>3, <1>9, <2>1 DEF UsbTypes
<1>11. UsbPlace'
  BY <1>1, <1>2 DEF UsbInv, UsbPlace
<1> QED
  BY <1>8, <1>10, <1>11 DEF UsbInv

LEMMA UsbStarts ==
  ASSUME UsbSizes, Usb!Init
  PROVE  UsbInv
<1>1. /\ usb_queue = <<>> /\ usb_frame_ptr = 0 /\ usb_frame_gap = 0
      /\ usb_panic_mode = 0 /\ serial_buf = <<>> /\ chunk = <<>> /\ pulling = "no"
      /\ usb_rx_buf = <<>> /\ usb_rx_state = FALSE /\ usb_rx_was_magic = FALSE
      /\ log = [i \in 0 .. LOG - 1 |-> "0"] /\ log_ptr = 0 /\ dmesg_ptr = 0
      /\ onLine = <<>> /\ queued = <<>> /\ refused = 0 /\ printed = 0
      /\ missed = 0 /\ gaps = 0 /\ got = <<>> /\ serial = <<>>
  BY DEF Usb!Init
<1>2. "0" \in Byte /\ LOG \in Nat /\ LOG >= 1 /\ Len(Text) \in Nat
  BY DEF UsbSizes
<1>3. <<>> \in Seq(Byte) /\ <<>> \in Seq(WireFrames) /\ Len(<<>>) = 0 /\ 1 .. 0 = {} /\ 0 <= 0 /\ 0 + 0 = 0 /\ 0 - 0 = 0
      /\ 0 .. 0 - 1 = {} /\ 0 \in 0 .. 1 /\ 0 \in Nat
  OBVIOUS
<1>4. UsbTypes
  <2>1. log \in [0 .. LOG - 1 -> Byte] /\ log_ptr \in 0 .. LOG - 1 /\ dmesg_ptr \in 0 .. LOG /\ printed \in 0 .. Len(Text)
    BY <1>1, <1>2
  <2>2. usb_frame_gap \in 0 .. 2 /\ usb_panic_mode \in 0 .. 2
    BY <1>1
  <2>3. usb_rx_state \in BOOLEAN /\ usb_rx_was_magic \in BOOLEAN
    BY <1>1
  <2> QED
    BY <1>1, <1>3, <2>1, <2>2, <2>3 DEF UsbTypes
<1>5. UsbPlace
  BY <1>1 DEF UsbPlace
<1>6. Now = Rcv(<<>>, 0, 0, <<>>, <<>>, 0)
  BY <1>1 DEF Now, Bit
<1>7. Now.buf = <<>> /\ Now.state = 0 /\ Now.magic = 0 /\ Now.got = <<>> /\ Now.serial = <<>> /\ Now.gaps = 0
  BY <1>6, Fields
<1>8. Now \in Receiver
  BY <1>3, <1>6, RcvType
<1>9. Begins(<<>>, <<>>) /\ Begins(<<>>, Text)
  BY <1>2, <1>3 DEF Begins
<1>10. Fine(Now, <<>>) /\ Reads(Now, Len(Now.serial))
  BY <1>3, <1>7, <1>9 DEF Fine, Reads
<1>11. Along(<<>>, <<>>, <<>>, Now, Now, 0)
  BY <1>7, <1>8, <1>10, AlongStart
<1>12. Sent(Now)
  <2>1. ~ InFrame(0, "no")
    BY DEF InFrame
  <2>2. FramesLeft(Now, <<>>, <<>>, 0, "no")
    BY <1>3, <1>7, <2>1 DEF FramesLeft
  <2>3. GapsLeft(0, 0, 0)
    BY DEF GapsLeft
  <2>4. ReadFrom(0) = 0 /\ RingAt(0, 0) = 0
    BY <1>2 DEF ReadFrom, RingAt
  <2>5. 0 < LOG
    BY <1>2
  <2>6. InRing(0, 0, log, 0, 0)
    BY <1>3, <2>4, <2>5 DEF InRing
  <2>7. TextLeft(0, <<>>, 0, log, 0, 0)
    BY <1>3, <2>4, <2>6 DEF TextLeft
  <2> QED
    BY <1>1, <1>3, <1>7, <2>2, <2>3, <2>7 DEF Sent
<1>13. UsbWay
  BY <1>1, <1>11, <1>12 DEF UsbWay
<1> QED
  BY <1>4, <1>5, <1>13 DEF UsbInv

\* What the invariant is for.
LEMMA UsbDelivers ==
  ASSUME UsbSizes, UsbInv
  PROVE  Usb!BridgeDelivers
<1>1. PICK e : Along(onLine, chunk, queued, Now, e, usb_panic_mode) /\ (usb_panic_mode = 0 => Sent(e))
  BY DEF UsbInv, UsbWay
<1>2. /\ onLine \in Seq(Byte) /\ chunk \in Seq(Byte) /\ queued \in Seq(WireFrames) /\ printed \in 0 .. Len(Text)
      /\ Text \in Seq(Byte) /\ refused \in Nat
  BY DEF UsbInv, UsbTypes, UsbSizes
<1>3. /\ Now \in Receiver /\ e \in Receiver /\ Fine(Now, queued)
      /\ usb_panic_mode = 0 => Reads(Now, Len(e.serial))
      /\ onLine \o chunk = <<>> => Now = e
  BY <1>1, <1>2, AlongTypes
<1>4. Now.got = got /\ Now.serial = serial /\ Now.gaps = gaps
  BY DEF Now, Rcv
<1>5. got \in Seq(WireFrames) /\ serial \in Seq(Byte) /\ gaps \in Nat
  BY <1>3, <1>4, ReceiverFields
<1>6. Begins(got, queued)
  BY <1>3, <1>4 DEF Fine
<1>7. ASSUME Usb!Idle, usb_panic_mode = 0
      PROVE  /\ Len(got) = Len(queued) /\ (refused > 0 => usb_frame_gap = 1 \/ gaps > 0)
  <2>1. usb_queue = <<>> /\ onLine = <<>> /\ chunk = <<>>
    BY <1>7 DEF Usb!Idle, UsbInv, UsbPlace
  <2>2. onLine \o chunk = <<>>
    BY <2>1
  <2>3. Now = e /\ Sent(e)
    BY <1>1, <1>3, <1>7, <2>2
  <2>4. Len(queued) = Len(got) + Len(usb_queue)
    BY <1>4, <2>3 DEF Sent, FramesLeft
  <2>5. Len(usb_queue) = 0 /\ Len(got) \in Nat
    BY <1>5, <2>1
  <2> QED
    BY <1>4, <2>3, <2>4, <2>5 DEF Sent, GapsLeft
<1>8. Usb!FramesIntact
  <2> DEFINE at == [i \in 1 .. Len(got) |-> i]
  <2>1. Len(got) \in Nat /\ Len(queued) \in Nat /\ Len(got) <= Len(queued) /\ \A i \in 1 .. Len(got) : got[i] = queued[i]
    BY <1>2, <1>5, <1>6 DEF Begins
  <2>2. at \in [1 .. Len(got) -> 1 .. Len(queued)] /\ DOMAIN at = 1 .. Len(got) /\ \A i \in 1 .. Len(got) : at[i] = i
    BY <2>1
  <2> HIDE DEF at
  <2>3. \A i \in DOMAIN at : got[i] = queued[at[i]] /\ \A j \in 1 .. i - 1 : at[j] < at[i]
    <3> TAKE i \in DOMAIN at
    <3>1. i \in 1 .. Len(got) /\ at[i] = i
      BY <2>2
    <3>2. \A j \in 1 .. i - 1 : j \in 1 .. Len(got) /\ j < i
      BY <2>1, <3>1
    <3> QED
      BY <2>1, <2>2, <3>1, <3>2
  <2>4. ASSUME NEW k \in (1 .. Len(queued)) \ {at[i] : i \in DOMAIN at}
        PROVE  ~ (Usb!Idle /\ usb_panic_mode = 0) /\ \A i \in DOMAIN at : at[i] < k
    <3>1. k \in 1 .. Len(queued) /\ k \notin 1 .. Len(got)
      BY <2>2
    <3>2. k > Len(got)
      BY <2>1, <3>1
    <3>3. ~ (Usb!Idle /\ usb_panic_mode = 0)
      BY <1>7, <2>1, <3>1, <3>2
    <3>4. \A i \in 1 .. Len(got) : i < k
      BY <2>1, <3>1, <3>2
    <3> QED
      BY <2>2, <3>3, <3>4
  <2> QED
    BY <2>2, <2>3, <2>4 DEF Usb!FramesIntact
<1>9. Usb!TextIntact
  <2>1. SUFFICES ASSUME usb_panic_mode = 0
                 PROVE  Usb!IsPrefix(serial, SubSeq(Text, 1, printed))
    BY DEF Usb!TextIntact
  <2>2. Begins(serial, Text) /\ Len(serial) <= Len(e.serial)
    BY <1>3, <1>4, <2>1 DEF Reads
  <2>3. Len(e.serial) + Len(serial_buf) <= printed /\ Len(e.serial) \in Nat /\ Len(serial_buf) \in Nat
    BY <1>1, <1>3, <2>1, ReceiverFields DEF Sent, TextLeft, InRing, UsbInv, UsbTypes
  <2>4. Len(serial) \in Nat /\ Len(serial) <= printed /\ printed \in Nat /\ printed <= Len(Text)
    BY <1>2, <1>5, <2>2, <2>3
  <2> DEFINE p == SubSeq(Text, 1, printed)
             n == Len(serial)
  <2>5. p \in Seq(Byte) /\ Len(p) = printed /\ \A j \in 1 .. printed : p[j] = Text[j]
    BY <1>2, <2>4
  <2> HIDE DEF p
  <2>6. SubSeq(serial, 1, n) = SubSeq(p, 1, n)
    <3>1. \A j \in 1 .. n : serial[j] = p[j] /\ j \in 1 .. printed
      BY <2>2, <2>4, <2>5 DEF Begins
    <3> QED
      BY <1>5, <2>4, <2>5, <3>1
  <2>7. Usb!IsPrefix(serial, p)
    BY <2>4, <2>5, <2>6 DEF Usb!IsPrefix
  <2> QED
    BY <2>7 DEF p
<1>10. Usb!GapMarked
  BY <1>7 DEF Usb!GapMarked
<1> QED
  BY <1>8, <1>9, <1>10 DEF Usb!BridgeDelivers

\* The USB bridge (jd_usb_pull, jd_usb_push): for any frames and any text, any sizes of chunks
\* and buffers, and whenever a panic comes, the other side gets the frames whole and in order
\* and the text as it was printed, and a frame that was refused is marked by a gap, if no chunk
\* is lost.
THEOREM BridgeCarries == UsbSizes => (Usb!Spec => []Usb!BridgeDelivers)
<1> SUFFICES ASSUME UsbSizes
             PROVE  Usb!Spec => []Usb!BridgeDelivers
  OBVIOUS
<1>1. Usb!Init => UsbInv
  BY UsbStarts
<1>2. UsbInv /\ [Usb!Next]_Usb!vars => UsbInv'
  <2> SUFFICES ASSUME UsbInv, [Usb!Next]_Usb!vars
               PROVE  UsbInv'
    OBVIOUS
  <2>1. CASE Usb!Next
    <3>1. ~ Usb!Lose
      BY DEF Usb!Lose, UsbSizes, UsbInv, UsbTypes
    <3> QED
      BY <2>1, <3>1, SendFrameStep, PullBegins, PullGapStep, PullFrontStep, PullByteStep, PullEndStep,
         PullTextStep, PullReturnStep, WriteStep, PanicStep, GiveUpStep, PushStep DEF Usb!Next
  <2>2. CASE UNCHANGED Usb!vars
    <3>1. Now' = Now /\ UNCHANGED <<usb_queue, usb_frame_ptr, usb_frame_gap, usb_panic_mode, usb_fwd_en, serial_buf>>
          /\ UNCHANGED <<chunk, pulling, usb_rx_state, usb_rx_was_magic, log, log_ptr, dmesg_ptr, onLine, queued>>
          /\ UNCHANGED <<refused, printed, missed>>
      BY <2>2 DEF Usb!vars, Now, Bit
    <3>2. UsbTypes' /\ UsbPlace'
      BY <3>1 DEF UsbInv, UsbTypes, UsbPlace
    <3>3. PICK e : Along(onLine, chunk, queued, Now, e, usb_panic_mode) /\ (usb_panic_mode = 0 => Sent(e))
      BY DEF UsbInv, UsbWay
    <3>4. usb_panic_mode = 0 => Sent(e)'
      BY <3>1, <3>3 DEF Sent
    <3>5. UsbWay'
      BY <3>1, <3>3, <3>4 DEF UsbWay
    <3> QED
      BY <3>2, <3>5 DEF UsbInv
  <2> QED
    BY <2>1, <2>2
<1>3. UsbInv => Usb!BridgeDelivers
  BY UsbDelivers
<1> QED
  BY <1>1, <1>2, <1>3, PTL DEF Usb!Spec
=============================================================================
