----------------------------- MODULE TxSchedule -----------------------------
(***************************************************************************)
(* TxSchedule, the thread that decides when user data go to the radio.     *)
(* tickFsmSchedule is one state machine; every state is an action, except  *)
(* TX_SEND_BUSY_WAIT, whose body sleeps, polls the clock and hands a large *)
(* packet to FlushHiggs in two writes: it is cut where other threads can   *)
(* get in between (`step').                                                *)
(*                                                                         *)
(* Time is counted in frames, coarsely.  `now' is the radio's lifetime as  *)
(* predictLifetime32 gives it and stops at MaxNow; how long the thread     *)
(* still has to wait for its target (`sleep') and how long the last debug  *)
(* packet keeps the radio busy (`busy') are kept relative to now.  The     *)
(* retransmit buffer, which tunGetPacket reads before tun, is empty here.  *)
(***************************************************************************)
EXTENDS FlushHiggs, FiniteSets

CONSTANTS Joint,            \* packets of the arbiter: [epoc, ts, id], id not 0
          OwnTun,           \* packets this node's own tun device may deliver
          SCHEDULE_FRAMES,  \* frames of an epoc
          SLOT_FRAMES,      \* frames of a timeslot (512)
          Early,            \* pickEarlyFrames()
          Tol,              \* how early or late is acceptable (250)
          Ahead,            \* debug_duplex_ahead
          DropEarly,        \* drop_early_seconds (20)
          DumpOld,          \* packets examined per tick (5)
          BusyFrames,       \* what estimateBusy says of a debug packet
          MaxSendLowLoops,  \* 2100 in the code
          MaxZerosWaiting,  \* 20 in the code
          MaxNow,           \* bound: the clock stops here
          UserUnits         \* units of a packet larger than speedup_size

ASSUME TxAssumption ==
    /\ {SCHEDULE_FRAMES, SLOT_FRAMES, UserUnits} \subseteq Nat \ {0}
    /\ {Early, Tol, Ahead, DropEarly, DumpOld, BusyFrames, MaxSendLowLoops,
        MaxZerosWaiting, MaxNow} \subseteq Nat
    /\ UserUnits >= 2
    /\ Joint \subseteq [epoc : Nat, ts : Nat, id : Nat \ {0}]
    /\ OwnTun \cap Joint = {}

VARIABLES dsp_state,            \* the state whose handler ran last
          dsp_state_pending,    \* the state whose handler runs next
          step,                 \* position inside TX_SEND_BUSY_WAIT
          doWarmup, exitDataMode,                  \* atomics, set by EventDsp
          errorDetected, flushZerosStarted, flushZerosEnded,  \* atomic counters
          errorDetectedLocal, sendLowLoops, errorFlushZerosWaiting,
          epoc_valid,           \* attached->epoc_valid
          unacked,              \* map_mov_packets_sent - map_mov_acks_received
          link_up,              \* runtime.tx.link.up
          beamform_buffer,      \* joint packets not yet examined
          pending_valid, pending,    \* the joint packet being handled
          tun,                  \* txTun2EventDsp
          debug_duplex,         \* debug packets still to be sent
          isDebugDuplexPacket,  \* local of the handler
          d,                    \* local: the data pulled from tun
          now, sleep, busy,     \* see above
          nacked, aired         \* history: joint packets reported dropped, sent

txVars == <<dsp_state, dsp_state_pending, step, doWarmup, exitDataMode,
            errorDetected, flushZerosStarted, flushZerosEnded,
            errorDetectedLocal, sendLowLoops, errorFlushZerosWaiting,
            epoc_valid, unacked, link_up, beamform_buffer, pending_valid,
            pending, tun, debug_duplex, isDebugDuplexPacket, d, now, sleep,
            busy, nacked, aired>>
counters == <<errorDetected, flushZerosStarted, flushZerosEnded>>
locals == <<errorDetectedLocal, sendLowLoops, errorFlushZerosWaiting>>
joints == <<beamform_buffer, pending_valid, pending, tun, nacked, aired>>
packet == <<isDebugDuplexPacket, d, sleep, busy, debug_duplex>>
\* What a state of the machine that is not TX_SEND_BUSY_WAIT never touches.
quiet == <<step, exitDataMode, beamform_buffer, pending_valid, pending, nacked,
           aired, packet, now>>

RecoverStates == {"TX_FSM_RECOVER_ERROR_0_A", "TX_FSM_RECOVER_ERROR_1_A",
                  "TX_FSM_RECOVER_ERROR_2_A", "TX_FSM_RECOVER_ERROR_0",
                  "TX_FSM_RECOVER_ERROR_1", "TX_FSM_RECOVER_ERROR_2",
                  "TX_FSM_RECOVER_ERROR_3", "TX_FSM_RECOVER_ERROR_4"}
LowPriStates == {"TX_FSM_SEND_LOW_PRI_0", "TX_FSM_SEND_LOW_PRI_1",
                 "TX_FSM_SEND_LOW_PRI_2"}
StartStates == {"PRE_BOOT", "DEBUG_EARLY_EVENT_0", "WAIT_EVENTS",
                "DEBUG_TX_MAPMOV_0", "DEBUG_TX_MAPMOV_1", "DEBUG_TX_MAPMOV_2",
                "PERIODIC_SCHEDULE_0"}
TxStates == StartStates \cup LowPriStates \cup RecoverStates
                \cup {"TX_SEND_BUSY_WAIT"}

NoPacket == [epoc |-> 0, ts |-> 0, id |-> 0]

\* The radio may have been on for any time.
TxInit ==
    /\ dsp_state = "PRE_BOOT" /\ dsp_state_pending = "PRE_BOOT"
    /\ step = "top"
    /\ doWarmup = FALSE /\ exitDataMode = FALSE
    /\ errorDetected = 0 /\ flushZerosStarted = 0 /\ flushZerosEnded = 0
    /\ errorDetectedLocal = 0 /\ sendLowLoops = 0 /\ errorFlushZerosWaiting = 0
    /\ epoc_valid = FALSE
    /\ unacked = 0
    /\ link_up = FALSE
    /\ beamform_buffer = <<>> /\ pending_valid = 0 /\ pending = NoPacket
    /\ tun = {}
    /\ debug_duplex = 0 /\ isDebugDuplexPacket = FALSE /\ d = {}
    /\ now \in 0..MaxNow /\ sleep = 0 /\ busy = 0
    /\ nacked = {} /\ aired = {}

\* Entering the handler of state s; GO_NOW and GO_AFTER name the next one.
In(s) == dsp_state_pending = s /\ dsp_state' = s
Go(s) == dsp_state_pending' = s

-----------------------------------------------------------------------------
(* From boot to data mode.                                                 *)

PreBoot ==
    /\ In("PRE_BOOT") /\ Go("DEBUG_EARLY_EVENT_0")
    /\ UNCHANGED <<flushVars, quiet, counters, locals, doWarmup, epoc_valid,
                   unacked, link_up, tun>>

DebugEarlyEvent ==
    /\ In("DEBUG_EARLY_EVENT_0") /\ Go("WAIT_EVENTS")
    /\ UNCHANGED <<flushVars, quiet, counters, locals, doWarmup, epoc_valid,
                   unacked, link_up, tun>>

WaitEvents ==
    /\ In("WAIT_EVENTS")
    /\ Go(IF doWarmup THEN "DEBUG_TX_MAPMOV_0" ELSE "WAIT_EVENTS")
    /\ doWarmup' = FALSE
    /\ UNCHANGED <<flushVars, quiet, counters, locals, epoc_valid, unacked,
                   link_up, tun>>

DebugTxMapmov0 ==
    /\ In("DEBUG_TX_MAPMOV_0") /\ Go("DEBUG_TX_MAPMOV_1")
    /\ allow_zmq_higgs' = TRUE
    /\ UNCHANGED <<normal, low, flushOwn, requestExitSendingLow,
                   last_fill_level, quiet, counters, locals, doWarmup,
                   epoc_valid, unacked, link_up, tun>>

DebugTxMapmov1 ==
    /\ In("DEBUG_TX_MAPMOV_1") /\ Go("DEBUG_TX_MAPMOV_2")
    /\ epoc_valid' = FALSE
    /\ UNCHANGED <<flushVars, quiet, counters, locals, doWarmup, unacked,
                   link_up, tun>>

DebugTxMapmov2 ==
    /\ In("DEBUG_TX_MAPMOV_2")
    /\ Go(IF epoc_valid THEN "PERIODIC_SCHEDULE_0" ELSE "DEBUG_TX_MAPMOV_2")
    /\ UNCHANGED <<flushVars, quiet, counters, locals, doWarmup, epoc_valid,
                   unacked, link_up, tun>>

AllowInDataMode == FALSE
PeriodicSchedule ==
    /\ In("PERIODIC_SCHEDULE_0") /\ Go("TX_SEND_BUSY_WAIT")
    /\ allow_zmq_higgs' = AllowInDataMode
    /\ unacked' = 0
    /\ tun' = {}                        \* dumpUserData()
    /\ link_up' = TRUE
    /\ UNCHANGED <<normal, low, flushOwn, requestExitSendingLow,
                   last_fill_level, quiet, counters, locals, doWarmup,
                   epoc_valid>>

-----------------------------------------------------------------------------
(* Joint packets: loadPendingMember and loadZmqBeamform on a record of     *)
(* what they change.                                                       *)

JointState == [valid |-> pending_valid, cur |-> pending,
               buf |-> beamform_buffer, tun |-> tun, nacked |-> nacked]

LoadPendingMember(j) ==
    IF j.valid # 0 \/ j.buf = <<>> THEN j
    ELSE [j EXCEPT !.valid = 1, !.cur = Head(j.buf), !.buf = Tail(j.buf)]

NowEpoc == now \div SCHEDULE_FRAMES

LoadZmqBeamform(j) ==
    IF j.valid # 1 THEN j
    ELSE IF NowEpoc > j.cur.epoc \/ NowEpoc + DropEarly < j.cur.epoc
    THEN [j EXCEPT !.valid = 0, !.nacked = @ \cup {j.cur}]
    ELSE IF j.cur.epoc \in {NowEpoc, NowEpoc + 1}
    THEN [j EXCEPT !.valid = 2, !.tun = {j.cur}]    \* after dumpTunBuffer()
    ELSE j

\* The loop of dump_old iterations.
LoadedAfter[n \in 0 .. DumpOld] ==
    IF n = 0 THEN JointState
    ELSE LoadZmqBeamform(LoadPendingMember(LoadedAfter[n - 1]))
Loaded == LoadedAfter[DumpOld]

Apply(j) ==
    /\ pending_valid' = j.valid
    /\ pending' = j.cur
    /\ beamform_buffer' = j.buf
    /\ tun' = j.tun
    /\ nacked' = j.nacked

-----------------------------------------------------------------------------
(* TX_SEND_BUSY_WAIT, up to pulling the data.                              *)

GoRecover ==
    /\ Go("TX_FSM_RECOVER_ERROR_0_A")
    /\ errorDetected' = 0

\* Nothing to send, or not soon: low-priority frames may go first.
LowOrAgain ==
    IF LowLenIsZero
    THEN Go("TX_SEND_BUSY_WAIT") /\ UNCHANGED sendLowLoops
    ELSE Go("TX_FSM_SEND_LOW_PRI_0") /\ sendLowLoops' = 0

IsDebugDuplex(valid) == valid = 0 /\ busy = 0 /\ debug_duplex > 0

\* For a joint packet the target is reduced modulo an epoc although it is
\* compared with the radio's lifetime.
JointTarget(p) ==
    (SCHEDULE_FRAMES + p.ts * SLOT_FRAMES - Early) % SCHEDULE_FRAMES

WithinTheEpoc(duplex, p) ==
    IF duplex THEN Ahead - Early
    ELSE JointTarget(p) - (now % SCHEDULE_FRAMES)
SleepFrames(duplex, p) ==
    IF duplex THEN Ahead - Early ELSE JointTarget(p) - now

BusyWaitError ==
    /\ In("TX_SEND_BUSY_WAIT") /\ step = "top"
    /\ errorDetected # 0
    /\ GoRecover
    /\ UNCHANGED <<flushVars, quiet, flushZerosStarted, flushZerosEnded, locals,
                   doWarmup, epoc_valid, unacked, link_up, tun>>

BusyWaitTop ==
    /\ In("TX_SEND_BUSY_WAIT") /\ step = "top"
    /\ errorDetected = 0
    /\ Apply(Loaded)
    /\ isDebugDuplexPacket' = IsDebugDuplex(Loaded.valid)
    /\ LET frames == SleepFrames(isDebugDuplexPacket', Loaded.cur)
       IN  \/ /\ ~isDebugDuplexPacket' /\ Loaded.valid = 0
              /\ LowOrAgain
              /\ UNCHANGED <<step, sleep>>
           \/ /\ isDebugDuplexPacket' \/ Loaded.valid # 0
              /\ \/ /\ ~LowLenIsZero           \* two seconds without low
                    /\ Go("TX_FSM_SEND_LOW_PRI_0") /\ sendLowLoops' = 0
                    /\ UNCHANGED <<step, sleep>>
                 \/ /\ frames > SCHEDULE_FRAMES \div 3
                    /\ LowOrAgain
                    /\ UNCHANGED <<step, sleep>>
                 \/ /\ frames <= SCHEDULE_FRAMES \div 3
                    /\ step' = "pull"
                    /\ sleep' = frames
                    /\ UNCHANGED <<dsp_state_pending, sendLowLoops>>
    /\ UNCHANGED <<flushVars, counters, errorDetectedLocal,
                   errorFlushZerosWaiting, doWarmup, exitDataMode, epoc_valid,
                   unacked, link_up, debug_duplex, d, now, busy, aired>>

-----------------------------------------------------------------------------
(* From pulling the data to the end of the handler.                        *)

busyRest == <<dsp_state, dsp_state_pending, counters, locals, doWarmup,
              exitDataMode, epoc_valid, unacked, link_up, now>>

\* A debug packet is generated; otherwise everything in tun is taken, and an
\* empty d means skip_this_packet.
Pulled == IF isDebugDuplexPacket THEN {NoPacket} ELSE tun

Pull ==
    /\ step = "pull"
    /\ tun' = IF isDebugDuplexPacket THEN tun ELSE {}
    /\ IF sleep < 0
       THEN /\ step' = "top"                \* dumpPendingPacket()
            /\ d' = {}
            /\ nacked' = nacked \cup {pending}
            /\ pending_valid' = 0
       ELSE /\ step' = "wait"
            /\ d' = Pulled
            /\ UNCHANGED <<nacked, pending_valid>>
    /\ UNCHANGED <<flushVars, busyRest, beamform_buffer, pending, aired,
                   debug_duplex, isDebugDuplexPacket, sleep, busy>>

\* The busy loop finds that the target has passed: no packet, no joint ack.
WaitLate ==
    /\ step = "wait" /\ sleep < 0
    /\ pending_valid' = 0
    /\ d' = {}
    /\ step' = "tail"
    /\ UNCHANGED <<flushVars, busyRest, beamform_buffer, pending, tun, nacked,
                   aired, debug_duplex, isDebugDuplexPacket, sleep, busy>>

WaitSkip ==
    /\ step = "wait" /\ sleep \in 0 .. Tol /\ d = {}
    /\ step' = "tail"
    /\ UNCHANGED <<flushVars, busyRest, joints, packet>>

\* What follows the last write of a packet.
PendingKept == pending_valid
PendingAfterSend == 0
FinishedDebugDuplex ==
    /\ busy' = BusyFrames
    /\ debug_duplex' = IF debug_duplex > 0 THEN debug_duplex - 1 ELSE 0
SendDone ==
    /\ step' = "tail"
    /\ d' = {}
    /\ pending_valid' = PendingAfterSend
    /\ unacked' = unacked + 1
    /\ IF isDebugDuplexPacket
       THEN FinishedDebugDuplex
       ELSE UNCHANGED <<busy, debug_duplex>>

sendRest == <<low, flushOwn, allow_zmq_higgs, requestExitSendingLow,
              last_fill_level, dsp_state, dsp_state_pending, counters, locals,
              doWarmup, exitDataMode, epoc_valid, link_up, now,
              beamform_buffer, pending, tun, nacked, isDebugDuplexPacket, sleep>>

\* A frame of user data of n units.
EndsTooEarly(n) == [i \in 1 .. n |-> [kind |-> "user", left |-> n - i - 1]]
UserFrame(n) == [i \in 1 .. n |-> [kind |-> "user", left |-> n - i]]
SplitA == [i \in 1 .. UserUnits - 1 |-> UserFrame(UserUnits)[i]]
SplitB == <<[kind |-> "user", left |-> 0]>>

SendSmall ==
    /\ step = "wait" /\ sleep \in 0 .. Tol /\ d # {}
    /\ SendToHiggs(UserFrame(1))
    /\ aired' = aired \cup (d \cap Joint)
    /\ SendDone
    /\ UNCHANGED sendRest

SendSplitA ==
    /\ step = "wait" /\ sleep \in 0 .. Tol /\ d # {}
    /\ SendToHiggs(SplitA)
    /\ aired' = aired \cup (d \cap Joint)
    /\ step' = "splitb"
    /\ UNCHANGED <<sendRest, pending_valid, debug_duplex, d, busy,
                   unacked>>

SendSplitB ==
    /\ step = "splitb"
    /\ SendToHiggs(SplitB)
    /\ SendDone
    /\ UNCHANGED <<sendRest, aired>>

\* The end of the handler: errors, then a request to leave data mode, then
\* low-priority frames unless another joint packet is waiting.
BusyWaitTail ==
    /\ step = "tail" /\ step' = "top"
    /\ Apply(LoadPendingMember(JointState))
    /\ errorDetected' = 0
    /\ \/ /\ errorDetected # 0
          /\ Go("TX_FSM_RECOVER_ERROR_0_A")
          /\ UNCHANGED <<exitDataMode, sendLowLoops>>
       \/ /\ errorDetected = 0 /\ exitDataMode
          /\ exitDataMode' = FALSE
          /\ Go("WAIT_EVENTS")
          /\ UNCHANGED sendLowLoops
       \/ /\ errorDetected = 0 /\ ~exitDataMode
          /\ IF pending_valid' = 0 THEN LowOrAgain
             ELSE Go("TX_SEND_BUSY_WAIT") /\ UNCHANGED sendLowLoops
          /\ UNCHANGED exitDataMode
    /\ UNCHANGED <<flushVars, dsp_state, flushZerosStarted, flushZerosEnded,
                   errorDetectedLocal, errorFlushZerosWaiting, doWarmup,
                   epoc_valid, unacked, link_up, now, aired, packet>>

-----------------------------------------------------------------------------
(* Letting low-priority frames through.                                    *)

StreamIsIdle ==
    /\ unacked = 0
    /\ last_fill_level < 1
    /\ NormalLenIsZero
    /\ ~valid_8k

SendLowPri0 ==
    /\ In("TX_FSM_SEND_LOW_PRI_0")
    /\ Go(IF sendLowLoops > MaxSendLowLoops THEN "TX_FSM_RECOVER_ERROR_0_A"
          ELSE IF StreamIsIdle THEN "TX_FSM_SEND_LOW_PRI_1"
          ELSE "TX_FSM_SEND_LOW_PRI_0")
    /\ sendLowLoops' = sendLowLoops + 1
    /\ UNCHANGED <<flushVars, quiet, counters, errorDetectedLocal,
                   errorFlushZerosWaiting, doWarmup, epoc_valid, unacked,
                   link_up, tun>>

SendLowPri1 ==
    /\ In("TX_FSM_SEND_LOW_PRI_1") /\ Go("TX_FSM_SEND_LOW_PRI_2")
    /\ allow_zmq_higgs' = TRUE
    /\ UNCHANGED <<normal, low, flushOwn, requestExitSendingLow,
                   last_fill_level, quiet, counters, locals, doWarmup,
                   epoc_valid, unacked, link_up, tun>>

AllowAfterLow == FALSE
SendLowPri2 ==
    /\ In("TX_FSM_SEND_LOW_PRI_2") /\ Go("TX_SEND_BUSY_WAIT")
    /\ allow_zmq_higgs' = AllowAfterLow
    /\ ExitSendingLowMode
    /\ UNCHANGED <<normal, low, flushOwn, last_fill_level, quiet, counters,
                   locals, doWarmup, epoc_valid, unacked, link_up, tun>>

-----------------------------------------------------------------------------
(* Recovering from an error of the radio's parser.                         *)

recoverRest == <<low, flushOwn, requestExitSendingLow, last_fill_level, quiet,
                 doWarmup, epoc_valid>>

RecoverError0A ==
    /\ In("TX_FSM_RECOVER_ERROR_0_A") /\ Go("TX_FSM_RECOVER_ERROR_1_A")
    /\ link_up' = FALSE
    /\ allow_zmq_higgs' = FALSE
    /\ errorDetectedLocal' = errorDetected
    /\ UNCHANGED <<recoverRest, normal, counters, sendLowLoops,
                   errorFlushZerosWaiting, unacked, tun>>

\* Errors come in batches: wait until they stop, then ask for help.  The
\* request flag belongs to the JavaScript side.
RecoverError1A(request) ==
    /\ In("TX_FSM_RECOVER_ERROR_1_A")
    /\ IF errorDetectedLocal = errorDetected
       THEN /\ request
            /\ Go("TX_FSM_RECOVER_ERROR_2_A")
            /\ flushZerosEnded' = 0 /\ flushZerosStarted' = 0
       ELSE /\ ~request
            /\ Go("TX_FSM_RECOVER_ERROR_0_A")
            /\ UNCHANGED <<flushZerosEnded, flushZerosStarted>>
    /\ UNCHANGED <<recoverRest, normal, allow_zmq_higgs, errorDetected, locals,
                   unacked, link_up, tun>>

RecoverError2A(done) ==
    /\ In("TX_FSM_RECOVER_ERROR_2_A")
    /\ Go(IF done THEN "TX_FSM_RECOVER_ERROR_0"
          ELSE "TX_FSM_RECOVER_ERROR_2_A")
    /\ UNCHANGED <<recoverRest, normal, allow_zmq_higgs, counters, locals,
                   unacked, link_up, tun>>

RecoverError0 ==
    /\ In("TX_FSM_RECOVER_ERROR_0") /\ Go("TX_FSM_RECOVER_ERROR_1")
    /\ link_up' = FALSE
    /\ allow_zmq_higgs' = FALSE
    /\ errorDetectedLocal' = errorDetected
    /\ UNCHANGED <<recoverRest, normal, counters, sendLowLoops,
                   errorFlushZerosWaiting, unacked, tun>>

RecoverError1 ==
    /\ In("TX_FSM_RECOVER_ERROR_1")
    /\ IF errorDetectedLocal = errorDetected
       THEN /\ Go("TX_FSM_RECOVER_ERROR_2")
            /\ flushZerosEnded' = 0 /\ flushZerosStarted' = 0
       ELSE /\ Go("TX_FSM_RECOVER_ERROR_0")
            /\ UNCHANGED <<flushZerosEnded, flushZerosStarted>>
    /\ UNCHANGED <<recoverRest, normal, allow_zmq_higgs, errorDetected, locals,
                   unacked, link_up, tun>>

Zeros == <<[kind |-> "zeros", left |-> 0]>>
NoStatus == <<>>
StatusReply == <<[kind |-> "status", left |-> 0]>>

RecoverError2 ==
    /\ In("TX_FSM_RECOVER_ERROR_2")
    /\ IF \/ flushZerosStarted # 0 \/ flushZerosEnded # 0
          \/ errorDetectedLocal # errorDetected
       THEN /\ Go("TX_FSM_RECOVER_ERROR_0")
            /\ UNCHANGED <<normal, errorFlushZerosWaiting>>
       ELSE /\ SendToHiggs(Zeros)
            /\ Go("TX_FSM_RECOVER_ERROR_3")
            /\ errorFlushZerosWaiting' = 0
    /\ UNCHANGED <<recoverRest, allow_zmq_higgs, counters, errorDetectedLocal,
                   sendLowLoops, unacked, link_up, tun>>

\* The conditions on flushZerosStarted are switched off in the code.
RecoverError3 ==
    /\ In("TX_FSM_RECOVER_ERROR_3") /\ Go("TX_FSM_RECOVER_ERROR_4")
    /\ flushZerosEnded' = 0
    /\ errorDetectedLocal' = 0
    /\ errorFlushZerosWaiting' = 1
    /\ SendToHiggs(StatusReply)
    /\ UNCHANGED <<recoverRest, allow_zmq_higgs, errorDetected,
                   flushZerosStarted, sendLowLoops, unacked, link_up, tun>>

RecoverError4 ==
    /\ In("TX_FSM_RECOVER_ERROR_4")
    /\ \/ /\ flushZerosEnded = 0
          /\ Go(IF errorFlushZerosWaiting > MaxZerosWaiting
                THEN "TX_FSM_RECOVER_ERROR_2" ELSE "TX_FSM_RECOVER_ERROR_4")
          /\ UNCHANGED <<flushZerosStarted, flushZerosEnded,
                         errorDetectedLocal, unacked, tun, link_up>>
       \/ /\ flushZerosEnded = 1
          /\ flushZerosStarted' = 0 /\ flushZerosEnded' = 0
          /\ errorDetectedLocal' = 0
          /\ unacked' = 0
          /\ tun' = {}                  \* dumpUserData()
          /\ link_up' = TRUE
          /\ Go("TX_SEND_BUSY_WAIT")
       \/ /\ flushZerosEnded > 1
          /\ Go("TX_FSM_RECOVER_ERROR_0")
          /\ UNCHANGED <<flushZerosStarted, flushZerosEnded,
                         errorDetectedLocal, unacked, tun, link_up>>
    /\ errorFlushZerosWaiting' = errorFlushZerosWaiting + 1
    /\ UNCHANGED <<recoverRest, normal, allow_zmq_higgs, errorDetected,
                   sendLowLoops>>

-----------------------------------------------------------------------------
\* The steps that involve nothing but TxSchedule and FlushHiggs.
TxLocalNext ==
    \/ PreBoot \/ DebugEarlyEvent \/ WaitEvents
    \/ DebugTxMapmov0 \/ DebugTxMapmov1 \/ DebugTxMapmov2
    \/ PeriodicSchedule
    \/ BusyWaitError \/ BusyWaitTop
    \/ Pull \/ WaitLate \/ WaitSkip
    \/ SendSmall \/ SendSplitA \/ SendSplitB
    \/ BusyWaitTail
    \/ SendLowPri0 \/ SendLowPri1 \/ SendLowPri2
    \/ RecoverError0A \/ RecoverError0 \/ RecoverError1
    \/ RecoverError2 \/ RecoverError3 \/ RecoverError4

\* The clock: `sleep' and `busy' run down as `now' runs up.
Tick ==
    /\ now' = IF now < MaxNow THEN now + 1 ELSE now
    /\ sleep' = IF step \in {"pull", "wait"} /\ sleep >= 0
                THEN sleep - 1 ELSE sleep
    /\ busy' = IF busy > 0 THEN busy - 1 ELSE 0
    /\ UNCHANGED <<flushVars, dsp_state, dsp_state_pending, step, doWarmup,
                   exitDataMode, counters, locals, epoc_valid, unacked,
                   link_up, joints, debug_duplex, isDebugDuplexPacket, d>>

TxTypeOK ==
    /\ dsp_state \in TxStates /\ dsp_state_pending \in TxStates
    /\ step \in {"top", "pull", "wait", "splitb", "tail"}
    /\ {doWarmup, exitDataMode, epoc_valid, link_up, isDebugDuplexPacket}
           \subseteq BOOLEAN
    /\ {errorDetected, flushZerosStarted, flushZerosEnded, errorDetectedLocal,
        sendLowLoops, errorFlushZerosWaiting, debug_duplex, now, busy}
           \subseteq Nat
    /\ {unacked, sleep} \subseteq Int
    /\ beamform_buffer \in Seq(Joint)
    /\ pending_valid \in {0, 1, 2}
    /\ pending \in Joint \cup {NoPacket}
    /\ tun \subseteq Joint \cup OwnTun
    /\ d \subseteq Joint \cup OwnTun \cup {NoPacket}
    /\ nacked \subseteq Joint \cup {NoPacket}
    /\ aired \subseteq Joint
=============================================================================
