------------------------------- MODULE TxPath -------------------------------
(***************************************************************************)
(* The transmit path of one node: the FlushHiggs, TxSchedule and EventDsp  *)
(* threads and the JavaScript recovery, composed with the world around     *)
(* them: the radio that reads the data port and answers over the ringbus,  *)
(* the arbiter, the peers that send low-priority frames, the tun device.   *)
(*                                                                         *)
(* The radio's parser is not part of the repository.  It is modelled from  *)
(* what dispatchAttachedRb and the recovery states expect of it: it        *)
(* reports a run of zeros when it starts and when the next frame ends it,  *)
(* answers a status frame with an "alive", acknowledges a packet of user   *)
(* data, and reports errors.  The ringbus keeps its order and may lose a   *)
(* word.  A budget bounds how often the world does what.                   *)
(***************************************************************************)
EXTENDS EventDspTx

CONSTANTS Budgets,     \* bounds on what the world does: one of these holds
          MaxNormal,   \* bound on the normal buffer, in units
          MaxRb        \* bound on the ringbus words in flight

BudgetKinds == {"event", "low", "broken", "error", "loss", "duplex", "tun",
                "full"}

ASSUME PathAssumption ==
    /\ Budgets \subseteq [BudgetKinds -> Nat]
    /\ MaxNormal \in Nat /\ MaxRb \in Nat

VARIABLES rb,          \* ringbus words on their way from the radio
          flushing,    \* the radio's parser is inside a run of zeros
          toCome,      \* joint packets the arbiter has not sent yet
          budget       \* what is left of the budget

radioVars == <<rb, flushing>>
worldVars == <<toCome, budget>>
vars == <<flushVars, txVars, jsVars, edVars, radioVars, worldVars>>

Init ==
    /\ FlushInit /\ TxInit /\ JsInit /\ EdInit
    /\ rb = <<>> /\ flushing = FALSE
    /\ toCome \in SUBSET Joint
    /\ budget \in Budgets

Spend(what) == budget[what] > 0 /\ budget' = [budget EXCEPT ![what] = @ - 1]

-----------------------------------------------------------------------------
(* The radio.                                                              *)

ZerosEnd == IF flushing THEN <<"ended">> ELSE <<>>

Answer(u) ==
    CASE u.kind = "zeros"  -> IF flushing THEN <<>> ELSE <<"started">>
      [] u.kind = "status" -> ZerosEnd \o <<"alive">>
      [] u.kind = "user"   -> ZerosEnd \o (IF u.left = 0 THEN <<"ack">> ELSE <<>>)
      [] u.kind = "low"    -> ZerosEnd

RadioSees(u) ==
    /\ rb' = rb \o Answer(u)
    /\ Len(rb') <= MaxRb
    /\ flushing' = (u.kind = "zeros")

FlushStep ==
    /\ \/ PetSendToHiggs /\ UNCHANGED radioVars
       \/ /\ SendZmqHiggsNow
          /\ IF low' # low /\ Head(low) = "sound"
             THEN RadioSees(wire') ELSE UNCHANGED radioVars
       \/ PetSendToHiggs2(FALSE) /\ UNCHANGED radioVars
       \/ PetSendToHiggs2(TRUE) /\ RadioSees(wire')
    /\ UNCHANGED <<txVars, jsVars, edVars, worldVars>>

\* AttachedEstimate::dispatchAttachedRb for the next word.
Dispatch ==
    /\ rb # <<>>
    /\ LET word == Head(rb)
           Bump(count, type) == IF word = type THEN count + 1 ELSE count
       IN  /\ errorDetected' = Bump(errorDetected, "error")
           /\ flushZerosStarted' = Bump(flushZerosStarted, "started")
           /\ flushZerosEnded' = Bump(flushZerosEnded, "ended")
           /\ alive' = (alive \/ word = "alive")
           /\ unacked' = IF word = "ack" THEN unacked - 1 ELSE unacked
    /\ rb' = Tail(rb)
    /\ UNCHANGED <<flushVars, dsp_state, dsp_state_pending, step, doWarmup,
                   exitDataMode, locals, epoc_valid, link_up, joints, packet,
                   now, request, result, recovering, js_step, edVars, flushing,
                   worldVars>>

LoseWord ==
    /\ rb # <<>> /\ rb' = Tail(rb)
    /\ Spend("loss")
    /\ UNCHANGED <<flushVars, txVars, jsVars, edVars, flushing, toCome>>

RadioError ==
    /\ link_up
    /\ rb' = Append(rb, "error")
    /\ Spend("error")
    /\ UNCHANGED <<flushVars, txVars, jsVars, edVars, flushing, toCome>>

EpocReport ==
    /\ ~epoc_valid /\ epoc_valid' = TRUE
    /\ UNCHANGED <<flushVars, dsp_state, dsp_state_pending, step, doWarmup,
                   exitDataMode, counters, locals, unacked, link_up, joints,
                   packet, now, jsVars, edVars, radioVars, worldVars>>

\* A fill report: the buffer of the radio has run empty, or user data are
\* filling it up.
FillReport(level) ==
    /\ level # last_fill_level
    /\ level # 0 => wire.kind = "user"
    /\ ConsumeRingbusFill(level)
    /\ IF level = 0 THEN UNCHANGED budget ELSE Spend("full")
    /\ UNCHANGED <<normal, low, flushOwn, allow_zmq_higgs,
                   requestExitSendingLow, txVars, jsVars, edVars, radioVars,
                   toCome>>

-----------------------------------------------------------------------------
(* Everybody else.                                                         *)

\* zmqAcceptRemoteFeedbackBus: a frame of a peer for our radio.
LowArrives(frame) ==
    /\ SendToHiggsLowPriority(frame)
    /\ Spend(IF frame = "sound" THEN "low" ELSE "broken")
    /\ UNCHANGED <<normal, flushOwn, allow_zmq_higgs, requestExitSendingLow,
                   last_fill_level, txVars, jsVars, edVars, radioVars, toCome>>

\* EventDsp::handleJointTransmit.
HandleJointTransmit(p) ==
    /\ p \in toCome /\ toCome' = toCome \ {p}
    /\ beamform_buffer' = Append(beamform_buffer, p)
    /\ UNCHANGED <<flushVars, dsp_state, dsp_state_pending, step, doWarmup,
                   exitDataMode, counters, locals, epoc_valid, unacked,
                   link_up, pending_valid, pending, tun, nacked, aired,
                   packet, now, jsVars, edVars, radioVars, budget>>

TunArrives(p) ==
    /\ tun' = tun \cup {p}
    /\ Spend("tun")
    /\ UNCHANGED <<flushVars, dsp_state, dsp_state_pending, step, doWarmup,
                   exitDataMode, counters, locals, epoc_valid, unacked,
                   link_up, beamform_buffer, pending_valid, pending, nacked,
                   aired, packet, now, jsVars, edVars, radioVars, toCome>>

\* JavaScript asks for one debug packet, which it does in data mode.
AskDebugDuplex ==
    /\ link_up
    /\ debug_duplex = 0 /\ debug_duplex' = 1
    /\ Spend("duplex")
    /\ UNCHANGED <<flushVars, dsp_state, dsp_state_pending, step, doWarmup,
                   exitDataMode, counters, locals, epoc_valid, unacked,
                   link_up, joints, isDebugDuplexPacket, d, sleep, busy, now,
                   jsVars, edVars, radioVars, toCome>>

\* Events are looked at in WAIT_EVENTS only: one that comes earlier waits.
NewEvent(e) ==
    /\ tx_dsp_state = "WAIT_EVENTS"
    /\ most_recent_event = "none" /\ most_recent_event' = e
    /\ Spend("event")
    /\ UNCHANGED <<flushVars, txVars, jsVars, tx_dsp_state, self_sync_done,
                   radioVars, toCome>>

SelfSyncDone ==
    /\ ~self_sync_done /\ self_sync_done' = TRUE
    /\ UNCHANGED <<flushVars, txVars, jsVars, tx_dsp_state, most_recent_event,
                   radioVars, worldVars>>

-----------------------------------------------------------------------------
(* The processes.  Only the size of the normal buffer is bounded here.     *)

TxScheduleStep ==
    /\ \/ TxLocalNext /\ UNCHANGED settings
       \/ RecoverError1A(TRUE) /\ request' = TRUE /\ UNCHANGED result
       \/ RecoverError1A(FALSE) /\ UNCHANGED settings
       \/ RecoverError2A(TRUE) /\ result /\ result' = FALSE /\ UNCHANGED request
       \/ RecoverError2A(FALSE) /\ ~result /\ UNCHANGED settings
    /\ Len(normal') <= MaxNormal
    /\ UNCHANGED <<recovering, js_step, alive, edVars, radioVars, worldVars>>

JsStep ==
    /\ JsNext
    /\ Len(normal') <= MaxNormal
    /\ UNCHANGED <<txVars, edVars, radioVars, worldVars>>

EventDspStep == EdNext /\ UNCHANGED <<radioVars, worldVars>>

ClockStep == Tick /\ UNCHANGED <<jsVars, edVars, radioVars, worldVars>>

RadioStep ==
    \/ Dispatch \/ LoseWord \/ RadioError \/ EpocReport
    \/ \E level \in FillLevels : FillReport(level)

WorldStep ==
    \/ \E frame \in LowFrames : LowArrives(frame)
    \/ \E p \in Joint : HandleJointTransmit(p)
    \/ \E p \in OwnTun : TunArrives(p)
    \/ AskDebugDuplex \/ SelfSyncDone
    \/ \E e \in Events : NewEvent(e)

Next == \/ FlushStep \/ TxScheduleStep \/ JsStep \/ EventDspStep \/ ClockStep
        \/ RadioStep \/ WorldStep

Spec == Init /\ [][Next]_vars

-----------------------------------------------------------------------------
(* Properties.                                                             *)

\* Every variable of the path keeps its type.
TypeOK ==
    /\ FlushTypeOK /\ TxTypeOK /\ JsTypeOK /\ EdTypeOK
    /\ rb \in Seq({"ack", "error", "started", "ended", "alive"})
    /\ flushing \in BOOLEAN
    /\ toCome \subseteq Joint
    /\ budget \in [BudgetKinds -> Nat]

\* Once the first unit of a frame is on the data port nothing else gets on it
\* before the last one: neither a low-priority frame (LOW_PRI_0 says it "must
\* not interject in the middle of that stream") nor the zeros and status
\* frames of the recovery, although split_a and split_b are separate writes
\* and three threads write.
FramesAreWhole ==
    [][wire.left > 0 /\ wire' # wire =>
           wire'.kind = wire.kind /\ wire'.left = wire.left - 1]_vars

\* While the JavaScript recovery is under way it has the port to itself:
\* low-priority frames are shut out (so that dumpLow does not pull the buffer
\* from under FlushHiggs), no user packet is half written, and the state
\* machine that asked is still waiting for the answer.
RecoveryIsExclusive ==
    js_step # "monitor" =>
        /\ ~allow_zmq_higgs
        /\ step = "top"
        /\ \/ dsp_state_pending = "TX_FSM_RECOVER_ERROR_2_A"
           \/ tx_dsp_state = "JS_HANDLE_FB_BUS_1"

\* An answer of the recovery is for the machine that waits now: it is not left
\* over from an earlier recovery, and the other machine is not waiting too.
AnswerHasOneTaker ==
    LET waiting == {m \in {"tx", "ed"} :
                       IF m = "tx"
                       THEN dsp_state_pending = "TX_FSM_RECOVER_ERROR_2_A"
                       ELSE tx_dsp_state = "JS_HANDLE_FB_BUS_1"}
    IN  /\ Cardinality(waiting) <= 1
        /\ result => waiting # {} /\ ~request /\ ~recovering
        /\ request => waiting # {}

\* In data mode only TX_FSM_SEND_LOW_PRI_1 opens the port to low-priority
\* frames, although two state machines on two threads write allow_zmq_higgs.
DataModeKeepsLowOut ==
    dsp_state_pending \in RecoverStates
        \cup {"TX_SEND_BUSY_WAIT", "TX_FSM_SEND_LOW_PRI_0",
              "TX_FSM_SEND_LOW_PRI_1"}
    => ~allow_zmq_higgs

\* A joint packet reported to the arbiter as dropped is not transmitted
\* afterwards, nor the other way round: dumpPendingPacket and loadZmqBeamform
\* report what they give up.  There is one exception: when the target of a
\* debug packet has passed, dumpPendingPacket reports the joint packet that was
\* handled before it, which may well have been sent.
NackedNeverAired ==
    [][\A p \in (nacked' \cap aired') \ (nacked \cap aired) :
           isDebugDuplexPacket /\ pending_valid = 0 /\ p = pending /\ p \in aired]_vars

\* A joint packet is never handed to the radio after the epoc it was scheduled
\* for, however long it was kept waiting by low-priority frames or a recovery
\* between the check of loadZmqBeamform and the end of the busy loop.
JointNeverLate ==
    [][\A p \in aired' \ aired : now \div SCHEDULE_FRAMES <= p.epoc]_vars

-----------------------------------------------------------------------------
(* Liveness.  Every thread keeps running and the radio keeps answering.    *)
(* Sending is strongly fair: the budget of petSendToHiggs2 grows with the  *)
(* clock, so that in 80001 calls, again and again, one of them may send.   *)

Fairness ==
    /\ WF_vars(FlushStep /\ flush_pc # "pet")
    /\ WF_vars(FlushStep /\ flush_pc = "pet" /\ flush_pc' = "timer")
    /\ SF_vars(FlushStep /\ normal' # normal)
    /\ WF_vars(TxScheduleStep)
    /\ WF_vars(JsStep)
    /\ WF_vars(EventDspStep)
    /\ WF_vars(ClockStep)
    /\ WF_vars(Dispatch)
    /\ WF_vars(EpocReport)
    /\ WF_vars(FillReport(0))

\* doCheckAlive looked once, saw no reply, and nobody will look again.
JsGaveUp == recovering /\ js_step = "monitor"

\* FlushHiggs is left with the low buffer, which it may not send, and so sends
\* nothing at all.
LowHasThePort == sending_to = "LOW" /\ low # <<>> /\ ~allow_zmq_higgs

\* A recovery that TxSchedule starts ends in data mode, unless the JavaScript
\* side gave up or the zeros cannot be sent.
RecoveryEnds ==
    dsp_state_pending \in RecoverStates
        ~> \/ dsp_state_pending = "TX_SEND_BUSY_WAIT"
           \/ JsGaveUp \/ LowHasThePort

\* The comment in TX_FSM_RECOVER_ERROR_2_A: loop until done.
RecoveryIsReported ==
    dsp_state_pending = "TX_FSM_RECOVER_ERROR_2_A"
        ~> dsp_state_pending # "TX_FSM_RECOVER_ERROR_2_A"

\* The comment on the timer of FlushHiggs: it drains the output buffer.
NormalDrains == normal # <<>> ~> normal = <<>>

\* The normal buffer drains, unless the low buffer has the port.
NormalDrainsOrLowHasThePort ==
    normal # <<>> ~> normal = <<>> \/ LowHasThePort
=============================================================================
