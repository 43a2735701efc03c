---------------------------- MODULE TxPathProofs ----------------------------
(***************************************************************************)
(* Proofs about the transmit path, for every value of its constants.       *)
(*                                                                         *)
(* ControlInv says who may be where at the same time: what the two state   *)
(* machines, the JavaScript recovery and allow_zmq_higgs allow each other. *)
(* It is inductive by itself.  FramesInv, about the units in the normal    *)
(* buffer, is inductive together with it.                                  *)
(***************************************************************************)
EXTENDS TxPath, FiniteSetTheorems, Induction, TLAPS

TxWaits == dsp_state_pending = "TX_FSM_RECOVER_ERROR_2_A"
EdWaits == tx_dsp_state = "JS_HANDLE_FB_BUS_1"

\* While EventDsp boots, TxSchedule has not been started and the port is closed
\* to low-priority frames.
BootIsQuiet ==
    tx_dsp_state \in BootStates =>
        /\ dsp_state_pending \in {"PRE_BOOT", "DEBUG_EARLY_EVENT_0",
                                  "WAIT_EVENTS"}
        /\ ~doWarmup
        /\ ~allow_zmq_higgs

\* The JavaScript side is busy, asked or has answered only while one of the
\* state machines waits for it, and it is in one of these three phases.
RecoveryPhases ==
    /\ (js_step # "monitor" \/ request \/ result) => (TxWaits \/ EdWaits)
    /\ result => js_step = "monitor" /\ ~request /\ ~recovering
    /\ js_step # "monitor" => ~request /\ ~result

\* The thread is inside the handler of TX_SEND_BUSY_WAIT, or between handlers.
StepInBusyWait == step # "top" => dsp_state_pending = "TX_SEND_BUSY_WAIT"

\* What WAIT_TX_SCHEDULE_EXIT takes for asleep.
Asleep ==
    dsp_state = "WAIT_EVENTS" =>
        dsp_state_pending \in {"WAIT_EVENTS", "DEBUG_TX_MAPMOV_0"}

ControlInv ==
    /\ BootIsQuiet
    /\ RecoveryPhases
    /\ StepInBusyWait
    /\ Asleep
    /\ DataModeKeepsLowOut

\* All that ControlInv speaks of.
control == <<allow_zmq_higgs, dsp_state, dsp_state_pending, step, doWarmup,
             request, result, recovering, js_step, tx_dsp_state>>

\* A step that touches nothing ControlInv speaks of preserves it.
LEMMA ControlStutters ==
    ASSUME ControlInv, UNCHANGED control
    PROVE  ControlInv'
BY DEF ControlInv, BootIsQuiet, RecoveryPhases, StepInBusyWait, Asleep,
       DataModeKeepsLowOut, control, TxWaits, EdWaits, BootStates, RecoverStates

\* All threads at their first state, the recovery idle and the port closed.
LEMMA ControlInit == Init => ControlInv
BY DEF Init, FlushInit, TxInit, JsInit, EdInit, ControlInv, BootIsQuiet,
       RecoveryPhases, StepInBusyWait, Asleep, DataModeKeepsLowOut, TxWaits,
       EdWaits, BootStates, RecoverStates

-----------------------------------------------------------------------------
(* TxSchedule.                                                             *)

\* Every state of tickFsmSchedule preserves ControlInv.
LEMMA TxControl ==
    ASSUME ControlInv, TxScheduleStep
    PROVE  ControlInv'
<1> USE DEF ControlInv, BootIsQuiet, RecoveryPhases, StepInBusyWait, Asleep,
            DataModeKeepsLowOut, TxWaits, EdWaits, BootStates, RecoverStates,
            In, Go, settings, edVars
<1> UNCHANGED <<js_step, recovering, tx_dsp_state>>
  BY DEF TxScheduleStep
<1>1. CASE TxLocalNext /\ UNCHANGED settings
  <2>1. CASE PreBoot
    BY <1>1, <2>1 DEF PreBoot, flushVars, quiet
  <2>2. CASE DebugEarlyEvent
    BY <1>1, <2>2 DEF DebugEarlyEvent, flushVars, quiet
  <2>3. CASE WaitEvents
    BY <1>1, <2>3 DEF WaitEvents, flushVars, quiet
  <2>4. CASE DebugTxMapmov0
    BY <1>1, <2>4 DEF DebugTxMapmov0, quiet
  <2>5. CASE DebugTxMapmov1
    BY <1>1, <2>5 DEF DebugTxMapmov1, flushVars, quiet
  <2>6. CASE DebugTxMapmov2
    BY <1>1, <2>6 DEF DebugTxMapmov2, flushVars, quiet
  <2>7. CASE PeriodicSchedule
    BY <1>1, <2>7 DEF PeriodicSchedule, AllowInDataMode, quiet
  <2>8. CASE BusyWaitError
    BY <1>1, <2>8 DEF BusyWaitError, GoRecover, flushVars, quiet
  <2>9. CASE BusyWaitTop
    BY <1>1, <2>9 DEF BusyWaitTop, LowOrAgain, flushVars
  <2>10. CASE Pull
    BY <1>1, <2>10 DEF Pull, busyRest, flushVars
  <2>11. CASE WaitLate
    BY <1>1, <2>11 DEF WaitLate, busyRest, flushVars
  <2>12. CASE WaitSkip
    BY <1>1, <2>12 DEF WaitSkip, busyRest, flushVars
  <2>13. CASE SendSmall
    BY <1>1, <2>13 DEF SendSmall, SendDone, sendRest
  <2>14. CASE SendSplitA
    BY <1>1, <2>14 DEF SendSplitA, sendRest
  <2>15. CASE SendSplitB
    BY <1>1, <2>15 DEF SendSplitB, SendDone, sendRest
  <2>16. CASE BusyWaitTail
    BY <1>1, <2>16 DEF BusyWaitTail, LowOrAgain, flushVars
  <2>17. CASE SendLowPri0
    BY <1>1, <2>17 DEF SendLowPri0, flushVars, quiet
  <2>18. CASE SendLowPri1
    BY <1>1, <2>18 DEF SendLowPri1, quiet
  <2>19. CASE SendLowPri2
    BY <1>1, <2>19 DEF SendLowPri2, AllowAfterLow, quiet
  <2>20. CASE RecoverError0A
    BY <1>1, <2>20 DEF RecoverError0A, recoverRest, quiet
  <2>21. CASE RecoverError0
    BY <1>1, <2>21 DEF RecoverError0, recoverRest, quiet
  <2>22. CASE RecoverError1
    BY <1>1, <2>22 DEF RecoverError1, recoverRest, quiet
  <2>23. CASE RecoverError2
    BY <1>1, <2>23 DEF RecoverError2, recoverRest, quiet
  <2>24. CASE RecoverError3
    BY <1>1, <2>24 DEF RecoverError3, recoverRest, quiet
  <2>25. CASE RecoverError4
    BY <1>1, <2>25 DEF RecoverError4, recoverRest, quiet
  <2> QED
    BY <1>1, <2>1, <2>2, <2>3, <2>4, <2>5, <2>6, <2>7, <2>8, <2>9, <2>10,
       <2>11, <2>12, <2>13, <2>14, <2>15, <2>16, <2>17, <2>18, <2>19, <2>20,
       <2>21, <2>22, <2>23, <2>24, <2>25 DEF TxLocalNext
<1>2. CASE RecoverError1A(TRUE) /\ request' = TRUE /\ UNCHANGED result
  BY <1>2 DEF RecoverError1A, recoverRest, quiet
<1>3. CASE RecoverError1A(FALSE) /\ UNCHANGED settings
  BY <1>3 DEF RecoverError1A, recoverRest, quiet
<1>4. CASE RecoverError2A(TRUE) /\ result /\ result' = FALSE /\ UNCHANGED request
  BY <1>4 DEF RecoverError2A, recoverRest, quiet
<1>5. CASE RecoverError2A(FALSE) /\ ~result /\ UNCHANGED settings
  BY <1>5 DEF RecoverError2A, recoverRest, quiet
<1> QED
  BY <1>1, <1>2, <1>3, <1>4, <1>5 DEF TxScheduleStep

-----------------------------------------------------------------------------
(* The other threads.                                                      *)

\* Every callback of the JavaScript recovery preserves ControlInv.
LEMMA JsControl ==
    ASSUME ControlInv, JsStep
    PROVE  ControlInv'
<1> USE DEF ControlInv, BootIsQuiet, RecoveryPhases, StepInBusyWait, Asleep,
            DataModeKeepsLowOut, TxWaits, EdWaits, BootStates, RecoverStates
<1> UNCHANGED <<dsp_state, dsp_state_pending, step, doWarmup, tx_dsp_state>>
  BY DEF JsStep, txVars, edVars
<1>1. CASE MonitorCleanRequest
  BY <1>1 DEF MonitorCleanRequest, flushVars
<1>2. ASSUME NEW midFrame \in BOOLEAN, ExamineCapture(midFrame)
      PROVE  ControlInv'
  BY <1>2 DEF ExamineCapture
<1>3. CASE ZrsAfterReset
  BY <1>3 DEF ZrsAfterReset
<1>4. CASE MarkOk
  BY <1>4 DEF MarkOk, flushVars
<1>5. CASE OldStyleReset
  BY <1>5 DEF OldStyleReset
<1>6. CASE SendStatusReply
  BY <1>6 DEF SendStatusReply
<1>7. CASE DoCheckAlive
  BY <1>7 DEF DoCheckAlive, flushVars
<1> QED
  BY <1>1, <1>2, <1>3, <1>4, <1>5, <1>6, <1>7 DEF JsStep, JsNext

\* Every state of tickFsmTx preserves ControlInv.
LEMMA EdControl ==
    ASSUME ControlInv, EventDspStep
    PROVE  ControlInv'
<1> USE DEF ControlInv, BootIsQuiet, RecoveryPhases, StepInBusyWait, Asleep,
            DataModeKeepsLowOut, TxWaits, EdWaits, BootStates, RecoverStates,
            EdGo, edRest, txVars, jsVars
<1>1. CASE EdBoot
  BY <1>1 DEF EdBoot, flushVars
<1>2. CASE AfterPreBoot
  BY <1>2 DEF AfterPreBoot
<1>3. CASE JsHandleFbBus0
  BY <1>3 DEF JsHandleFbBus0, flushVars
<1>4. CASE JsHandleFbBus1
  BY <1>4 DEF JsHandleFbBus1, ResultTaken, flushVars
<1>5. CASE DecideHowToBegin
  BY <1>5 DEF DecideHowToBegin
<1>6. CASE EdWaitEvents
  BY <1>6 DEF EdWaitEvents, flushVars
<1>7. CASE DuplexFine
  BY <1>7 DEF DuplexFine, flushVars
<1>8. CASE WaitTxScheduleExit
  BY <1>8 DEF WaitTxScheduleExit, TxScheduleAsleep
<1> QED
  BY <1>1, <1>2, <1>3, <1>4, <1>5, <1>6, <1>7, <1>8 DEF EventDspStep, EdNext

\* FlushHiggs writes nothing that ControlInv speaks of.
LEMMA FlushKeepsControl ==
    ASSUME FlushStep
    PROVE  UNCHANGED control
<1> UNCHANGED <<dsp_state, dsp_state_pending, step, doWarmup, request, result,
                recovering, js_step, tx_dsp_state>>
  BY DEF FlushStep, txVars, jsVars, edVars
<1> UNCHANGED allow_zmq_higgs
  BY DEF FlushStep, PetSendToHiggs, SendZmqHiggsNow, PetSendToHiggs2
<1> QED
  BY DEF control

\* Neither do the clock, the ringbus and the outside world.
LEMMA WorldKeepsControl ==
    ASSUME ClockStep \/ RadioStep \/ WorldStep
    PROVE  UNCHANGED control
<1> USE DEF control, flushVars, jsVars, edVars
<1>1. CASE ClockStep
  BY <1>1 DEF ClockStep, Tick
<1>2. CASE RadioStep
  BY <1>2 DEF RadioStep, Dispatch, LoseWord, RadioError, EpocReport, FillReport,
              txVars
<1>3. CASE WorldStep
  BY <1>3 DEF WorldStep, LowArrives, HandleJointTransmit, TunArrives,
              AskDebugDuplex, SelfSyncDone, NewEvent, txVars
<1> QED
  BY <1>1, <1>2, <1>3

\* The threads never get in each other's way as far as ControlInv goes.
THEOREM Control == Spec => []ControlInv
<1>1. ASSUME ControlInv, [Next]_vars
      PROVE  ControlInv'
  <2>1. CASE UNCHANGED vars
    <3> UNCHANGED control
      BY <2>1 DEF vars, flushVars, txVars, jsVars, edVars, control
    <3> QED
      BY <1>1, ControlStutters
  <2>2. CASE Next
    BY <1>1, <2>2, ControlStutters, TxControl, JsControl, EdControl,
       FlushKeepsControl, WorldKeepsControl DEF Next
  <2> QED
    BY <1>1, <2>1, <2>2
<1> QED
  BY <1>1, ControlInit, PTL DEF Spec

\* In data mode only TX_FSM_SEND_LOW_PRI_1 opens the port to low-priority
\* frames: PERIODIC_SCHEDULE_0 and the recovery states close it, and
\* WAIT_TX_SCHEDULE_EXIT of the other thread opens it only to a sleeping
\* TxSchedule.
THEOREM LowStaysOut == Spec => []DataModeKeepsLowOut
<1>1. ControlInv => DataModeKeepsLowOut
  BY DEF ControlInv
<1> QED
  BY <1>1, Control, PTL

\* While handle_feedback_bus_recovery.js recovers the radio, low-priority
\* frames are shut out, no packet of TxSchedule is half written, and the state
\* machine that asked is waiting.
THEOREM Exclusive == Spec => []RecoveryIsExclusive
<1>1. ControlInv => RecoveryIsExclusive
  BY DEF ControlInv, BootIsQuiet, RecoveryPhases, StepInBusyWait,
         DataModeKeepsLowOut, RecoveryIsExclusive, TxWaits, EdWaits,
         BootStates, RecoverStates
<1> QED
  BY <1>1, Control, PTL

\* runtime.js.recover_fb.request and .result are for one machine at a time,
\* although TX_FSM_RECOVER_ERROR_2_A and JS_HANDLE_FB_BUS_1 poll the same two
\* settings from two threads.
THEOREM OneTaker == Spec => []AnswerHasOneTaker
<1>1. ASSUME ControlInv PROVE AnswerHasOneTaker
  <2> DEFINE waiting == {m \in {"tx", "ed"} :
                            IF m = "tx" THEN TxWaits ELSE EdWaits}
  <2>1. ~(TxWaits /\ EdWaits)
    BY <1>1 DEF ControlInv, BootIsQuiet, TxWaits, EdWaits, BootStates
  <2>2. waiting = {} \/ waiting = {"tx"} \/ waiting = {"ed"}
    BY <2>1
  <2>3. Cardinality(waiting) <= 1
    <3>1. Cardinality({}) = 0
      BY FS_EmptySet
    <3>2. Cardinality({"tx"}) = 1 /\ Cardinality({"ed"}) = 1
      BY FS_Singleton
    <3> HIDE DEF waiting
    <3> QED
      BY <2>2, <3>1, <3>2
  <2>4. TxWaits \/ EdWaits => waiting # {}
    OBVIOUS
  <2>5. /\ result => waiting # {} /\ ~request /\ ~recovering
        /\ request => waiting # {}
    BY <1>1, <2>4 DEF ControlInv, RecoveryPhases
  <2> QED
    BY <2>3, <2>5 DEF AnswerHasOneTaker, TxWaits, EdWaits
<1> QED
  BY <1>1, Control, PTL

-----------------------------------------------------------------------------
(* Frames in the normal buffer.                                            *)

\* v may come right after u on the port.
Follows(u, v) == u.left > 0 => v.kind = u.kind /\ v.left = u.left - 1

Chained(s) == \A i \in 1 .. Len(s) - 1 : Follows(s[i], s[i + 1])

\* The last unit of normal, or what was sent last when that is empty.
LastUnit == IF normal = <<>> THEN wire ELSE normal[Len(normal)]

\* Only between SendSplitA and SendSplitB does the last frame lack its end.
LastUnitIsRight ==
    IF step = "splitb" THEN LastUnit = [kind |-> "user", left |-> 1]
    ELSE LastUnit.left = 0

FramesInv ==
    /\ normal \in Seq(Unit) /\ wire \in Unit
    /\ Chained(normal)
    /\ normal # <<>> => Follows(wire, normal[1])
    /\ LastUnitIsRight
    /\ sending_to = "LOW" => wire.left = 0
    /\ flush_pc = "pet" => sending_to = "NORMAL"

\* All that FramesInv speaks of besides step.
frames == <<normal, wire, sending_to, flush_pc>>

\* Appending frames keeps the chain when the last unit does.
LEMMA AppendFrame ==
    ASSUME FramesInv,
           NEW f \in Seq(Unit), f # <<>>, Chained(f),
           Follows(LastUnit, f[1]),
           SendToHiggs(f), UNCHANGED <<wire, sending_to, flush_pc>>,
           step' = "splitb" => f[Len(f)] = [kind |-> "user", left |-> 1],
           step' # "splitb" => f[Len(f)].left = 0
    PROVE  FramesInv'
<1>1. /\ normal' \in Seq(Unit)
      /\ Len(normal') = Len(normal) + Len(f)
      /\ Len(f) \in Nat \ {0} /\ Len(normal) \in Nat
      /\ \A i \in 1 .. Len(normal') :
             normal'[i] = IF i <= Len(normal) THEN normal[i]
                          ELSE f[i - Len(normal)]
  BY DEF SendToHiggs, FramesInv
<1>2. Chained(normal')
  <2> SUFFICES ASSUME NEW i \in 1 .. Len(normal') - 1
               PROVE  Follows(normal'[i], normal'[i + 1])
    BY DEF Chained
  <2>1. CASE i < Len(normal)
    <3>1. normal'[i] = normal[i] /\ normal'[i + 1] = normal[i + 1]
      BY <1>1, <2>1
    <3> QED
      BY <1>1, <2>1, <3>1 DEF FramesInv, Chained
  <2>2. CASE i = Len(normal)
    <3>1. normal'[i] = normal[i] /\ normal'[i + 1] = f[1]
      BY <1>1, <2>2
    <3>2. LastUnit = normal[i]
      BY <1>1, <2>2 DEF LastUnit, FramesInv
    <3> QED
      BY <3>1, <3>2
  <2>3. CASE i > Len(normal)
    <3>1. /\ normal'[i] = f[i - Len(normal)]
          /\ normal'[i + 1] = f[(i - Len(normal)) + 1]
          /\ i - Len(normal) \in 1 .. Len(f) - 1
      BY <1>1, <2>3
    <3> QED
      BY <3>1 DEF Chained
  <2> QED
    BY <1>1, <2>1, <2>2, <2>3
<1>3. Follows(wire', normal'[1])
  <2>1. CASE normal = <<>>
    BY <1>1, <2>1 DEF LastUnit
  <2>2. CASE normal # <<>>
    BY <1>1, <2>2 DEF FramesInv
  <2> QED
    BY <2>1, <2>2
<1>4. LastUnit' = f[Len(f)]
  BY <1>1 DEF LastUnit
<1> QED
  BY <1>1, <1>2, <1>3, <1>4 DEF FramesInv, LastUnitIsRight

\* A step that leaves the buffer and the port alone preserves FramesInv.
LEMMA FramesStutter ==
    ASSUME FramesInv, UNCHANGED frames, (step = "splitb") <=> (step' = "splitb")
    PROVE  FramesInv'
BY DEF FramesInv, frames, Chained, Follows, LastUnitIsRight, LastUnit

\* A frame of one unit.
LEMMA SingleUnit ==
    ASSUME NEW k \in Kinds
    PROVE  /\ <<[kind |-> k, left |-> 0]>> \in Seq(Unit)
           /\ <<[kind |-> k, left |-> 0]>> # <<>>
           /\ Chained(<<[kind |-> k, left |-> 0]>>)
           /\ Len(<<[kind |-> k, left |-> 0]>>) = 1
           /\ <<[kind |-> k, left |-> 0]>>[1].left = 0
BY DEF Unit, Chained

\* Appending one when no frame is half written.
LEMMA AppendUnit ==
    ASSUME FramesInv, NEW k \in Kinds, LastUnit.left = 0,
           SendToHiggs(<<[kind |-> k, left |-> 0]>>),
           UNCHANGED <<wire, sending_to, flush_pc>>, step' # "splitb"
    PROVE  FramesInv'
<1> DEFINE f == <<[kind |-> k, left |-> 0]>>
<1>1. f \in Seq(Unit) /\ f # <<>> /\ Chained(f) /\ f[Len(f)].left = 0
  BY SingleUnit
<1>2. Follows(LastUnit, f[1])
  BY DEF Follows
<1>3. SendToHiggs(f)
  OBVIOUS
<1> HIDE DEF f
<1> QED
  BY <1>1, <1>2, <1>3, AppendFrame

\* split_a is a frame without its last unit, a small packet is one unit.
LEMMA UserFrames ==
    /\ SplitA \in Seq(Unit) /\ SplitA # <<>> /\ Chained(SplitA)
    /\ SplitA[Len(SplitA)] = [kind |-> "user", left |-> 1]
    /\ UserFrame(1) = <<[kind |-> "user", left |-> 0]>>
<1>1. UserUnits \in Nat /\ UserUnits >= 2
  BY TxAssumption
<1>2. /\ Len(SplitA) = UserUnits - 1
      /\ SplitA \in Seq(Unit)
      /\ \A i \in 1 .. UserUnits - 1 :
             SplitA[i] = [kind |-> "user", left |-> UserUnits - i]
  BY <1>1 DEF SplitA, UserFrame, Unit, Kinds
<1>3. Chained(SplitA)
  <2> SUFFICES ASSUME NEW i \in 1 .. UserUnits - 2
               PROVE  Follows(SplitA[i], SplitA[i + 1])
    BY <1>1, <1>2 DEF Chained
  <2>1. /\ SplitA[i] = [kind |-> "user", left |-> UserUnits - i]
        /\ SplitA[i + 1] = [kind |-> "user", left |-> UserUnits - (i + 1)]
    BY <1>1, <1>2
  <2> QED
    BY <1>1, <2>1 DEF Follows
<1>4. UserFrame(1) = <<[kind |-> "user", left |-> 0]>>
  BY DEF UserFrame
<1> QED
  BY <1>1, <1>2, <1>3, <1>4

\* TxSchedule appends to normal in five places only, and with a packet half
\* written it can do nothing but write the other half.
LEMMA TxFrames ==
    ASSUME ControlInv, FramesInv, TxScheduleStep
    PROVE  FramesInv'
<1> DEFINE Appends == \/ SendSmall \/ SendSplitA \/ SendSplitB
                      \/ RecoverError2 \/ RecoverError3
<1>1. CASE SendSmall
  <2>1. step # "splitb" /\ step' # "splitb" /\ SendToHiggs(UserFrame(1))
        /\ UNCHANGED <<wire, sending_to, flush_pc>>
    BY <1>1 DEF SendSmall, SendDone, sendRest, flushOwn
  <2>2. LastUnit.left = 0
    BY <2>1 DEF FramesInv, LastUnitIsRight
  <2> QED
    BY <2>1, <2>2, AppendUnit, UserFrames DEF Kinds
<1>2. CASE SendSplitA
  <2>1. step # "splitb" /\ step' = "splitb" /\ SendToHiggs(SplitA)
        /\ UNCHANGED <<wire, sending_to, flush_pc>>
    BY <1>2 DEF SendSplitA, sendRest, flushOwn
  <2>2. LastUnit.left = 0
    BY <2>1 DEF FramesInv, LastUnitIsRight
  <2> QED
    BY <2>1, <2>2, AppendFrame, UserFrames DEF Follows
<1>3. CASE SendSplitB
  <2>1. step = "splitb" /\ step' # "splitb" /\ SendToHiggs(SplitB)
        /\ UNCHANGED <<wire, sending_to, flush_pc>>
    BY <1>3 DEF SendSplitB, SendDone, sendRest, flushOwn
  <2>2. LastUnit = [kind |-> "user", left |-> 1]
    BY <2>1 DEF FramesInv, LastUnitIsRight
  <2>3. Follows(LastUnit, SplitB[1])
    BY <2>2 DEF Follows, SplitB
  <2> QED
    BY <2>1, <2>3, AppendFrame, SingleUnit DEF SplitB, Kinds
<1>4. CASE RecoverError2 \/ RecoverError3
  <2>1. step = "top" /\ step' = "top" /\ UNCHANGED <<wire, sending_to, flush_pc>>
    BY <1>4 DEF RecoverError2, RecoverError3, In, recoverRest, quiet, flushOwn,
                ControlInv, StepInBusyWait
  <2>2. LastUnit.left = 0
    BY <2>1 DEF FramesInv, LastUnitIsRight
  <2>3. UNCHANGED normal \/ SendToHiggs(Zeros) \/ SendToHiggs(StatusReply)
    BY <1>4 DEF RecoverError2, RecoverError3
  <2>4. CASE UNCHANGED normal
    BY <2>1, <2>4, FramesStutter DEF frames
  <2>5. CASE SendToHiggs(Zeros)
    BY <2>1, <2>2, <2>5, AppendUnit DEF Zeros, Kinds
  <2>6. CASE SendToHiggs(StatusReply)
    BY <2>1, <2>2, <2>6, AppendUnit DEF StatusReply, Kinds
  <2> QED
    BY <2>3, <2>4, <2>5, <2>6
<1>5. CASE ~Appends
  <2>1. UNCHANGED frames
    <3> USE DEF frames, flushVars, flushOwn
    <3>1. CASE TxLocalNext
      BY <1>5, <3>1 DEF TxLocalNext, PreBoot, DebugEarlyEvent, WaitEvents,
        DebugTxMapmov0, DebugTxMapmov1, DebugTxMapmov2, PeriodicSchedule,
        BusyWaitError, BusyWaitTop, Pull, WaitLate, WaitSkip, BusyWaitTail,
        SendLowPri0, SendLowPri1, SendLowPri2, RecoverError0A, RecoverError0,
        RecoverError1, RecoverError4, recoverRest
    <3>2. CASE ~TxLocalNext
      BY <3>2 DEF TxScheduleStep, RecoverError1A, RecoverError2A, recoverRest
    <3> QED
      BY <3>1, <3>2
  <2>2. (step = "splitb") <=> (step' = "splitb")
    <3> USE DEF quiet
    <3>1. CASE TxLocalNext
      BY <1>5, <3>1 DEF TxLocalNext, PreBoot, DebugEarlyEvent, WaitEvents,
        DebugTxMapmov0, DebugTxMapmov1, DebugTxMapmov2, PeriodicSchedule,
        BusyWaitError, BusyWaitTop, Pull, WaitLate, WaitSkip, BusyWaitTail,
        SendLowPri0, SendLowPri1, SendLowPri2, RecoverError0A, RecoverError0,
        RecoverError1, RecoverError4, recoverRest
    <3>2. CASE ~TxLocalNext
      BY <3>2 DEF TxScheduleStep, RecoverError1A, RecoverError2A, recoverRest
    <3> QED
      BY <3>1, <3>2
  <2> QED
    BY <2>1, <2>2, FramesStutter
<1> QED
  BY <1>1, <1>2, <1>3, <1>4, <1>5

\* The recovery appends zeros and status frames, never into a packet that is
\* half written.
LEMMA JsFrames ==
    ASSUME ControlInv, FramesInv, JsStep
    PROVE  FramesInv'
<1>1. UNCHANGED <<step, wire, sending_to, flush_pc>>
  BY DEF JsStep, JsNext, MonitorCleanRequest, ExamineCapture, ZrsAfterReset,
         MarkOk, OldStyleReset, SendStatusReply, DoCheckAlive, txVars,
         flushVars, flushOwn
<1>2. \/ UNCHANGED normal
      \/ js_step # "monitor" /\ (SendToHiggs(FlushZeros) \/ SendToHiggs(CheckAlive))
  BY DEF JsStep, JsNext, MonitorCleanRequest, ExamineCapture, ZrsAfterReset,
         MarkOk, OldStyleReset, SendStatusReply, DoCheckAlive, flushVars
<1>3. CASE UNCHANGED normal
  BY <1>1, <1>3, FramesStutter DEF frames
<1>4. CASE js_step # "monitor"
  <2>1. step = "top"
    BY <1>4 DEF ControlInv, RecoveryPhases, BootIsQuiet, StepInBusyWait,
                TxWaits, EdWaits, BootStates
  <2>2. LastUnit.left = 0
    BY <2>1 DEF FramesInv, LastUnitIsRight
  <2>3. CASE SendToHiggs(FlushZeros)
    BY <1>1, <2>1, <2>2, <2>3, AppendUnit DEF FlushZeros, Kinds
  <2>4. CASE SendToHiggs(CheckAlive)
    BY <1>1, <2>1, <2>2, <2>4, AppendUnit DEF CheckAlive, Kinds
  <2> QED
    BY <1>2, <1>3, <2>3, <2>4
<1> QED
  BY <1>2, <1>3, <1>4

\* LOW takes the port only when no frame is on it: there is nothing in normal,
\* and low-priority frames are allowed, so that TxSchedule is not between its
\* two writes.
LEMMA LowTakesAnIdlePort ==
    ASSUME ControlInv, FramesInv, UpdateSendingFlag, sending_to' = "LOW"
    PROVE  wire.left = 0
<1>1. CASE sending_to = "LOW"
  BY <1>1 DEF FramesInv
<1>2. CASE sending_to # "LOW"
  <2>1. normal = <<>> /\ allow_zmq_higgs
    BY <1>2 DEF UpdateSendingFlag, NextSendingTo, AfterExitRequest, LowMayStart
  <2>2. step # "splitb"
    BY <2>1 DEF ControlInv, StepInBusyWait, DataModeKeepsLowOut
  <2> QED
    BY <2>1, <2>2 DEF FramesInv, LastUnitIsRight, LastUnit
<1> QED
  BY <1>1, <1>2

\* FlushHiggs moves whole frames to the port, unit after unit.
LEMMA FlushFrames ==
    ASSUME ControlInv, FramesInv, FlushStep
    PROVE  /\ FramesInv'
           /\ wire' # wire => Follows(wire, wire')
<1> UNCHANGED step
  BY DEF FlushStep, txVars
<1>1. CASE PetSendToHiggs
  <2>1. UNCHANGED <<normal, wire>> /\ UpdateSendingFlag
    BY <1>1 DEF PetSendToHiggs
  <2>2. flush_pc' = "pet" => sending_to' = "NORMAL"
    BY <1>1 DEF PetSendToHiggs
  <2> QED
    BY <2>1, <2>2, LowTakesAnIdlePort
       DEF FramesInv, Chained, Follows, LastUnitIsRight, LastUnit
<1>2. CASE SendZmqHiggsNow
  <2>1. UNCHANGED normal /\ UpdateSendingFlag /\ flush_pc' = "timer"
    BY <1>2 DEF SendZmqHiggsNow
  <2>2. \/ UNCHANGED wire
        \/ wire' = [kind |-> "low", left |-> 0] /\ sending_to' = "LOW"
    BY <1>2 DEF SendZmqHiggsNow, InspectLowPri
  <2>3. CASE UNCHANGED wire
    BY <2>1, <2>3, LowTakesAnIdlePort
       DEF FramesInv, Chained, Follows, LastUnitIsRight, LastUnit
  <2>4. CASE wire' = [kind |-> "low", left |-> 0] /\ sending_to' = "LOW"
    <3>1. wire.left = 0
      BY <2>1, <2>4, LowTakesAnIdlePort
    <3>2. step = "splitb" => normal # <<>>
      BY <3>1 DEF FramesInv, LastUnitIsRight, LastUnit
    <3>3. wire' \in Unit /\ wire'.left = 0
      BY <2>4 DEF Unit, Kinds
    <3> QED
      BY <2>1, <3>1, <3>2, <3>3
         DEF FramesInv, Chained, Follows, LastUnitIsRight, LastUnit
  <2> QED
    BY <2>2, <2>3, <2>4
<1>3. CASE PetSendToHiggs2(FALSE)
  <2>1. UNCHANGED <<normal, wire, sending_to>> /\ flush_pc = "pet"
    BY <1>3 DEF PetSendToHiggs2
  <2> QED
    BY <2>1 DEF FramesInv, Chained, Follows, LastUnitIsRight, LastUnit
<1>4. CASE PetSendToHiggs2(TRUE)
  <2>1. /\ normal # <<>> /\ wire' = Head(normal) /\ normal' = Tail(normal)
        /\ UNCHANGED sending_to /\ flush_pc = "pet"
    BY <1>4 DEF PetSendToHiggs2
  <2>2. /\ wire' = normal[1] /\ wire' \in Unit
        /\ normal' \in Seq(Unit)
        /\ Len(normal) \in Nat \ {0}
        /\ Len(normal') = Len(normal) - 1
        /\ \A i \in 1 .. Len(normal') : normal'[i] = normal[i + 1]
    BY <2>1 DEF FramesInv
  <2>3. Chained(normal')
    <3> SUFFICES ASSUME NEW i \in 1 .. Len(normal') - 1
                 PROVE  Follows(normal'[i], normal'[i + 1])
      BY DEF Chained
    <3>1. /\ normal'[i] = normal[i + 1] /\ normal'[i + 1] = normal[(i + 1) + 1]
          /\ i + 1 \in 1 .. Len(normal) - 1
      BY <2>2
    <3> QED
      BY <3>1 DEF FramesInv, Chained
  <2>4. normal' # <<>> => Follows(wire', normal'[1])
    <3> SUFFICES ASSUME normal' # <<>> PROVE Follows(wire', normal'[1])
      OBVIOUS
    <3>1. Len(normal') >= 1
      BY <2>2
    <3>2. normal'[1] = normal[1 + 1] /\ 1 \in 1 .. Len(normal) - 1
      BY <2>2, <3>1
    <3> QED
      BY <2>2, <3>2 DEF FramesInv, Chained
  <2>5. LastUnit' = LastUnit
    <3>1. CASE normal' = <<>>
      <4>1. Len(normal) = 1
        BY <2>2, <3>1
      <4> QED
        BY <2>1, <2>2, <3>1, <4>1 DEF LastUnit
    <3>2. CASE normal' # <<>>
      <4>1. Len(normal') \in 1 .. Len(normal')
        BY <2>2, <3>2
      <4>2. normal'[Len(normal')] = normal[Len(normal)]
        BY <2>2, <4>1
      <4> QED
        BY <2>1, <3>2, <4>2 DEF LastUnit
    <3> QED
      BY <3>1, <3>2
  <2>6. Follows(wire, wire')
    BY <2>1, <2>2 DEF FramesInv
  <2>7. LastUnitIsRight'
    BY <2>5 DEF FramesInv, LastUnitIsRight
  <2> QED
    BY <2>1, <2>2, <2>3, <2>4, <2>6, <2>7 DEF FramesInv
<1> QED
  BY <1>1, <1>2, <1>3, <1>4 DEF FlushStep

\* Nobody else writes to the normal buffer.
LEMMA OthersKeepFrames ==
    ASSUME EventDspStep \/ ClockStep \/ RadioStep \/ WorldStep
    PROVE  UNCHANGED <<frames, step>>
<1> USE DEF frames, flushVars, flushOwn, edRest, txVars
<1>1. CASE EventDspStep
  BY <1>1 DEF EventDspStep, EdNext, EdBoot, AfterPreBoot, JsHandleFbBus0,
              JsHandleFbBus1, DecideHowToBegin, EdWaitEvents, DuplexFine,
              WaitTxScheduleExit
<1>2. CASE ClockStep
  BY <1>2 DEF ClockStep, Tick
<1>3. CASE RadioStep
  BY <1>3 DEF RadioStep, Dispatch, LoseWord, RadioError, EpocReport, FillReport
<1>4. CASE WorldStep
  BY <1>4 DEF WorldStep, LowArrives, HandleJointTransmit, TunArrives,
              AskDebugDuplex, SelfSyncDone, NewEvent
<1> QED
  BY <1>1, <1>2, <1>3, <1>4

\* Nothing has been sent, nothing is waiting.
LEMMA FramesInit == Init => FramesInv
<1> SUFFICES ASSUME Init PROVE FramesInv
  OBVIOUS
<1>1. /\ normal = <<>> /\ wire = [kind |-> "zeros", left |-> 0]
      /\ sending_to = "IDLE" /\ flush_pc = "timer" /\ step = "top"
  BY DEF Init, FlushInit, TxInit
<1> QED
  BY <1>1 DEF FramesInv, Chained, LastUnitIsRight, LastUnit, Unit, Kinds

\* FramesInv is preserved by every step, and what goes on the port follows what
\* went before.
LEMMA FramesNext ==
    ASSUME ControlInv, FramesInv, [Next]_vars
    PROVE  /\ FramesInv'
           /\ wire' # wire => Follows(wire, wire')
<1>1. CASE UNCHANGED vars
  <2>1. UNCHANGED <<frames, step>>
    BY <1>1 DEF vars, flushVars, txVars, frames
  <2> QED
    BY <2>1, FramesStutter DEF frames
<1>2. CASE FlushStep
  BY <1>2, FlushFrames
<1>3. CASE TxScheduleStep
  <2>1. UNCHANGED wire
    <3> USE DEF flushVars, flushOwn
    <3>1. CASE TxLocalNext
      BY <3>1 DEF TxLocalNext, PreBoot, DebugEarlyEvent, WaitEvents,
        DebugTxMapmov0, DebugTxMapmov1, DebugTxMapmov2, PeriodicSchedule,
        BusyWaitError, BusyWaitTop, Pull, WaitLate, WaitSkip, BusyWaitTail,
        SendSmall, SendSplitA, SendSplitB, sendRest,
        SendLowPri0, SendLowPri1, SendLowPri2, RecoverError0A, RecoverError0,
        RecoverError1, RecoverError2, RecoverError3, RecoverError4, recoverRest
    <3>2. CASE ~TxLocalNext
      BY <1>3, <3>2 DEF TxScheduleStep, RecoverError1A, RecoverError2A,
                        recoverRest
    <3> QED
      BY <3>1, <3>2
  <2> QED
    BY <1>3, <2>1, TxFrames
<1>4. CASE JsStep
  <2>1. UNCHANGED wire
    BY <1>4 DEF JsStep, JsNext, MonitorCleanRequest, ExamineCapture,
         ZrsAfterReset, MarkOk, OldStyleReset, SendStatusReply, DoCheckAlive,
         flushVars, flushOwn
  <2> QED
    BY <1>4, <2>1, JsFrames
<1>5. CASE EventDspStep \/ ClockStep \/ RadioStep \/ WorldStep
  BY <1>5, OthersKeepFrames, FramesStutter DEF frames
<1> QED
  BY <1>1, <1>2, <1>3, <1>4, <1>5 DEF Next

\* No frame on the data port is cut by another one, for packets of any number
\* of units: neither TxSchedule's two writes of a packet nor the recovery's
\* zeros nor the low-priority frames of sendZmqHiggsNow get in between.
THEOREM Whole == Spec => FramesAreWhole
<1>1. FramesInv /\ ControlInv /\ [Next]_vars => FramesInv'
  BY FramesNext
<1>2. FramesInv /\ ControlInv /\ [Next]_vars
        => [wire.left > 0 /\ wire' # wire =>
                wire'.kind = wire.kind /\ wire'.left = wire.left - 1]_vars
  BY FramesNext DEF Follows
<1> QED
  BY <1>1, <1>2, FramesInit, Control, PTL DEF Spec, FramesAreWhole

-----------------------------------------------------------------------------
(***************************************************************************)
(* Proofs about the joint packets of the transmit path and the types of    *)
(* its variables, for every value of the constants.                        *)
(*                                                                         *)
(* JointInv says where a joint packet may be: with the arbiter, in         *)
(* beamform_buffer, in the hands of TxSchedule (and then perhaps in tun or *)
(* in the data pulled from it), reported or sent, and that it is in one of *)
(* these places only.                                                      *)
(***************************************************************************)

Queued(b) == {b[i] : i \in 1 .. Len(b)}
NoRepeat(b) == \A i, k \in 1 .. Len(b) : b[i] = b[k] => i = k

JointRec == [valid : {0, 1, 2}, cur : Joint \cup {NoPacket}, buf : Seq(Joint),
             tun : SUBSET (Joint \cup OwnTun),
             nacked : SUBSET (Joint \cup {NoPacket})]

\* What may be in tun, or pulled from it, of the joint packets.
InHand(valid, cur) == IF valid = 2 THEN {cur} ELSE {}

\* Every joint packet is in one place.
OnePlace(j) ==
    /\ NoRepeat(j.buf)
    /\ Queued(j.buf) \cap (toCome \cup aired \cup j.nacked) = {}
    /\ toCome \cap (aired \cup j.nacked) = {}
    /\ j.cur \notin toCome /\ j.cur \notin Queued(j.buf)
    /\ j.valid # 0 => j.cur \in Joint /\ j.cur \notin j.nacked
    /\ j.tun \cap Joint \subseteq InHand(j.valid, j.cur)

\* The packet in hand has not been sent.
NotSent(j) == j.valid # 0 => j.cur \notin aired

\* A packet pulled from tun in time can be sent in the first epoc only.
InTime ==
    (step \in {"pull", "wait"} /\ ~isDebugDuplexPacket /\ sleep >= 0)
        => now + sleep < SCHEDULE_FRAMES

\* The places of the joint packets: OnePlace of the record JointState, variable
\* by variable.
Placed ==
    /\ pending_valid \in {0, 1, 2} /\ pending \in Joint \cup {NoPacket}
    /\ beamform_buffer \in Seq(Joint) /\ tun \in SUBSET (Joint \cup OwnTun)
    /\ nacked \in SUBSET (Joint \cup {NoPacket})
    /\ aired \subseteq Joint /\ toCome \subseteq Joint
    /\ NoRepeat(beamform_buffer)
    /\ Queued(beamform_buffer) \cap (toCome \cup aired \cup nacked) = {}
    /\ toCome \cap (aired \cup nacked) = {}
    /\ pending \notin toCome /\ pending \notin Queued(beamform_buffer)
    /\ pending_valid # 0 => pending \in Joint /\ pending \notin nacked
    /\ tun \cap Joint \subseteq InHand(pending_valid, pending)

\* What is in hand depends on how far the handler of TX_SEND_BUSY_WAIT got.
Handled ==
    /\ step # "splitb" => (pending_valid # 0 => pending \notin aired)
    /\ step \in {"wait", "splitb"} => tun \cap Joint = {}
    /\ step = "wait" => d \cap Joint \subseteq InHand(pending_valid, pending)
    /\ step \in {"pull", "wait"} => (isDebugDuplexPacket <=> pending_valid = 0)

JointInv ==
    /\ Placed /\ Handled
    /\ now \in Nat /\ sleep \in Int /\ InTime

-----------------------------------------------------------------------------
(* The loop of dump_old iterations.                                        *)

\* One iteration.
Turn(j) == LoadZmqBeamform(LoadPendingMember(j))

\* What holds of the joint packets and is kept by every iteration holds after
\* the loop.
LEMMA LoadedIn ==
    ASSUME NEW S, JointState \in S, \A j \in S : Turn(j) \in S
    PROVE  Loaded \in S
  <1> DEFINE a == JointState
             n == DumpOld
             step1 == [k \in 1 .. n |-> [j \in S |-> Turn(j)]]
             P(q) == q = [k \in 0 .. n |-> IF k = 0 THEN a ELSE Turn(q[k - 1])]
  <1>1. LoadedAfter = CHOOSE q : P(q)
    BY DEF LoadedAfter, Turn
  <1>2. n \in Nat /\ a \in S
    BY TxAssumption
  <1>3. Loaded = LoadedAfter[n]
    BY DEF Loaded
  <1> HIDE DEF n, a
  <1>4. step1 \in [1 .. n -> [S -> S]]
    OBVIOUS
  <1>5. \A k \in 1 .. n, j \in S : step1[k][j] = Turn(j)
    OBVIOUS
  <1> HIDE DEF step1
  <1>6. PICK r \in [0 .. n -> S] : r[0] = a /\ \A k \in 1 .. n : r[k] = step1[k][r[k - 1]]
    <2>1. Iterates(S, a, n, step1)
      BY <1>2, <1>4, Iteration
    <2> QED BY <2>1 DEF Iterates
  <1>7. \A k \in 0 .. n : r[k] = IF k = 0 THEN a ELSE Turn(r[k - 1])
    <2> TAKE k \in 0 .. n
    <2>1. CASE k = 0
      BY <1>6, <2>1
    <2>2. CASE k # 0
      <3>1. k \in 1 .. n /\ k - 1 \in 0 .. n
        BY <1>2, <2>2
      <3>2. r[k - 1] \in S
        BY <3>1
      <3> QED BY <1>5, <1>6, <2>2, <3>1, <3>2
    <2> QED BY <2>1, <2>2
  <1>8. P(r)
    <2>1. r = [k \in 0 .. n |-> r[k]]
      OBVIOUS
    <2> QED BY <1>7, <2>1
  <1>9. ASSUME NEW q, P(q) PROVE q[n] \in S
    <2> DEFINE T == {k \in Nat : k \in 0 .. n => q[k] \in S}
    <2>1. \A k \in 0 .. n : q[k] = IF k = 0 THEN a ELSE Turn(q[k - 1])
      BY <1>9
    <2>2. 0 \in T
      BY <1>2, <2>1
    <2>3. ASSUME NEW k \in Nat, k \in T PROVE k + 1 \in T
      <3> SUFFICES ASSUME k + 1 \in 0 .. n PROVE q[k + 1] \in S
        OBVIOUS
      <3>1. k \in 0 .. n /\ q[k] \in S
        BY <1>2, <2>3
      <3>2. q[k + 1] = Turn(q[k])
        <4>1. k + 1 # 0 /\ (k + 1) - 1 = k
          OBVIOUS
        <4> QED BY <2>1, <4>1
      <3> QED BY <3>1, <3>2
    <2> HIDE DEF T
    <2>4. Nat \subseteq T
      BY <2>2, <2>3, SetInduction
    <2> QED BY <1>2, <2>4 DEF T
  <1> HIDE DEF P
  <1>10. P(CHOOSE q : P(q))
    BY <1>8
  <1> QED BY <1>1, <1>3, <1>9, <1>10

\* Packets of the arbiter are neither placeholders nor the node's own.
LEMMA JointFacts ==
    /\ NoPacket \notin Joint
    /\ \A p \in Joint : p.epoc \in Nat /\ p.ts \in Nat
    /\ \A p \in OwnTun : p \notin Joint
  <1>1. \A p \in Joint : p \in [epoc : Nat, ts : Nat, id : Nat \ {0}]
    BY TxAssumption
  <1>2. OwnTun \cap Joint = {}
    BY TxAssumption
  <1>3. NoPacket.id = 0
    BY DEF NoPacket
  <1>4. \A p \in Joint : p.epoc \in Nat /\ p.ts \in Nat /\ p.id # 0
    BY <1>1
  <1> QED BY <1>2, <1>3, <1>4

\* The head of the queue is in no other place.
LEMMA QueueHead ==
    ASSUME NEW b \in Seq(Joint), b # <<>>, NoRepeat(b)
    PROVE  /\ Head(b) \in Joint /\ Head(b) \in Queued(b)
           /\ Tail(b) \in Seq(Joint) /\ NoRepeat(Tail(b))
           /\ Queued(Tail(b)) \subseteq Queued(b)
           /\ Head(b) \notin Queued(Tail(b))
  <1>1. /\ Len(b) \in Nat \ {0} /\ Head(b) = b[1] /\ b[1] \in Joint
        /\ Tail(b) \in Seq(Joint) /\ Len(Tail(b)) = Len(b) - 1
        /\ \A i \in 1 .. Len(Tail(b)) : Tail(b)[i] = b[i + 1]
    OBVIOUS
  <1> DEFINE t == Tail(b)
  <1> HIDE DEF t
  <1>2. /\ Len(t) = Len(b) - 1 /\ \A i \in 1 .. Len(t) : t[i] = b[i + 1] /\ i + 1 \in 1 .. Len(b)
        /\ 1 \in 1 .. Len(b)
    BY <1>1 DEF t
  <1>3. NoRepeat(t)
    <2> SUFFICES ASSUME NEW i \in 1 .. Len(t), NEW k \in 1 .. Len(t), t[i] = t[k] PROVE i = k
      BY DEF NoRepeat
    <2>1. b[i + 1] = b[k + 1]
      BY <1>2
    <2>2. i + 1 = k + 1
      BY <1>2, <2>1 DEF NoRepeat
    <2> QED BY <1>1, <1>2, <2>2
  <1>4. Queued(t) \subseteq Queued(b)
    BY <1>2 DEF Queued
  <1>5. ASSUME NEW i \in 1 .. Len(t), t[i] = b[1] PROVE FALSE
    <2>1. i + 1 = 1
      BY <1>2, <1>5 DEF NoRepeat
    <2> QED BY <1>1, <1>2, <2>1
  <1> QED BY <1>1, <1>2, <1>3, <1>4, <1>5 DEF t, Queued

\* loadPendingMember takes the next packet in hand, and only when there is none.
LEMMA PendingKeepsPlaces ==
    ASSUME NEW j \in JointRec, OnePlace(j), NotSent(j), NEW k, k = LoadPendingMember(j)
    PROVE  /\ k \in JointRec /\ OnePlace(k) /\ NotSent(k)
           /\ k.nacked = j.nacked /\ k.tun = j.tun
  <1>1. CASE j.valid # 0 \/ j.buf = <<>>
    BY <1>1 DEF LoadPendingMember
  <1>2. CASE j.valid = 0 /\ j.buf # <<>>
    <2> DEFINE b == j.buf
    <2>1. b \in Seq(Joint) /\ NoRepeat(b) /\ b # <<>>
      BY <1>2 DEF JointRec, OnePlace
    <2>2. /\ Head(b) \in Joint /\ Head(b) \in Queued(b)
          /\ Tail(b) \in Seq(Joint) /\ NoRepeat(Tail(b))
          /\ Queued(Tail(b)) \subseteq Queued(b)
          /\ Head(b) \notin Queued(Tail(b))
      <3> HIDE DEF b
      <3> QED BY <2>1, QueueHead
    <2>3. k = [j EXCEPT !.valid = 1, !.cur = Head(b), !.buf = Tail(b)]
      BY <1>2 DEF LoadPendingMember
    <2>4. /\ k \in JointRec
          /\ k.valid = 1 /\ k.cur = Head(b) /\ k.buf = Tail(b)
          /\ k.tun = j.tun /\ k.nacked = j.nacked
      BY <2>2, <2>3 DEF JointRec
    <2>5. j.tun \cap Joint = {}
      BY <1>2 DEF OnePlace, InHand
    <2>6. Queued(b) \cap (toCome \cup aired \cup j.nacked) = {} /\ toCome \cap (aired \cup j.nacked) = {}
      BY DEF OnePlace
    <2> HIDE DEF b
    <2> QED BY <2>2, <2>4, <2>5, <2>6 DEF OnePlace, NotSent
  <1> QED BY <1>1, <1>2

\* loadZmqBeamform reports the packet in hand, puts it in tun or leaves it.
LEMMA BeamformKeepsPlaces ==
    ASSUME NEW j \in JointRec, OnePlace(j), NotSent(j), NEW k, k = LoadZmqBeamform(j)
    PROVE  /\ k \in JointRec /\ OnePlace(k) /\ NotSent(k)
           /\ k.nacked \cap aired = j.nacked \cap aired
  <1>1. CASE k = j
    BY <1>1
  <1>2. CASE j.valid = 1 /\ k = [j EXCEPT !.valid = 0, !.nacked = @ \cup {j.cur}]
    <2>0. j.nacked \cup {j.cur} \in SUBSET (Joint \cup {NoPacket})
      BY DEF JointRec
    <2> DEFINE n == j.nacked \cup {j.cur}
    <2>1. /\ k.valid = 0 /\ k.cur = j.cur /\ k.buf = j.buf /\ k.tun = j.tun
          /\ k.nacked = j.nacked \cup {j.cur}
          /\ k \in JointRec
      <3>1. n \in SUBSET (Joint \cup {NoPacket})
        BY <2>0
      <3>2. k = [j EXCEPT !.valid = 0, !.nacked = n]
        BY <1>2
      <3>3. n = j.nacked \cup {j.cur}
        OBVIOUS
      <3> HIDE DEF n
      <3>4. /\ k.valid = 0 /\ k.cur = j.cur /\ k.buf = j.buf /\ k.tun = j.tun
            /\ k.nacked = n
            /\ k \in JointRec
        BY <3>1, <3>2 DEF JointRec
      <3> QED BY <3>3, <3>4
    <2>2. j.cur \notin aired /\ j.cur \notin toCome /\ j.cur \notin Queued(j.buf)
      BY <1>2 DEF NotSent, OnePlace
    <2>3. j.tun \cap Joint = {}
      BY <1>2 DEF OnePlace, InHand
    <2>4. Queued(j.buf) \cap (toCome \cup aired \cup j.nacked) = {} /\ toCome \cap (aired \cup j.nacked) = {}
      BY DEF OnePlace
    <2>5. /\ Queued(k.buf) \cap (toCome \cup aired \cup k.nacked) = {}
          /\ toCome \cap (aired \cup k.nacked) = {}
          /\ k.nacked \cap aired = j.nacked \cap aired
      BY <2>1, <2>2, <2>4
    <2>6. NoRepeat(k.buf)
      BY <2>1 DEF OnePlace
    <2>7. k.tun \cap Joint \subseteq InHand(k.valid, k.cur)
      BY <2>1, <2>3
    <2>8. OnePlace(k)
      BY <2>1, <2>2, <2>5, <2>6, <2>7 DEF OnePlace
    <2> QED BY <2>1, <2>5, <2>8 DEF NotSent
  <1>3. CASE j.valid = 1 /\ k = [j EXCEPT !.valid = 2, !.tun = {j.cur}]
    <2>1. j.cur \in Joint
      BY <1>3 DEF OnePlace
    <2>2. /\ k.valid = 2 /\ k.cur = j.cur /\ k.buf = j.buf /\ k.tun = {j.cur}
          /\ k.nacked = j.nacked
          /\ k \in JointRec
      <3> DEFINE n == {j.cur}
      <3>1. n \in SUBSET (Joint \cup OwnTun)
        BY <2>1
      <3>2. k = [j EXCEPT !.valid = 2, !.tun = n] /\ n = {j.cur}
        BY <1>3
      <3> HIDE DEF n
      <3>3. /\ k.valid = 2 /\ k.cur = j.cur /\ k.buf = j.buf /\ k.tun = n
            /\ k.nacked = j.nacked
            /\ k \in JointRec
        BY <3>1, <3>2 DEF JointRec
      <3> QED BY <3>2, <3>3
    <2>3. k.tun \cap Joint \subseteq InHand(k.valid, k.cur)
      BY <2>2 DEF InHand
    <2>4. /\ NoRepeat(k.buf)
          /\ Queued(k.buf) \cap (toCome \cup aired \cup k.nacked) = {}
          /\ toCome \cap (aired \cup k.nacked) = {}
      BY <2>2 DEF OnePlace
    <2>5. k.cur \notin toCome /\ k.cur \notin Queued(k.buf) /\ k.cur \in Joint /\ k.cur \notin k.nacked
      BY <1>3, <2>2 DEF OnePlace
    <2>6. OnePlace(k)
      BY <2>3, <2>4, <2>5 DEF OnePlace
    <2> QED BY <1>3, <2>2, <2>6 DEF NotSent
  <1> QED BY <1>1, <1>2, <1>3 DEF LoadZmqBeamform

\* The joint packets after the loop.
LEMMA LoadedKeepsPlaces ==
    ASSUME JointState \in JointRec, OnePlace(JointState), NotSent(JointState)
    PROVE  /\ Loaded \in JointRec /\ OnePlace(Loaded) /\ NotSent(Loaded)
           /\ Loaded.nacked \cap aired = nacked \cap aired
  <1> DEFINE S == {j \in JointRec : /\ OnePlace(j) /\ NotSent(j)
                                    /\ j.nacked \cap aired = nacked \cap aired}
  <1>1. JointState \in S
    BY DEF JointState
  <1>2. ASSUME NEW j \in S PROVE Turn(j) \in S
    <2> DEFINE k == LoadPendingMember(j)
    <2>1. k \in JointRec /\ OnePlace(k) /\ NotSent(k) /\ k.nacked = j.nacked
      BY PendingKeepsPlaces
    <2> HIDE DEF k
    <2>2. /\ LoadZmqBeamform(k) \in JointRec /\ OnePlace(LoadZmqBeamform(k))
          /\ NotSent(LoadZmqBeamform(k))
          /\ LoadZmqBeamform(k).nacked \cap aired = k.nacked \cap aired
      BY <2>1, BeamformKeepsPlaces
    <2>3. Turn(j) = LoadZmqBeamform(k)
      BY DEF Turn, k
    <2> QED BY <2>1, <2>2, <2>3
  <1> HIDE DEF S
  <1>3. Loaded \in S
    BY <1>1, <1>2, LoadedIn
  <1> QED BY <1>3 DEF S

-----------------------------------------------------------------------------
(* One step of the path.                                                   *)

\* All that JointInv speaks of besides tun.
places == <<beamform_buffer, pending_valid, pending, nacked, aired, toCome>>
handler == <<step, d, isDebugDuplexPacket, now, sleep>>

\* What a step does that neither reports what was sent nor sends what was
\* reported, and what it does that sends nothing late.
NoDouble ==
    \A p \in (nacked' \cap aired') \ (nacked \cap aired) :
        isDebugDuplexPacket /\ pending_valid = 0 /\ p = pending /\ p \in aired
NotLate == \A p \in aired' \ aired : now \div SCHEDULE_FRAMES <= p.epoc

\* A step that reports and sends nothing.
LEMMA Unsaid ==
    ASSUME UNCHANGED aired, nacked' \cap aired = nacked \cap aired
    PROVE  NoDouble /\ NotLate
  BY DEF NoDouble, NotLate

\* The record of the joint packets.
LEMMA Recorded ==
    ASSUME Placed, Handled
    PROVE  /\ JointState \in JointRec /\ OnePlace(JointState)
           /\ step # "splitb" => NotSent(JointState)
  <1>1. /\ JointState.valid = pending_valid /\ JointState.cur = pending
        /\ JointState.buf = beamform_buffer /\ JointState.tun = tun
        /\ JointState.nacked = nacked
    BY DEF JointState
  <1>2. JointState \in JointRec
    BY DEF JointState, JointRec, Placed
  <1> QED BY <1>1, <1>2 DEF OnePlace, NotSent, Placed, Handled

\* The record written back.
LEMMA WrittenBack ==
    ASSUME Placed, NEW j \in JointRec, OnePlace(j), Apply(j), UNCHANGED <<toCome, aired>>
    PROVE  Placed'
  BY DEF Apply, OnePlace, Placed, JointRec

\* A step that does no more to the joint packets than empty tun, or add one of
\* the node's own to it.
LEMMA OnlyTun ==
    ASSUME JointInv, UNCHANGED <<places, handler>>, tun' \subseteq tun \cup OwnTun
    PROVE  JointInv' /\ NoDouble /\ NotLate
  <1>1. NoDouble /\ NotLate
    BY Unsaid DEF places
  <1>2. tun' \cap Joint \subseteq tun \cap Joint
    BY JointFacts
  <1>3. Placed'
    BY <1>2 DEF JointInv, Placed, places
  <1>4. Handled'
    BY <1>2 DEF JointInv, Handled, places, handler
  <1>5. now' \in Nat /\ sleep' \in Int /\ InTime'
    BY DEF JointInv, InTime, handler
  <1> QED BY <1>1, <1>3, <1>4, <1>5 DEF JointInv

\* The target of a joint packet is within an epoc, counted from the radio's
\* start: it is reduced modulo an epoc.
LEMMA TargetInTheFirstEpoc ==
    ASSUME NEW p \in Joint
    PROVE  JointTarget(p) \in 0 .. SCHEDULE_FRAMES - 1
  <1> DEFINE a == SCHEDULE_FRAMES + p.ts * SLOT_FRAMES - Early
             n == SCHEDULE_FRAMES
  <1>1. n \in Nat \ {0} /\ SLOT_FRAMES \in Nat /\ Early \in Nat /\ p.ts \in Nat
    BY TxAssumption, JointFacts
  <1>2. p.ts * SLOT_FRAMES \in Nat
    BY <1>1
  <1>3. a \in Int
    BY <1>1, <1>2
  <1>4. JointTarget(p) = a % n
    BY DEF JointTarget
  <1> HIDE DEF a, n
  <1>5. a % n \in 0 .. n - 1
    BY <1>1, <1>3
  <1> QED BY <1>4, <1>5 DEF n

\* The top of the handler.
LEMMA TopJoint ==
    ASSUME JointInv, BusyWaitTop, UNCHANGED toCome
    PROVE  JointInv' /\ NoDouble /\ NotLate
  <1> DEFINE j == Loaded
  <1>0. /\ step = "top" /\ Apply(j) /\ UNCHANGED <<aired, toCome, now, d>>
        /\ isDebugDuplexPacket' = IsDebugDuplex(j.valid)
        /\ \/ UNCHANGED <<step, sleep>>
           \/ /\ step' = "pull" /\ (isDebugDuplexPacket' \/ j.valid # 0)
              /\ sleep' = SleepFrames(isDebugDuplexPacket', j.cur)
    BY DEF BusyWaitTop
  <1>1. j \in JointRec /\ OnePlace(j) /\ NotSent(j) /\ j.nacked \cap aired = nacked \cap aired
    BY <1>0, Recorded, LoadedKeepsPlaces DEF JointInv
  <1> HIDE DEF j
  <1>2. Placed'
    BY <1>0, <1>1, WrittenBack DEF JointInv
  <1>3. NoDouble /\ NotLate
    <2>1. UNCHANGED aired /\ nacked' = j.nacked
      BY <1>0 DEF Apply
    <2> QED BY <1>1, <2>1, Unsaid
  <1>4. pending_valid' = j.valid /\ pending' = j.cur /\ step' \in {"top", "pull"}
    BY <1>0 DEF Apply
  <1>5. isDebugDuplexPacket' => pending_valid' = 0
    BY <1>0, <1>4 DEF IsDebugDuplex
  <1>6. Handled'
    <2>1. pending_valid' # 0 => pending' \notin aired'
      BY <1>0, <1>1, <1>4 DEF NotSent
    <2>2. step' = "pull" => (isDebugDuplexPacket' <=> pending_valid' = 0)
      BY <1>0, <1>4, <1>5
    <2> QED BY <1>4, <2>1, <2>2 DEF Handled
  <1>7. now' \in Nat /\ sleep' \in Int /\ InTime'
    <2>1. CASE UNCHANGED <<step, sleep>>
      BY <1>0, <2>1 DEF JointInv, InTime
    <2>2. CASE step' = "pull" /\ isDebugDuplexPacket'
      <3>1. sleep' = Ahead - Early
        BY <1>0, <2>2 DEF SleepFrames
      <3>2. Ahead - Early \in Int
        BY TxAssumption
      <3> QED BY <1>0, <2>2, <3>1, <3>2 DEF JointInv, InTime
    <2>3. CASE step' = "pull" /\ ~isDebugDuplexPacket' /\ sleep' = SleepFrames(isDebugDuplexPacket', j.cur)
      <3>1. j.cur \in Joint
        BY <1>0, <1>1, <1>4, <1>6, <2>3 DEF OnePlace, Handled
      <3>2. sleep' = JointTarget(j.cur) - now
        BY <2>3 DEF SleepFrames
      <3>3. JointTarget(j.cur) \in 0 .. SCHEDULE_FRAMES - 1 /\ SCHEDULE_FRAMES \in Nat
        BY <3>1, TargetInTheFirstEpoc, TxAssumption
      <3>4. now \in Nat /\ now' = now
        BY <1>0 DEF JointInv
      <3>5. sleep' \in Int /\ now' + sleep' < SCHEDULE_FRAMES
        BY <3>2, <3>3, <3>4
      <3> QED BY <3>4, <3>5 DEF InTime
    <2> QED BY <1>0, <1>4, <2>1, <2>2, <2>3
  <1> QED BY <1>2, <1>3, <1>6, <1>7 DEF JointInv

\* The end of the handler.
LEMMA TailJoint ==
    ASSUME JointInv, BusyWaitTail, UNCHANGED toCome
    PROVE  JointInv' /\ NoDouble /\ NotLate
  <1> DEFINE j == LoadPendingMember(JointState)
  <1>0. /\ step = "tail" /\ step' = "top" /\ Apply(j) /\ UNCHANGED <<aired, toCome, now, sleep>>
    BY DEF BusyWaitTail, packet
  <1>1. JointState \in JointRec /\ OnePlace(JointState) /\ NotSent(JointState)
    BY <1>0, Recorded DEF JointInv
  <1>2. j \in JointRec /\ OnePlace(j) /\ NotSent(j) /\ j.nacked = nacked
    <2>1. JointState.nacked = nacked
      BY DEF JointState
    <2> QED BY <1>1, <2>1, PendingKeepsPlaces
  <1> HIDE DEF j
  <1>3. Placed'
    BY <1>0, <1>2, WrittenBack DEF JointInv
  <1>4. NoDouble /\ NotLate
    <2>1. UNCHANGED aired /\ nacked' = nacked
      BY <1>0, <1>2 DEF Apply
    <2> QED BY <2>1, Unsaid
  <1>5. Handled'
    BY <1>0, <1>2 DEF Handled, Apply, NotSent
  <1>6. now' \in Nat /\ sleep' \in Int /\ InTime'
    BY <1>0 DEF JointInv, InTime
  <1> QED BY <1>3, <1>4, <1>5, <1>6 DEF JointInv

\* Pulling the data, or giving the packet up because its target has passed.
LEMMA PullJoint ==
    ASSUME JointInv, Pull, UNCHANGED toCome
    PROVE  JointInv' /\ NoDouble /\ NotLate
  <1>0. /\ step = "pull" /\ UNCHANGED <<beamform_buffer, pending, aired, toCome, now, sleep, isDebugDuplexPacket>>
        /\ tun' = IF isDebugDuplexPacket THEN tun ELSE {}
    BY DEF Pull, busyRest
  <1>1. Placed /\ Handled /\ now \in Nat /\ sleep \in Int /\ InTime
    BY DEF JointInv
  <1>2. isDebugDuplexPacket <=> pending_valid = 0
    BY <1>0, <1>1 DEF Handled
  <1>3. tun' \cap Joint = {} /\ tun' \in SUBSET (Joint \cup OwnTun)
    BY <1>0, <1>1, <1>2 DEF Placed, InHand
  <1>4. NotLate
    BY <1>0 DEF NotLate
  <1>5. CASE sleep < 0
    <2>1. step' = "top" /\ nacked' = nacked \cup {pending} /\ pending_valid' = 0
      BY <1>5 DEF Pull
    <2>2. NoDouble
      <3> SUFFICES ASSUME NEW p \in (nacked' \cap aired') \ (nacked \cap aired)
                   PROVE  isDebugDuplexPacket /\ pending_valid = 0 /\ p = pending /\ p \in aired
        BY DEF NoDouble
      <3>1. p = pending /\ p \in aired
        BY <1>0, <2>1
      <3>2. pending_valid = 0
        BY <1>0, <1>1, <3>1 DEF Handled
      <3> QED BY <1>2, <3>1, <3>2
    <2>3. Placed'
      BY <1>0, <1>1, <1>3, <2>1 DEF Placed, InHand
    <2>4. Handled'
      BY <2>1 DEF Handled
    <2>5. now' \in Nat /\ sleep' \in Int /\ InTime'
      BY <1>0, <1>1, <2>1 DEF InTime
    <2> QED BY <1>4, <2>2, <2>3, <2>4, <2>5 DEF JointInv
  <1>6. CASE ~(sleep < 0)
    <2>1. step' = "wait" /\ d' = Pulled /\ UNCHANGED <<nacked, pending_valid>>
      BY <1>6 DEF Pull
    <2>2. NoDouble
      BY <1>0, <2>1, Unsaid
    <2>3. Placed'
      BY <1>0, <1>1, <1>3, <2>1 DEF Placed, InHand
    <2>4. d' \cap Joint \subseteq InHand(pending_valid', pending')
      <3>1. CASE isDebugDuplexPacket
        BY <2>1, <3>1, JointFacts DEF Pulled
      <3>2. CASE ~isDebugDuplexPacket
        BY <1>0, <1>1, <2>1, <3>2 DEF Pulled, Placed
      <3> QED BY <3>1, <3>2
    <2>5. Handled'
      BY <1>0, <1>1, <1>3, <2>1, <2>4 DEF Handled
    <2>6. now' \in Nat /\ sleep' \in Int /\ InTime'
      BY <1>0, <1>1, <2>1 DEF InTime
    <2> QED BY <1>4, <2>2, <2>3, <2>5, <2>6 DEF JointInv
  <1> QED BY <1>5, <1>6

\* The busy loop, and the writes to FlushHiggs: what is pulled is sent once and
\* then out of hand.
LEMMA SendJoint ==
    ASSUME JointInv, WaitLate \/ WaitSkip \/ SendSmall \/ SendSplitA \/ SendSplitB,
           UNCHANGED toCome
    PROVE  JointInv' /\ NoDouble /\ NotLate
  <1>0. /\ UNCHANGED <<beamform_buffer, pending, tun, nacked, toCome, now, sleep, isDebugDuplexPacket>>
        /\ step \in {"wait", "splitb"} /\ step' \in {"tail", "splitb"}
    BY DEF WaitLate, WaitSkip, SendSmall, SendSplitA, SendSplitB, SendDone, busyRest, joints, packet,
           sendRest
  <1>1. Placed /\ Handled /\ now \in Nat /\ sleep \in Int /\ InTime
    BY DEF JointInv
  <1>2. tun \cap Joint = {}
    BY <1>0, <1>1 DEF Handled
  <1>3. pending_valid' \in {0, pending_valid}
    BY DEF WaitLate, WaitSkip, SendSmall, SendSplitA, SendSplitB, SendDone, joints, PendingAfterSend
  <1>4. \/ UNCHANGED aired
        \/ /\ step = "wait" /\ sleep \in 0 .. Tol /\ aired' = aired \cup (d \cap Joint)
    BY DEF WaitLate, WaitSkip, SendSmall, SendSplitA, SendSplitB, SendDone, joints
  <1>5. aired' \subseteq aired \cup (d \cap Joint) /\ aired \subseteq aired'
    BY <1>4
  <1>6. aired' # aired => d \cap Joint \subseteq InHand(pending_valid, pending)
    BY <1>1, <1>4 DEF Handled
  <1>7. ASSUME NEW p \in aired' \ aired
        PROVE  /\ p = pending /\ pending_valid = 2 /\ p \in Joint /\ p \notin nacked
    BY <1>1, <1>5, <1>6, <1>7 DEF InHand, Placed
  <1>8. NoDouble
    BY <1>0, <1>7 DEF NoDouble
  <1>9. NotLate
    <2> SUFFICES ASSUME NEW p \in aired' \ aired PROVE now \div SCHEDULE_FRAMES <= p.epoc
      BY DEF NotLate
    <2>1. step = "wait" /\ sleep \in 0 .. Tol /\ p \in d \cap Joint /\ pending_valid = 2
      BY <1>4, <1>7
    <2>2. CASE isDebugDuplexPacket
      \* Nothing is in hand.
      BY <1>1, <2>1, <2>2 DEF Handled
    <2>3. CASE ~isDebugDuplexPacket
      <3>1. sleep >= 0 /\ sleep \in Int
        BY <1>1, <2>1, TxAssumption
      <3>2. now + sleep < SCHEDULE_FRAMES
        BY <1>1, <2>1, <2>3, <3>1 DEF InTime
      <3>3. SCHEDULE_FRAMES \in Nat \ {0} /\ now < SCHEDULE_FRAMES
        BY <1>1, <3>1, <3>2, TxAssumption
      <3>4. now \div SCHEDULE_FRAMES = 0
        BY <1>1, <3>3
      <3> QED BY <1>7, <3>4, JointFacts
    <2> QED BY <2>2, <2>3
  <1>10. Placed'
    <2>1. aired' \subseteq Joint /\ aired' \cap toCome = {} /\ aired' \cap Queued(beamform_buffer) = {}
      BY <1>1, <1>7 DEF Placed
    <2> QED BY <1>0, <1>1, <1>2, <1>3, <2>1 DEF Placed, InHand
  <1>11. Handled'
    <2>1. CASE step' = "splitb"
      BY <1>0, <1>2, <2>1 DEF Handled
    <2>2. CASE step' = "tail"
      <3>1. pending_valid' # 0 => UNCHANGED aired /\ step = "wait" /\ pending_valid' = pending_valid
        BY <1>0, <2>2 DEF WaitLate, WaitSkip, SendSmall, SendSplitA, SendSplitB, SendDone, joints, PendingAfterSend
      <3> QED BY <1>0, <1>1, <2>2, <3>1 DEF Handled
    <2> QED BY <1>0, <2>1, <2>2
  <1>12. now' \in Nat /\ sleep' \in Int /\ InTime'
    BY <1>0, <1>1 DEF InTime
  <1> QED BY <1>8, <1>9, <1>10, <1>11, <1>12 DEF JointInv

\* The clock: sleep runs down as now runs up.
LEMMA ClockJoint ==
    ASSUME JointInv, ClockStep
    PROVE  JointInv' /\ NoDouble /\ NotLate
  <1>0. /\ UNCHANGED <<places, tun, step, d, isDebugDuplexPacket>>
        /\ now' = IF now < MaxNow THEN now + 1 ELSE now
        /\ sleep' = IF step \in {"pull", "wait"} /\ sleep >= 0 THEN sleep - 1 ELSE sleep
    BY DEF ClockStep, Tick, joints, worldVars, places
  <1>1. Placed /\ Handled /\ now \in Nat /\ sleep \in Int /\ InTime
    BY DEF JointInv
  <1>2. NoDouble /\ NotLate
    BY <1>0, Unsaid DEF places
  <1>3. Placed' /\ Handled'
    BY <1>0, <1>1 DEF Placed, Handled, places
  <1>4. now' \in Nat /\ sleep' \in Int /\ SCHEDULE_FRAMES \in Nat
    BY <1>0, <1>1, TxAssumption
  <1>5. ASSUME step \in {"pull", "wait"}, ~isDebugDuplexPacket, sleep' >= 0
        PROVE  now' + sleep' < SCHEDULE_FRAMES
    <2>1. sleep >= 0 /\ sleep' = sleep - 1
      BY <1>0, <1>1, <1>5
    <2>2. now + sleep < SCHEDULE_FRAMES
      BY <1>1, <1>5, <2>1 DEF InTime
    <2>3. now' <= now + 1
      BY <1>0, <1>1
    <2> DEFINE t == now'
               u == sleep'
    <2>4. t \in Nat /\ u \in Int /\ t <= now + 1 /\ u = sleep - 1
      BY <1>4, <2>1, <2>3
    <2> HIDE DEF t, u
    <2>5. t + u < SCHEDULE_FRAMES
      BY <1>1, <1>4, <2>2, <2>4
    <2> QED BY <2>5 DEF t, u
  <1>6. InTime'
    BY <1>0, <1>5 DEF InTime
  <1> QED BY <1>2, <1>3, <1>4, <1>6 DEF JointInv

\* A packet of the arbiter joins the end of the queue.
LEMMA ArrivalJoint ==
    ASSUME JointInv, NEW p \in Joint, HandleJointTransmit(p)
    PROVE  JointInv' /\ NoDouble /\ NotLate
  <1>0. /\ UNCHANGED <<pending_valid, pending, nacked, aired, tun, handler>>
        /\ p \in toCome /\ toCome' = toCome \ {p}
        /\ beamform_buffer' = Append(beamform_buffer, p)
    BY DEF HandleJointTransmit, packet, handler
  <1>1. Placed /\ Handled /\ now \in Nat /\ sleep \in Int /\ InTime
    BY DEF JointInv
  <1>2. NoDouble /\ NotLate
    BY <1>0, Unsaid
  <1> DEFINE b == beamform_buffer
             c == beamform_buffer'
  <1>3. b \in Seq(Joint) /\ c = Append(b, p) /\ NoRepeat(b)
        /\ Queued(b) \cap (toCome \cup aired \cup nacked) = {}
    BY <1>0, <1>1 DEF Placed
  <1> HIDE DEF b, c
  <1>4. /\ c \in Seq(Joint) /\ Len(b) \in Nat /\ Len(c) = Len(b) + 1
        /\ \A i \in 1 .. Len(b) : c[i] = b[i]
        /\ c[Len(b) + 1] = p
    BY <1>3
  <1>5. \A i \in 1 .. Len(c) : i \in 1 .. Len(b) \/ i = Len(b) + 1
    BY <1>4
  <1>6. \A i \in 1 .. Len(b) : b[i] # p
    BY <1>0, <1>3 DEF Queued
  <1>7. Queued(c) \subseteq Queued(b) \cup {p}
    BY <1>4, <1>5 DEF Queued
  <1>8. NoRepeat(c)
    <2> SUFFICES ASSUME NEW i \in 1 .. Len(c), NEW k \in 1 .. Len(c), c[i] = c[k] PROVE i = k
      BY DEF NoRepeat
    <2>1. CASE i \in 1 .. Len(b) /\ k \in 1 .. Len(b)
      BY <1>3, <1>4, <2>1 DEF NoRepeat
    <2>2. CASE i = Len(b) + 1
      BY <1>4, <1>5, <1>6, <2>2
    <2>3. CASE k = Len(b) + 1
      BY <1>4, <1>5, <1>6, <2>3
    <2> QED BY <1>5, <2>1, <2>2, <2>3
  <1>9. Placed'
    <2>1. c \in Seq(Joint) /\ NoRepeat(c)
      BY <1>4, <1>8
    <2>2. /\ Queued(c) \cap (toCome' \cup aired \cup nacked) = {}
          /\ toCome' \cap (aired \cup nacked) = {} /\ toCome' \subseteq Joint
      BY <1>0, <1>1, <1>3, <1>7 DEF Placed
    <2>3. pending \notin toCome' /\ pending \notin Queued(c)
      BY <1>0, <1>1, <1>7 DEF Placed, b
    <2> QED BY <1>0, <1>1, <2>1, <2>2, <2>3 DEF Placed, c
  <1>10. Handled' /\ InTime' /\ now' \in Nat /\ sleep' \in Int
    BY <1>0, <1>1 DEF Handled, InTime, handler
  <1> QED BY <1>2, <1>9, <1>10 DEF JointInv

\* The other states of tickFsmSchedule leave the joint packets alone, or empty
\* tun.
LEMMA OtherTxJoint ==
    ASSUME TxScheduleStep,
           ~(\/ BusyWaitTop \/ Pull \/ WaitLate \/ WaitSkip \/ SendSmall
             \/ SendSplitA \/ SendSplitB \/ BusyWaitTail)
    PROVE  UNCHANGED <<places, handler>> /\ tun' \subseteq tun
  <1> USE DEF places, handler, quiet, packet, recoverRest
  <1>0. UNCHANGED toCome
    BY DEF TxScheduleStep, worldVars
  <1>1. CASE TxLocalNext
    BY <1>0, <1>1 DEF TxLocalNext, PreBoot, DebugEarlyEvent, WaitEvents,
      DebugTxMapmov0, DebugTxMapmov1, DebugTxMapmov2, PeriodicSchedule,
      BusyWaitError, SendLowPri0, SendLowPri1, SendLowPri2, RecoverError0A,
      RecoverError0, RecoverError1, RecoverError2, RecoverError3, RecoverError4
  <1>2. CASE ~TxLocalNext
    BY <1>0, <1>2 DEF TxScheduleStep, RecoverError1A, RecoverError2A
  <1> QED BY <1>1, <1>2

\* Nobody else touches them but the arbiter, and the node's own packets join
\* tun.
LEMMA OthersJoint ==
    ASSUME FlushStep \/ JsStep \/ EventDspStep \/ RadioStep \/ WorldStep,
           ~(\E p \in Joint : HandleJointTransmit(p))
    PROVE  UNCHANGED <<places, handler>> /\ tun' \subseteq tun \cup OwnTun
  <1> USE DEF places, handler, packet, joints, worldVars, txVars
  <1>1. CASE FlushStep
    BY <1>1 DEF FlushStep
  <1>2. CASE JsStep
    BY <1>2 DEF JsStep
  <1>3. CASE EventDspStep
    BY <1>3 DEF EventDspStep, EdNext, EdBoot, AfterPreBoot, JsHandleFbBus0,
      JsHandleFbBus1, DecideHowToBegin, EdWaitEvents, DuplexFine,
      WaitTxScheduleExit, edRest
  <1>4. CASE RadioStep
    BY <1>4 DEF RadioStep, Dispatch, LoseWord, RadioError, EpocReport, FillReport
  <1>5. CASE WorldStep
    BY <1>5 DEF WorldStep, LowArrives, TunArrives, AskDebugDuplex, SelfSyncDone,
      NewEvent
  <1> QED BY <1>1, <1>2, <1>3, <1>4, <1>5

\* Every step keeps JointInv, reports nothing that was sent, sends nothing that
\* was reported, and sends nothing late.
LEMMA JointNext ==
    ASSUME JointInv, [Next]_vars
    PROVE  JointInv' /\ NoDouble /\ NotLate
  <1>1. CASE UNCHANGED vars
    <2>1. UNCHANGED <<places, handler>> /\ tun' \subseteq tun \cup OwnTun
      BY <1>1 DEF vars, txVars, worldVars, places, handler
    <2> QED BY <2>1, OnlyTun
  <1>2. CASE TxScheduleStep
    <2>0. UNCHANGED toCome
      BY <1>2 DEF TxScheduleStep, worldVars
    <2>1. CASE BusyWaitTop
      BY <2>0, <2>1, TopJoint
    <2>2. CASE Pull
      BY <2>0, <2>2, PullJoint
    <2>3. CASE WaitLate \/ WaitSkip \/ SendSmall \/ SendSplitA \/ SendSplitB
      BY <2>0, <2>3, SendJoint
    <2>4. CASE BusyWaitTail
      BY <2>0, <2>4, TailJoint
    <2>5. CASE ~(\/ BusyWaitTop \/ Pull \/ WaitLate \/ WaitSkip \/ SendSmall
                 \/ SendSplitA \/ SendSplitB \/ BusyWaitTail)
      BY <1>2, <2>5, OtherTxJoint, OnlyTun
    <2> QED BY <2>1, <2>2, <2>3, <2>4, <2>5
  <1>3. CASE ClockStep
    BY <1>3, ClockJoint
  <1>4. CASE \E p \in Joint : HandleJointTransmit(p)
    BY <1>4, ArrivalJoint
  <1>5. CASE (FlushStep \/ JsStep \/ EventDspStep \/ RadioStep \/ WorldStep)
             /\ ~(\E p \in Joint : HandleJointTransmit(p))
    BY <1>5, OthersJoint, OnlyTun
  <1> QED BY <1>1, <1>2, <1>3, <1>4, <1>5 DEF Next

\* All joint packets are still with the arbiter.
LEMMA JointStart == Init => JointInv
  <1> SUFFICES ASSUME Init PROVE JointInv
    OBVIOUS
  <1>1. /\ beamform_buffer = <<>> /\ pending_valid = 0 /\ pending = NoPacket
        /\ tun = {} /\ d = {} /\ nacked = {} /\ aired = {} /\ toCome \in SUBSET Joint
        /\ step = "top" /\ now \in 0..MaxNow /\ sleep = 0
    BY DEF Init, TxInit
  <1>2. Queued(<<>>) = {} /\ NoRepeat(<<>>)
    BY DEF Queued, NoRepeat
  <1> QED BY <1>1, <1>2, JointFacts DEF JointInv, Placed, Handled, InTime, InHand

\* A joint packet that the arbiter is told was dropped is not transmitted, and
\* one that was transmitted is not reported as dropped, save by the call of
\* dumpPendingPacket for a debug packet whose target has passed: it reports the
\* joint packet handled before.
THEOREM Nacked == Spec => NackedNeverAired
  <1>1. JointInv /\ [Next]_vars => JointInv'
    BY JointNext
  <1>2. JointInv /\ [Next]_vars =>
          [\A p \in (nacked' \cap aired') \ (nacked \cap aired) :
              isDebugDuplexPacket /\ pending_valid = 0 /\ p = pending /\ p \in aired]_vars
    BY JointNext DEF NoDouble
  <1> QED BY <1>1, <1>2, JointStart, PTL DEF Spec, NackedNeverAired

\* A joint packet is handed to FlushHiggs in its epoc or before, whatever delays
\* TxSchedule between loadZmqBeamform and the end of the busy loop.
THEOREM OnTime == Spec => JointNeverLate
  <1>1. JointInv /\ [Next]_vars => JointInv'
    BY JointNext
  <1>2. JointInv /\ [Next]_vars =>
          [\A p \in aired' \ aired : now \div SCHEDULE_FRAMES <= p.epoc]_vars
    BY JointNext DEF NotLate
  <1> QED BY <1>1, <1>2, JointStart, PTL DEF Spec, JointNeverLate

-----------------------------------------------------------------------------
(* Types.  FramesInv and JointInv have those of the data; these are the    *)
(* others, by who writes them.                                             *)

PortTypes ==
    /\ low \in Seq(LowFrames)
    /\ sending_to \in {"IDLE", "NORMAL", "LOW"}
    /\ flush_pc \in {"timer", "low", "pet"}
    /\ last_fill_level \in FillLevels
    /\ allow_zmq_higgs \in BOOLEAN /\ requestExitSendingLow \in BOOLEAN
    /\ valid_8k \in BOOLEAN /\ should_pause_p \in BOOLEAN
    /\ should_use_new_level \in BOOLEAN

MachineTypes ==
    /\ dsp_state \in TxStates /\ dsp_state_pending \in TxStates
    /\ step \in {"top", "pull", "wait", "splitb", "tail"}
    /\ doWarmup \in BOOLEAN /\ exitDataMode \in BOOLEAN
    /\ epoc_valid \in BOOLEAN /\ link_up \in BOOLEAN
    /\ isDebugDuplexPacket \in BOOLEAN

CountTypes ==
    /\ errorDetected \in Nat /\ flushZerosStarted \in Nat
    /\ flushZerosEnded \in Nat /\ errorDetectedLocal \in Nat
    /\ sendLowLoops \in Nat /\ errorFlushZerosWaiting \in Nat
    /\ debug_duplex \in Nat /\ busy \in Nat
    /\ unacked \in Int

DataTypes == d \subseteq Joint \cup OwnTun \cup {NoPacket}

WorldTypes ==
    /\ rb \in Seq({"ack", "error", "started", "ended", "alive"})
    /\ flushing \in BOOLEAN
    /\ budget \in [BudgetKinds -> Nat]

OtherTypes ==
    /\ PortTypes /\ MachineTypes /\ CountTypes /\ DataTypes
    /\ JsTypeOK /\ EdTypeOK /\ WorldTypes

\* TypeOK is what the three say together.
LEMMA Typed == FramesInv /\ JointInv /\ OtherTypes => TypeOK
  BY DEF FramesInv, JointInv, Placed, OtherTypes, PortTypes, MachineTypes,
         CountTypes, DataTypes, JsTypeOK, EdTypeOK, WorldTypes, TypeOK,
         FlushTypeOK, TxTypeOK

\* What each process leaves alone.
LEMMA TxLeaves ==
    ASSUME TxScheduleStep
    PROVE  UNCHANGED <<low, flushOwn, last_fill_level, recovering, js_step, alive, edVars,
                       radioVars, worldVars>>
  <1> USE DEF flushVars
  <1>1. CASE TxLocalNext
    BY <1>1 DEF TxScheduleStep, TxLocalNext, PreBoot, DebugEarlyEvent, WaitEvents,
        DebugTxMapmov0, DebugTxMapmov1, DebugTxMapmov2, PeriodicSchedule,
        BusyWaitError, BusyWaitTop, Pull, WaitLate, WaitSkip, BusyWaitTail,
        SendSmall, SendSplitA, SendSplitB, sendRest, flushOwn,
        SendLowPri0, SendLowPri1, SendLowPri2, RecoverError0A, RecoverError0,
        RecoverError1, RecoverError2, RecoverError3, RecoverError4, recoverRest
  <1>2. CASE ~TxLocalNext
    BY <1>2 DEF TxScheduleStep, RecoverError1A, RecoverError2A, recoverRest
  <1> QED BY <1>1, <1>2

\* TxSchedule and the port: it opens and closes it.
LEMMA TxPort ==
    ASSUME PortTypes, TxScheduleStep
    PROVE  PortTypes'
  <1>1. UNCHANGED <<low, sending_to, flush_pc, last_fill_level, valid_8k, should_pause_p, should_use_new_level>>
    BY TxLeaves DEF flushOwn
  <1>2. allow_zmq_higgs' \in {allow_zmq_higgs, TRUE, FALSE}
        /\ requestExitSendingLow' \in {requestExitSendingLow, TRUE}
    <2> USE DEF flushVars
    <2>1. CASE TxLocalNext
      BY <2>1 DEF TxLocalNext, PreBoot, DebugEarlyEvent, WaitEvents,
        DebugTxMapmov0, DebugTxMapmov1, DebugTxMapmov2, PeriodicSchedule,
        BusyWaitError, BusyWaitTop, Pull, WaitLate, WaitSkip, BusyWaitTail,
        SendSmall, SendSplitA, SendSplitB, sendRest,
        SendLowPri0, SendLowPri1, SendLowPri2, RecoverError0A, RecoverError0,
        RecoverError1, RecoverError2, RecoverError3, RecoverError4, recoverRest,
        AllowInDataMode, AllowAfterLow, ExitSendingLowMode
    <2>2. CASE ~TxLocalNext
      BY <2>2 DEF TxScheduleStep, RecoverError1A, RecoverError2A, recoverRest
    <2> QED BY <2>1, <2>2
  <1> QED BY <1>1, <1>2 DEF PortTypes

\* TxSchedule's own state.
LEMMA TxMachine ==
    ASSUME MachineTypes, TxScheduleStep
    PROVE  MachineTypes'
  <1> USE DEF MachineTypes, TxStates, StartStates, LowPriStates, RecoverStates, In, Go, quiet, packet
  <1>1. dsp_state' \in TxStates /\ dsp_state_pending' \in TxStates
    <2>1. CASE TxLocalNext
      BY <2>1 DEF TxLocalNext, PreBoot, DebugEarlyEvent, WaitEvents,
        DebugTxMapmov0, DebugTxMapmov1, DebugTxMapmov2, PeriodicSchedule,
        BusyWaitError, BusyWaitTop, Pull, WaitLate, WaitSkip, BusyWaitTail,
        SendSmall, SendSplitA, SendSplitB, sendRest, busyRest, LowOrAgain, GoRecover,
        SendLowPri0, SendLowPri1, SendLowPri2, RecoverError0A, RecoverError0,
        RecoverError1, RecoverError2, RecoverError3, RecoverError4
    <2>2. CASE ~TxLocalNext
      BY <2>2 DEF TxScheduleStep, RecoverError1A, RecoverError2A
    <2> QED BY <2>1, <2>2
  <1>2. step' \in {"top", "pull", "wait", "splitb", "tail"}
    <2>1. CASE TxLocalNext
      BY <2>1 DEF TxLocalNext, PreBoot, DebugEarlyEvent, WaitEvents,
        DebugTxMapmov0, DebugTxMapmov1, DebugTxMapmov2, PeriodicSchedule,
        BusyWaitError, BusyWaitTop, Pull, WaitLate, WaitSkip, BusyWaitTail,
        SendSmall, SendSplitA, SendSplitB, SendDone,
        SendLowPri0, SendLowPri1, SendLowPri2, RecoverError0A, RecoverError0,
        RecoverError1, RecoverError2, RecoverError3, RecoverError4, recoverRest
    <2>2. CASE ~TxLocalNext
      BY <2>2 DEF TxScheduleStep, RecoverError1A, RecoverError2A, recoverRest
    <2> QED BY <2>1, <2>2
  <1>3. /\ doWarmup' \in {doWarmup, FALSE} /\ exitDataMode' \in {exitDataMode, FALSE}
        /\ epoc_valid' \in {epoc_valid, FALSE} /\ link_up' \in {link_up, TRUE, FALSE}
    <2>1. CASE TxLocalNext
      BY <2>1 DEF TxLocalNext, PreBoot, DebugEarlyEvent, WaitEvents,
        DebugTxMapmov0, DebugTxMapmov1, DebugTxMapmov2, PeriodicSchedule,
        BusyWaitError, BusyWaitTop, Pull, WaitLate, WaitSkip, BusyWaitTail,
        SendSmall, SendSplitA, SendSplitB, sendRest, busyRest,
        SendLowPri0, SendLowPri1, SendLowPri2, RecoverError0A, RecoverError0,
        RecoverError1, RecoverError2, RecoverError3, RecoverError4, recoverRest
    <2>2. CASE ~TxLocalNext
      BY <2>2 DEF TxScheduleStep, RecoverError1A, RecoverError2A, recoverRest
    <2> QED BY <2>1, <2>2
  <1>4. isDebugDuplexPacket' \in BOOLEAN
    <2>1. CASE BusyWaitTop
      <3>1. isDebugDuplexPacket' = IsDebugDuplex(Loaded.valid)
        BY <2>1 DEF BusyWaitTop
      <3>2. IsDebugDuplex(Loaded.valid) \in BOOLEAN
        BY DEF IsDebugDuplex
      <3> QED BY <3>1, <3>2
    <2>2. CASE TxLocalNext /\ ~BusyWaitTop
      BY <2>2 DEF TxLocalNext, PreBoot, DebugEarlyEvent, WaitEvents,
        DebugTxMapmov0, DebugTxMapmov1, DebugTxMapmov2, PeriodicSchedule,
        BusyWaitError, Pull, WaitLate, WaitSkip, BusyWaitTail,
        SendSmall, SendSplitA, SendSplitB, sendRest,
        SendLowPri0, SendLowPri1, SendLowPri2, RecoverError0A, RecoverError0,
        RecoverError1, RecoverError2, RecoverError3, RecoverError4, recoverRest
    <2>3. CASE ~TxLocalNext
      BY <2>3 DEF TxScheduleStep, RecoverError1A, RecoverError2A, recoverRest
    <2> QED BY <2>1, <2>2, <2>3
  <1> QED BY <1>1, <1>2, <1>3, <1>4

\* TxSchedule's counters.
LEMMA TxCounts ==
    ASSUME CountTypes, TxScheduleStep
    PROVE  CountTypes'
  <1> USE DEF CountTypes, quiet, packet, counters, locals
  <1>1. CASE PreBoot \/ DebugEarlyEvent \/ WaitEvents \/ DebugTxMapmov0 \/ DebugTxMapmov1
             \/ DebugTxMapmov2 \/ PeriodicSchedule \/ BusyWaitError
    BY <1>1 DEF PreBoot, DebugEarlyEvent, WaitEvents, DebugTxMapmov0, DebugTxMapmov1,
        DebugTxMapmov2, PeriodicSchedule, BusyWaitError, GoRecover
  <1>2. CASE BusyWaitTop \/ BusyWaitTail
    BY <1>2 DEF BusyWaitTop, BusyWaitTail, LowOrAgain
  <1>3. CASE Pull \/ WaitLate \/ WaitSkip
    BY <1>3 DEF Pull, WaitLate, WaitSkip, busyRest
  <1>4. CASE SendSmall \/ SendSplitA \/ SendSplitB
    <2>1. UNCHANGED <<counters, locals>>
      BY <1>4 DEF SendSmall, SendSplitA, SendSplitB, sendRest
    <2>2. unacked' \in {unacked, unacked + 1} /\ busy' \in {busy, BusyFrames}
      BY <1>4 DEF SendSmall, SendSplitA, SendSplitB, SendDone, FinishedDebugDuplex
    <2>3. debug_duplex' \in {debug_duplex, IF debug_duplex > 0 THEN debug_duplex - 1 ELSE 0}
      BY <1>4 DEF SendSmall, SendSplitA, SendSplitB, SendDone, FinishedDebugDuplex
    <2>4. BusyFrames \in Nat
      BY TxAssumption
    <2> QED BY <2>1, <2>2, <2>3, <2>4
  <1>5. CASE SendLowPri0 \/ SendLowPri1 \/ SendLowPri2
    BY <1>5 DEF SendLowPri0, SendLowPri1, SendLowPri2
  <1>6. CASE RecoverError0A \/ RecoverError0 \/ RecoverError1 \/ RecoverError2
             \/ RecoverError3 \/ RecoverError4
    BY <1>6 DEF RecoverError0A, RecoverError0, RecoverError1, RecoverError2,
        RecoverError3, RecoverError4, recoverRest
  <1>7. CASE ~TxLocalNext
    BY <1>7 DEF TxScheduleStep, RecoverError1A, RecoverError2A, recoverRest
  <1> QED BY <1>1, <1>2, <1>3, <1>4, <1>5, <1>6, <1>7 DEF TxLocalNext

\* What is pulled is from tun, or the debug packet.
LEMMA TxData ==
    ASSUME DataTypes, JointInv, TxScheduleStep
    PROVE  DataTypes'
  <1> USE DEF DataTypes, quiet, packet
  <1>1. CASE Pull
    <2>1. d' \in {{}, {NoPacket}, tun}
      BY <1>1 DEF Pull, Pulled
    <2> QED BY <2>1 DEF JointInv, Placed
  <1>2. CASE TxLocalNext /\ ~Pull
    BY <1>2 DEF TxLocalNext, PreBoot, DebugEarlyEvent, WaitEvents,
        DebugTxMapmov0, DebugTxMapmov1, DebugTxMapmov2, PeriodicSchedule,
        BusyWaitError, BusyWaitTop, WaitLate, WaitSkip, BusyWaitTail,
        SendSmall, SendSplitA, SendSplitB, SendDone,
        SendLowPri0, SendLowPri1, SendLowPri2, RecoverError0A, RecoverError0,
        RecoverError1, RecoverError2, RecoverError3, RecoverError4, recoverRest
  <1>3. CASE ~TxLocalNext
    BY <1>3 DEF TxScheduleStep, RecoverError1A, RecoverError2A, recoverRest
  <1> QED BY <1>1, <1>2, <1>3

\* A step of TxSchedule.
LEMMA TxTypes ==
    ASSUME OtherTypes, JointInv, TxScheduleStep
    PROVE  OtherTypes'
  <1>1. PortTypes' /\ MachineTypes' /\ CountTypes' /\ DataTypes'
    BY TxPort, TxMachine, TxCounts, TxData DEF OtherTypes
  <1>2. UNCHANGED <<recovering, js_step, alive, edVars, radioVars, worldVars>>
    BY TxLeaves
  <1>3. request' \in {request, TRUE} /\ result' \in {result, FALSE}
    BY DEF TxScheduleStep, settings
  <1>4. JsTypeOK'
    BY <1>2, <1>3 DEF OtherTypes, JsTypeOK
  <1>5. EdTypeOK' /\ WorldTypes'
    BY <1>2 DEF OtherTypes, EdTypeOK, WorldTypes, edVars, radioVars, worldVars
  <1> QED BY <1>1, <1>4, <1>5 DEF OtherTypes

\* A callback of the JavaScript recovery.
LEMMA JsTypes ==
    ASSUME OtherTypes, JsStep
    PROVE  OtherTypes'
  <1>1. UNCHANGED <<txVars, edVars, radioVars, worldVars>>
    BY DEF JsStep
  <1>2. MachineTypes' /\ CountTypes' /\ DataTypes' /\ EdTypeOK' /\ WorldTypes'
    BY <1>1 DEF OtherTypes, MachineTypes, CountTypes, DataTypes, EdTypeOK, WorldTypes, txVars,
       edVars, radioVars, worldVars
  <1>3. /\ UNCHANGED <<sending_to, flush_pc, last_fill_level, allow_zmq_higgs, requestExitSendingLow,
                       valid_8k, should_pause_p, should_use_new_level>>
        /\ low' \in {low, <<>>}
    BY DEF JsStep, JsNext, MonitorCleanRequest, ExamineCapture, ZrsAfterReset,
         MarkOk, OldStyleReset, SendStatusReply, DoCheckAlive, flushVars, flushOwn, DumpLow
  <1>4. PortTypes'
    <2>1. low' \in Seq(LowFrames)
      <3>1. low \in Seq(LowFrames) /\ <<>> \in Seq(LowFrames)
        BY DEF OtherTypes, PortTypes
      <3> QED BY <1>3, <3>1, Zenon
    <2> QED BY <1>3, <2>1 DEF OtherTypes, PortTypes
  <1>5. JsTypeOK'
    <2>1. /\ js_step' \in {"monitor", "examine", "zrsAfterReset", "markOk",
                           "afterFlush", "sendStatusReply", "doCheckAlive"}
          /\ request' \in {request, FALSE} /\ result' \in {result, TRUE, FALSE}
          /\ recovering' \in {recovering, TRUE, FALSE} /\ alive' \in {alive, FALSE}
      BY DEF JsStep, JsNext, MonitorCleanRequest, ExamineCapture, ZrsAfterReset,
         MarkOk, OldStyleReset, SendStatusReply, DoCheckAlive
    <2> QED BY <2>1 DEF OtherTypes, JsTypeOK
  <1> QED BY <1>2, <1>4, <1>5 DEF OtherTypes

\* A state of tickFsmTx.
LEMMA EdTypes ==
    ASSUME OtherTypes, EventDspStep
    PROVE  OtherTypes'
  <1> USE DEF edRest, txVars, jsVars, flushVars, flushOwn
  <1>1. /\ UNCHANGED <<dsp_state, dsp_state_pending, step, epoc_valid, link_up, isDebugDuplexPacket,
                       counters, locals, debug_duplex, busy, unacked, d, radioVars, worldVars>>
        /\ UNCHANGED <<low, sending_to, flush_pc, last_fill_level, requestExitSendingLow,
                       valid_8k, should_pause_p, should_use_new_level>>
        /\ UNCHANGED <<recovering, js_step, alive, self_sync_done>>
    BY DEF EventDspStep, EdNext, EdBoot, AfterPreBoot, JsHandleFbBus0, JsHandleFbBus1,
           DecideHowToBegin, EdWaitEvents, DuplexFine, WaitTxScheduleExit, counters, locals, packet
  <1>2. /\ allow_zmq_higgs' \in {allow_zmq_higgs, TRUE, FALSE}
        /\ request' \in {request, TRUE} /\ result' \in {result, FALSE}
        /\ most_recent_event' \in {most_recent_event, "none"}
        /\ tx_dsp_state' \in EdStates
    BY DEF EventDspStep, EdNext, EdBoot, AfterPreBoot, JsHandleFbBus0, JsHandleFbBus1,
           DecideHowToBegin, EdWaitEvents, DuplexFine, WaitTxScheduleExit, EdGo, EdStates,
           BootStates, ResultTaken
  <1>3. doWarmup' \in BOOLEAN /\ exitDataMode' \in BOOLEAN
    <2>1. CASE EdWaitEvents
      BY <2>1 DEF EdWaitEvents
    <2>2. CASE ~EdWaitEvents
      <3>1. doWarmup' \in {doWarmup, TRUE} /\ UNCHANGED exitDataMode
        BY <2>2 DEF EventDspStep, EdNext, EdBoot, AfterPreBoot, JsHandleFbBus0, JsHandleFbBus1,
           DecideHowToBegin, DuplexFine, WaitTxScheduleExit
      <3> QED BY <3>1 DEF OtherTypes, MachineTypes
    <2> QED BY <2>1, <2>2
  <1>4. PortTypes'
    BY <1>1, <1>2 DEF OtherTypes, PortTypes
  <1>m. MachineTypes'
    BY <1>1, <1>3 DEF OtherTypes, MachineTypes
  <1>5. CountTypes' /\ DataTypes' /\ WorldTypes'
    BY <1>1 DEF OtherTypes, CountTypes, DataTypes, WorldTypes, counters, locals, radioVars, worldVars
  <1>6. JsTypeOK' /\ EdTypeOK'
    BY <1>1, <1>2 DEF OtherTypes, JsTypeOK, EdTypeOK
  <1> QED BY <1>4, <1>m, <1>5, <1>6 DEF OtherTypes

\* What the radio answers.
LEMMA Answers ==
    ASSUME WorldTypes, NEW u \in Unit, RadioSees(u), UNCHANGED worldVars
    PROVE  WorldTypes'
  <1> DEFINE W == {"ack", "error", "started", "ended", "alive"}
  <1>w. "ack" \in W /\ "started" \in W /\ "ended" \in W /\ "alive" \in W
    OBVIOUS
  <1> HIDE DEF W
  <1>s. <<>> \in Seq(W) /\ \A w \in W : <<w>> \in Seq(W)
    OBVIOUS
  <1>1. ZerosEnd \in Seq(W)
    BY <1>w, <1>s DEF ZerosEnd
  <1>2. u.kind \in Kinds
    BY DEF Unit
  <1>3. Answer(u) \in Seq(W)
    <2>1. CASE u.kind = "zeros"
      BY <1>w, <1>s, <2>1 DEF Answer
    <2>2. CASE u.kind = "status"
      <3>1. Answer(u) = ZerosEnd \o <<"alive">>
        BY <2>2 DEF Answer
      <3>2. <<"alive">> \in Seq(W)
        BY <1>w, <1>s
      <3> QED BY <1>1, <3>1, <3>2
    <2>3. CASE u.kind = "user"
      <3> DEFINE e == IF u.left = 0 THEN <<"ack">> ELSE <<>>
      <3>1. Answer(u) = ZerosEnd \o e
        BY <2>3 DEF Answer
      <3>2. e \in Seq(W)
        BY <1>w, <1>s
      <3> HIDE DEF e
      <3> QED BY <1>1, <3>1, <3>2
    <2>4. CASE u.kind = "low"
      BY <1>1, <2>4 DEF Answer
    <2> QED BY <1>2, <2>1, <2>2, <2>3, <2>4 DEF Kinds
  <1>4. rb' \in Seq(W)
    BY <1>3 DEF RadioSees, WorldTypes, W
  <1>5. flushing' \in BOOLEAN
    BY DEF RadioSees
  <1> QED BY <1>4, <1>5 DEF WorldTypes, worldVars, W

\* A step of FlushHiggs.
LEMMA FlushTypes ==
    ASSUME OtherTypes, FramesInv, FramesInv', FlushStep
    PROVE  OtherTypes'
  <1>1. UNCHANGED <<txVars, jsVars, edVars, worldVars>>
    BY DEF FlushStep
  <1>2. MachineTypes' /\ CountTypes' /\ DataTypes' /\ JsTypeOK' /\ EdTypeOK'
    BY <1>1 DEF OtherTypes, MachineTypes, CountTypes, DataTypes, JsTypeOK, EdTypeOK, txVars,
       jsVars, edVars
  <1>3. wire' \in Unit
    BY DEF FramesInv
  <1>4. WorldTypes'
    <2>1. UNCHANGED radioVars \/ RadioSees(wire')
      BY DEF FlushStep
    <2>2. CASE UNCHANGED radioVars
      BY <1>1, <2>2 DEF OtherTypes, WorldTypes, radioVars, worldVars
    <2>3. CASE RadioSees(wire')
      BY <1>1, <1>3, <2>3, Answers DEF OtherTypes
    <2> QED BY <2>1, <2>2, <2>3
  <1>5. /\ low' \in {low, <<>>} /\ UNCHANGED <<allow_zmq_higgs, last_fill_level>>
        /\ sending_to' \in {"IDLE", "NORMAL", "LOW"}
        /\ flush_pc' \in {"timer", "low", "pet"}
        /\ requestExitSendingLow' \in {requestExitSendingLow, FALSE}
    BY DEF FlushStep, PetSendToHiggs, SendZmqHiggsNow, PetSendToHiggs2, InspectLowPri,
           UpdateSendingFlag, NextSendingTo, OtherTypes, PortTypes
  <1>6. valid_8k' \in BOOLEAN /\ should_pause_p' \in BOOLEAN /\ should_use_new_level' \in BOOLEAN
    <2>1. CASE PetSendToHiggs \/ SendZmqHiggsNow
      BY <2>1 DEF PetSendToHiggs, SendZmqHiggsNow, OtherTypes, PortTypes
    <2>2. ASSUME NEW sends \in BOOLEAN, PetSendToHiggs2(sends)
          PROVE  valid_8k' \in BOOLEAN /\ should_pause_p' \in BOOLEAN /\ should_use_new_level' \in BOOLEAN
      <3>1. Valid8kNow \in BOOLEAN /\ ShouldPause \in BOOLEAN
        <4>1. Len(normal) \in Nat /\ EightK \in Nat
          BY FlushAssumption DEF FramesInv
        <4>2. last_fill_level \in Nat /\ ThreeK \in Nat /\ FiveK \in Nat
          BY FlushAssumption DEF OtherTypes, PortTypes
        <4>3. (normal # <<>>) \in BOOLEAN /\ (Len(normal) >= EightK) \in BOOLEAN
          BY <4>1
        <4>4. (last_fill_level > FiveK) \in BOOLEAN /\ (last_fill_level > ThreeK) \in BOOLEAN
          BY <4>2
        <4>5. Valid8kNow \in {normal # <<>>, Len(normal) >= EightK}
          BY DEF Valid8kNow
        <4>6. ShouldPause \in {last_fill_level > FiveK, last_fill_level > ThreeK}
          BY DEF ShouldPause
        <4> QED BY <4>3, <4>4, <4>5, <4>6
      <3>2. should_use_new_level' \in {TRUE, FALSE, should_use_new_level}
        BY <2>2 DEF PetSendToHiggs2
      <3> QED BY <2>2, <3>1, <3>2 DEF PetSendToHiggs2, OtherTypes, PortTypes
    <2> QED BY <2>1, <2>2 DEF FlushStep
  <1>7. PortTypes'
    <2>1. low' \in Seq(LowFrames)
      <3>1. low \in Seq(LowFrames) /\ <<>> \in Seq(LowFrames)
        BY DEF OtherTypes, PortTypes
      <3> QED BY <1>5, <3>1, Zenon
    <2> QED BY <1>5, <1>6, <2>1 DEF OtherTypes, PortTypes
  <1> QED BY <1>2, <1>4, <1>7 DEF OtherTypes

\* Spending keeps the budget one.
LEMMA SpendTypes ==
    ASSUME budget \in [BudgetKinds -> Nat], NEW what \in BudgetKinds, Spend(what)
    PROVE  budget' \in [BudgetKinds -> Nat]
  <1>1. budget[what] - 1 \in Nat
    BY DEF Spend
  <1> QED BY <1>1 DEF Spend

\* The port is as it was, but for a frame at the end of low and a fill report.
LEMMA PortStays ==
    ASSUME PortTypes, low' \in Seq(LowFrames), last_fill_level' \in FillLevels,
           UNCHANGED <<flushOwn, allow_zmq_higgs, requestExitSendingLow>>
    PROVE  PortTypes'
  BY DEF PortTypes, flushOwn

\* A step of the radio.
LEMMA RadioTypes ==
    ASSUME OtherTypes, RadioStep
    PROVE  OtherTypes'
  <1> USE DEF OtherTypes
  <1>1. CASE Dispatch
    <2>1. rb' \in Seq({"ack", "error", "started", "ended", "alive"})
      BY <1>1 DEF Dispatch, WorldTypes
    <2>2. UNCHANGED <<flushing, budget>>
      BY <1>1 DEF Dispatch, worldVars
    <2>3. WorldTypes'
      BY <2>1, <2>2 DEF WorldTypes
    <2>4. MachineTypes' /\ DataTypes' /\ EdTypeOK'
      BY <1>1 DEF Dispatch, MachineTypes, DataTypes, EdTypeOK, packet, edVars
    <2>5. PortTypes'
      BY <1>1 DEF Dispatch, PortTypes, flushVars
    <2>6. JsTypeOK'
      <3>1. UNCHANGED <<request, result, recovering, js_step>> /\ alive' = (alive \/ Head(rb) = "alive")
        BY <1>1 DEF Dispatch
      <3>2. alive' \in BOOLEAN
        BY <3>1
      <3> QED BY <3>1, <3>2 DEF JsTypeOK
    <2>7. CountTypes'
      BY <1>1 DEF Dispatch, CountTypes, locals, packet
    <2> QED BY <2>3, <2>4, <2>5, <2>6, <2>7
  <1>2. CASE LoseWord \/ RadioError
    <2>1. UNCHANGED <<flushVars, txVars, jsVars, edVars, flushing>>
      BY <1>2 DEF LoseWord, RadioError
    <2>2. rb' \in Seq({"ack", "error", "started", "ended", "alive"})
      <3> DEFINE W == {"ack", "error", "started", "ended", "alive"}
      <3>1. rb \in Seq(W) /\ "error" \in W
        BY DEF WorldTypes
      <3>2. (rb # <<>> /\ rb' = Tail(rb)) \/ rb' = Append(rb, "error")
        BY <1>2 DEF LoseWord, RadioError
      <3> HIDE DEF W
      <3>3. rb' \in Seq(W)
        BY <3>1, <3>2
      <3> QED BY <3>3 DEF W
    <2>3. budget' \in [BudgetKinds -> Nat]
      BY <1>2, SpendTypes DEF LoseWord, RadioError, WorldTypes, BudgetKinds
    <2>4. WorldTypes'
      BY <2>1, <2>2, <2>3 DEF WorldTypes
    <2>5. PortTypes' /\ MachineTypes' /\ CountTypes' /\ DataTypes' /\ JsTypeOK' /\ EdTypeOK'
      BY <2>1 DEF PortTypes, MachineTypes, CountTypes, DataTypes, JsTypeOK, EdTypeOK,
         flushVars, txVars, jsVars, edVars
    <2> QED BY <2>4, <2>5
  <1>3. CASE EpocReport
    BY <1>3 DEF EpocReport, PortTypes, MachineTypes, CountTypes, DataTypes, JsTypeOK, EdTypeOK,
       WorldTypes, flushVars, jsVars, edVars, radioVars, worldVars, counters, locals, packet
  <1>4. ASSUME NEW level \in FillLevels, FillReport(level) PROVE OtherTypes'
    <2>1. UNCHANGED <<normal, low, flushOwn, allow_zmq_higgs, requestExitSendingLow, txVars, jsVars,
                      edVars, radioVars>> /\ last_fill_level' = level
      BY <1>4 DEF FillReport, ConsumeRingbusFill
    <2>2. budget' \in [BudgetKinds -> Nat]
      <3>1. budget' = budget \/ Spend("full")
        BY <1>4 DEF FillReport
      <3> QED BY <3>1, SpendTypes DEF WorldTypes, BudgetKinds
    <2>3. PortTypes'
      BY <2>1, PortStays DEF PortTypes
    <2>4. WorldTypes'
      BY <2>1, <2>2 DEF WorldTypes, radioVars
    <2>5. MachineTypes' /\ CountTypes' /\ DataTypes' /\ JsTypeOK' /\ EdTypeOK'
      BY <2>1 DEF MachineTypes, CountTypes, DataTypes, JsTypeOK, EdTypeOK, txVars, jsVars, edVars
    <2> QED BY <2>3, <2>4, <2>5
  <1> QED BY <1>1, <1>2, <1>3, <1>4 DEF RadioStep

\* A step of the outside world.
LEMMA OutsideTypes ==
    ASSUME OtherTypes, WorldStep
    PROVE  OtherTypes'
  <1> USE DEF OtherTypes
  <1>1. ASSUME NEW frame \in LowFrames, LowArrives(frame) PROVE OtherTypes'
    <2>1. UNCHANGED <<flushOwn, allow_zmq_higgs, requestExitSendingLow, last_fill_level, txVars, jsVars,
                      edVars, radioVars>>
      BY <1>1 DEF LowArrives
    <2>2. low' \in Seq(LowFrames)
      BY <1>1 DEF LowArrives, SendToHiggsLowPriority, PortTypes
    <2>3. budget' \in [BudgetKinds -> Nat]
      <3>1. Spend("low") \/ Spend("broken")
        BY <1>1 DEF LowArrives
      <3> QED BY <3>1, SpendTypes DEF WorldTypes, BudgetKinds
    <2>4. PortTypes'
      BY <2>1, <2>2, PortStays DEF PortTypes
    <2>5. WorldTypes'
      BY <2>1, <2>3 DEF WorldTypes, radioVars
    <2>6. MachineTypes' /\ CountTypes' /\ DataTypes' /\ JsTypeOK' /\ EdTypeOK'
      BY <2>1 DEF MachineTypes, CountTypes, DataTypes, JsTypeOK, EdTypeOK, txVars, jsVars, edVars
    <2> QED BY <2>4, <2>5, <2>6
  <1>2. CASE (\E p \in Joint : HandleJointTransmit(p)) \/ (\E p \in OwnTun : TunArrives(p))
             \/ AskDebugDuplex
    <2>1. UNCHANGED <<flushVars, dsp_state, dsp_state_pending, step, doWarmup, exitDataMode, counters,
                      locals, epoc_valid, unacked, link_up, isDebugDuplexPacket, d, busy, jsVars, edVars,
                      radioVars>> /\ debug_duplex' \in {debug_duplex, 1}
      BY <1>2 DEF HandleJointTransmit, TunArrives, AskDebugDuplex, packet
    <2>2. budget' \in [BudgetKinds -> Nat]
      <3>1. budget' = budget \/ Spend("tun") \/ Spend("duplex")
        BY <1>2 DEF HandleJointTransmit, TunArrives, AskDebugDuplex
      <3> QED BY <3>1, SpendTypes DEF WorldTypes, BudgetKinds
    <2>3. WorldTypes'
      BY <2>1, <2>2 DEF WorldTypes, radioVars
    <2>4. PortTypes' /\ MachineTypes' /\ DataTypes' /\ JsTypeOK' /\ EdTypeOK'
      BY <2>1 DEF PortTypes, MachineTypes, DataTypes, JsTypeOK, EdTypeOK, flushVars, jsVars, edVars
    <2>5. CountTypes'
      BY <2>1 DEF CountTypes, counters, locals
    <2> QED BY <2>3, <2>4, <2>5
  <1>3. CASE SelfSyncDone \/ (\E e \in Events : NewEvent(e))
    <2>1. UNCHANGED <<flushVars, txVars, jsVars, tx_dsp_state, radioVars>>
      BY <1>3 DEF SelfSyncDone, NewEvent
    <2>2. budget' \in [BudgetKinds -> Nat]
      <3>1. budget' = budget \/ Spend("event")
        BY <1>3 DEF SelfSyncDone, NewEvent, worldVars
      <3> QED BY <3>1, SpendTypes DEF WorldTypes, BudgetKinds
    <2>3. WorldTypes'
      BY <2>1, <2>2 DEF WorldTypes, radioVars
    <2>4. PortTypes' /\ MachineTypes' /\ CountTypes' /\ DataTypes' /\ JsTypeOK'
      BY <2>1 DEF PortTypes, MachineTypes, CountTypes, DataTypes, JsTypeOK, flushVars, txVars, jsVars
    <2>5. self_sync_done' \in {self_sync_done, TRUE} /\ most_recent_event' \in {most_recent_event} \cup Events
      BY <1>3 DEF SelfSyncDone, NewEvent
    <2>6. EdTypeOK'
      BY <2>1, <2>5 DEF EdTypeOK
    <2> QED BY <2>3, <2>4, <2>6
  <1> QED BY <1>1, <1>2, <1>3 DEF WorldStep

\* The clock.
LEMMA ClockTypes ==
    ASSUME OtherTypes, ClockStep
    PROVE  OtherTypes'
  <1>1. /\ UNCHANGED <<flushVars, dsp_state, dsp_state_pending, step, doWarmup, exitDataMode, counters,
                      locals, epoc_valid, unacked, link_up, isDebugDuplexPacket, d, debug_duplex, jsVars,
                      edVars, radioVars, worldVars>>
        /\ busy' = IF busy > 0 THEN busy - 1 ELSE 0
    BY DEF ClockStep, Tick
  <1>2. CountTypes'
    BY <1>1 DEF OtherTypes, CountTypes, counters, locals
  <1>3. PortTypes' /\ MachineTypes' /\ DataTypes' /\ JsTypeOK' /\ EdTypeOK' /\ WorldTypes'
    BY <1>1 DEF OtherTypes, PortTypes, MachineTypes, DataTypes, JsTypeOK, EdTypeOK, WorldTypes, flushVars,
       jsVars, edVars, radioVars, worldVars
  <1> QED BY <1>2, <1>3 DEF OtherTypes

\* Every step keeps the types.
LEMMA TypesNext ==
    ASSUME OtherTypes, FramesInv, FramesInv', JointInv, [Next]_vars
    PROVE  OtherTypes'
  <1>1. CASE UNCHANGED vars
    BY <1>1 DEF vars, OtherTypes, PortTypes, MachineTypes, CountTypes, DataTypes, JsTypeOK, EdTypeOK,
       WorldTypes, flushVars, txVars, jsVars, edVars, radioVars, worldVars
  <1>2. CASE Next
    BY <1>2, FlushTypes, TxTypes, JsTypes, EdTypes, ClockTypes, RadioTypes, OutsideTypes DEF Next
  <1> QED BY <1>1, <1>2

\* Everything at its first value.
LEMMA TypesStart == Init => OtherTypes
  <1> SUFFICES ASSUME Init PROVE OtherTypes
    OBVIOUS
  <1>1. budget \in [BudgetKinds -> Nat]
    BY PathAssumption DEF Init
  <1>2. PortTypes
    <2>1. /\ low = <<>> /\ sending_to = "IDLE" /\ flush_pc = "timer" /\ last_fill_level = 0
          /\ allow_zmq_higgs = FALSE /\ requestExitSendingLow = FALSE /\ valid_8k = FALSE
          /\ should_pause_p = FALSE /\ should_use_new_level = FALSE
      BY DEF Init, FlushInit
    <2>2. low \in Seq(LowFrames) /\ last_fill_level \in FillLevels
      BY <2>1, FlushAssumption
    <2> QED BY <2>1, <2>2 DEF PortTypes
  <1>3. MachineTypes /\ CountTypes /\ DataTypes
    <2>1. MachineTypes
      BY DEF Init, TxInit, MachineTypes, TxStates, StartStates
    <2>2. CountTypes
      BY DEF Init, TxInit, CountTypes
    <2>3. DataTypes
      BY DEF Init, TxInit, DataTypes
    <2> QED BY <2>1, <2>2, <2>3
  <1>4. JsTypeOK /\ EdTypeOK
    BY DEF Init, JsInit, EdInit, JsTypeOK, EdTypeOK, EdStates, BootStates
  <1>5. WorldTypes
    <2>1. rb = <<>> /\ flushing = FALSE
      BY DEF Init
    <2>2. rb \in Seq({"ack", "error", "started", "ended", "alive"})
      BY <2>1
    <2> QED BY <1>1, <2>1, <2>2 DEF WorldTypes
  <1> QED BY <1>2, <1>3, <1>4, <1>5 DEF OtherTypes

\* Every variable of the transmit path keeps its type: the counters that both
\* tickFsmSchedule and the ringbus thread write stay naturals, the units in the
\* normal buffer are units, and what TxSchedule holds of joint packets is theirs.
THEOREM PathTypes == Spec => []TypeOK
  <1>1. FramesInv /\ ControlInv /\ [Next]_vars => FramesInv'
    BY FramesNext
  <1>2. JointInv /\ [Next]_vars => JointInv'
    BY JointNext
  <1>3. OtherTypes /\ FramesInv /\ FramesInv' /\ JointInv /\ [Next]_vars => OtherTypes'
    BY TypesNext
  <1> QED BY <1>1, <1>2, <1>3, FramesInit, JointStart, TypesStart, Typed, Control, PTL DEF Spec
=============================================================================
