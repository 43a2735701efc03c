----------------------------- MODULE FbRecovery -----------------------------
(***************************************************************************)
(* HandleFeedbackBusRecovery, the JavaScript side of an error recovery.    *)
(* A timer of 10 ms looks for a request in the settings; the rest is a     *)
(* chain of setTimeout callbacks, `js_step' naming the one that is due.    *)
(* The C++ state machines learn of the outcome by polling `result'.        *)
(***************************************************************************)
EXTENDS FlushHiggs

VARIABLES request, result,       \* runtime.js.recover_fb.request and .result
          recovering,            \* this.recovering
          js_step,               \* the callback that is due
          alive                  \* feedback_alive_count > last_alive_count

settings == <<request, result>>
jsVars == <<request, result, recovering, js_step, alive>>

JsInit ==
    /\ request = FALSE /\ result = FALSE
    /\ recovering = FALSE
    /\ js_step = "monitor"
    /\ alive = FALSE

FlushZeros == <<[kind |-> "zeros", left |-> 0]>>
CheckAlive == <<[kind |-> "status", left |-> 0]>>

MonitorCleanRequest ==
    /\ js_step = "monitor"
    /\ request /\ ~recovering
    /\ recovering' = TRUE
    /\ request' = FALSE
    /\ result' = FALSE
    /\ js_step' = "examine"
    /\ UNCHANGED <<flushVars, alive>>

\* 300 ms later.  The capture of the radio's state is the radio's: it is in
\* the middle of a user-data frame (ud.state is not 0) or it is not.
ExamineCapture(midFrame) ==
    /\ js_step = "examine"
    /\ IF midFrame
       THEN SendToHiggs(FlushZeros) /\ js_step' = "afterFlush"
       ELSE js_step' = "zrsAfterReset" /\ UNCHANGED normal
    /\ UNCHANGED <<low, flushOwn, allow_zmq_higgs, requestExitSendingLow,
                   last_fill_level, request, result, recovering, alive>>

ZrsAfterReset ==
    /\ js_step = "zrsAfterReset"
    /\ SendToHiggs(FlushZeros)
    /\ js_step' = "markOk"
    /\ UNCHANGED <<low, flushOwn, allow_zmq_higgs, requestExitSendingLow,
                   last_fill_level, request, result, recovering, alive>>

GoesRound ==  \* a deviation
    /\ js_step = "markOk"
    /\ result' = TRUE
    /\ recovering' = FALSE
    /\ js_step' = "zrsAfterReset"
    /\ UNCHANGED <<flushVars, request, alive>>
MarkOk ==
    /\ js_step = "markOk"
    /\ result' = TRUE
    /\ recovering' = FALSE
    /\ js_step' = "monitor"
    /\ UNCHANGED <<flushVars, request, alive>>

\* afterFlush polls until the zeros are out, then resets.
OldStyleReset ==
    /\ js_step = "afterFlush" /\ NormalLenIsZero
    /\ DumpLow
    /\ SendToHiggs(FlushZeros)
    /\ alive' = FALSE          \* last_alive_count = feedback_alive_count
    /\ js_step' = "sendStatusReply"
    /\ UNCHANGED <<flushOwn, allow_zmq_higgs, requestExitSendingLow,
                   last_fill_level, request, result, recovering>>

SendStatusReply ==
    /\ js_step = "sendStatusReply"
    /\ SendToHiggs(CheckAlive)
    /\ js_step' = "doCheckAlive"
    /\ UNCHANGED <<low, flushOwn, allow_zmq_higgs, requestExitSendingLow,
                   last_fill_level, request, result, recovering, alive>>

\* Looked at once: without a reply the recovery is never reported as done.
DoCheckAlive ==
    /\ js_step = "doCheckAlive"
    /\ IF alive
       THEN result' = TRUE /\ recovering' = FALSE
       ELSE UNCHANGED <<result, recovering>>
    /\ js_step' = "monitor"
    /\ UNCHANGED <<flushVars, request, alive>>

JsNext ==
    \/ MonitorCleanRequest
    \/ \E midFrame \in BOOLEAN : ExamineCapture(midFrame)
    \/ ZrsAfterReset \/ MarkOk
    \/ OldStyleReset \/ SendStatusReply \/ DoCheckAlive

JsTypeOK ==
    /\ {request, result, recovering, alive} \subseteq BOOLEAN
    /\ js_step \in {"monitor", "examine", "zrsAfterReset", "markOk",
                    "afterFlush", "sendStatusReply", "doCheckAlive"}
=============================================================================
