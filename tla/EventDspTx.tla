----------------------------- MODULE EventDspTx -----------------------------
(***************************************************************************)
(* EventDsp::tickFsmTx, the state machine of the transmit side that runs   *)
(* on the EventDsp thread: it boots the radio with the help of the         *)
(* JavaScript recovery, then waits for events and starts and stops         *)
(* TxSchedule's data mode.                                                 *)
(*                                                                         *)
(* The states behind GET_DEBUG_RESET_FB_ONLY are left out.  Ringbus words  *)
(* to the radio change no state that is modelled.                          *)
(***************************************************************************)
EXTENDS TxSchedule, FbRecovery

CONSTANT TriggerWarmup   \* the setting runtime.tx.trigger_warmup

ASSUME EdAssumption == TriggerWarmup \in BOOLEAN

VARIABLES tx_dsp_state,       \* the state whose handler runs next
          most_recent_event,  \* d0 of the last event
          self_sync_done      \* runtime.self_sync.done, set by JavaScript

edVars == <<tx_dsp_state, most_recent_event, self_sync_done>>

Events == {"REQUEST_MAPMOV_DEBUG", "FSM_PING_EV", "EXIT_DATA_MODE_EV",
           "DUPLEX_FINE_SYNC"}

BootStates == {"PRE_BOOT", "WAIT_FOR_SELF_SYNC", "AFTER_PRE_BOOT",
               "JS_HANDLE_FB_BUS_0", "JS_HANDLE_FB_BUS_1",
               "SET_RANDOM_ROTATION", "SET_SFO_INIT_0", "SET_CFO_INIT_0",
               "DID_BOOT", "DECIDE_HOW_TO_BEGIN"}
EdStates == BootStates \cup {"WAIT_EVENTS", "DUPLEX_FINE_0", "DUPLEX_FINE_1",
                             "WAIT_TX_SCHEDULE_EXIT"}

EdInit ==
    /\ tx_dsp_state = "PRE_BOOT"
    /\ most_recent_event = "none"
    /\ self_sync_done = FALSE

EdGo(from, to) == tx_dsp_state = from /\ tx_dsp_state' = to

edRest == <<txVars, jsVars, most_recent_event, self_sync_done>>

EdBoot ==
    /\ \/ EdGo("PRE_BOOT", "WAIT_FOR_SELF_SYNC")
       \/ self_sync_done /\ EdGo("WAIT_FOR_SELF_SYNC", "AFTER_PRE_BOOT")
       \/ \E next \in {"SET_SFO_INIT_0", "SET_CFO_INIT_0", "DID_BOOT"} :
              EdGo("SET_RANDOM_ROTATION", next)
       \/ \E next \in {"SET_CFO_INIT_0", "DID_BOOT"} :
              EdGo("SET_SFO_INIT_0", next)
       \/ EdGo("SET_CFO_INIT_0", "DID_BOOT")
       \/ EdGo("DID_BOOT", "DECIDE_HOW_TO_BEGIN")
    /\ UNCHANGED <<flushVars, edRest>>

AfterPreBoot ==
    /\ EdGo("AFTER_PRE_BOOT", "JS_HANDLE_FB_BUS_0")
    /\ allow_zmq_higgs' = FALSE
    /\ UNCHANGED <<normal, low, flushOwn, requestExitSendingLow,
                   last_fill_level, edRest>>

JsHandleFbBus0 ==
    /\ EdGo("JS_HANDLE_FB_BUS_0", "JS_HANDLE_FB_BUS_1")
    /\ request' = TRUE
    /\ UNCHANGED <<flushVars, txVars, result, recovering, js_step,
                   alive, most_recent_event, self_sync_done>>

ResultKept == result
ResultTaken == FALSE
JsHandleFbBus1 ==
    /\ result
    /\ EdGo("JS_HANDLE_FB_BUS_1", "SET_RANDOM_ROTATION")
    /\ result' = ResultTaken
    /\ UNCHANGED <<flushVars, txVars, request, recovering, js_step,
                   alive, most_recent_event, self_sync_done>>

\* GET_DEBUG_TX_FILL_LEVEL starts data mode at once; otherwise low-priority
\* frames are let through while nothing else is sent.
DecideHowToBegin ==
    /\ EdGo("DECIDE_HOW_TO_BEGIN", "WAIT_EVENTS")
    /\ \/ doWarmup' = TRUE /\ UNCHANGED allow_zmq_higgs
       \/ allow_zmq_higgs' = TRUE /\ UNCHANGED doWarmup
    /\ UNCHANGED <<normal, low, flushOwn, requestExitSendingLow,
                   last_fill_level, dsp_state, dsp_state_pending, exitDataMode,
                   counters, locals, epoc_valid, unacked, link_up, joints,
                   packet, now, step, jsVars, most_recent_event,
                   self_sync_done>>

EdWaitEvents ==
    /\ tx_dsp_state = "WAIT_EVENTS"
    /\ most_recent_event # "none" \/ TriggerWarmup
    /\ most_recent_event' = "none"
    /\ doWarmup' = (\/ doWarmup \/ TriggerWarmup
                    \/ most_recent_event \in
                           {"REQUEST_MAPMOV_DEBUG", "FSM_PING_EV"})
    /\ exitDataMode' = (exitDataMode \/ most_recent_event = "EXIT_DATA_MODE_EV")
    /\ tx_dsp_state' =
           CASE most_recent_event = "EXIT_DATA_MODE_EV" -> "WAIT_TX_SCHEDULE_EXIT"
             [] most_recent_event = "DUPLEX_FINE_SYNC"  -> "DUPLEX_FINE_0"
             [] OTHER                                   -> "WAIT_EVENTS"
    /\ UNCHANGED <<flushVars, dsp_state, dsp_state_pending, counters, locals,
                   epoc_valid, unacked, link_up, joints, packet, now, step,
                   jsVars, self_sync_done>>

DuplexFine ==
    /\ \/ EdGo("DUPLEX_FINE_0", "DUPLEX_FINE_1")
       \/ EdGo("DUPLEX_FINE_1", "WAIT_EVENTS")
    /\ UNCHANGED <<flushVars, edRest>>

\* The handler looks at the state TxSchedule ran last.  The look and the write
\* are one step: TxSchedule sleeps three times between WAIT_EVENTS and data mode.
DoesNotLook == TRUE
TxScheduleAsleep == dsp_state = "WAIT_EVENTS"
WaitTxScheduleExit ==
    /\ TxScheduleAsleep
    /\ EdGo("WAIT_TX_SCHEDULE_EXIT", "WAIT_EVENTS")
    /\ allow_zmq_higgs' = TRUE
    /\ UNCHANGED <<normal, low, flushOwn, requestExitSendingLow,
                   last_fill_level, edRest>>

EdNext ==
    \/ EdBoot \/ AfterPreBoot \/ JsHandleFbBus0 \/ JsHandleFbBus1
    \/ DecideHowToBegin \/ EdWaitEvents \/ DuplexFine \/ WaitTxScheduleExit

EdTypeOK ==
    /\ tx_dsp_state \in EdStates
    /\ most_recent_event \in Events \cup {"none"}
    /\ self_sync_done \in BOOLEAN
=============================================================================
