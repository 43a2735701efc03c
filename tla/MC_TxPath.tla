------------------------------ MODULE MC_TxPath ------------------------------
(* TxPath for TLC: what the world may do in each run.                        *)
EXTENDS TxPath

Nothing == [k \in BudgetKinds |-> 0]

\* From power-on: a boot whose feedback bus may be broken, then in and out of
\* data mode.
BootBudget == {[Nothing EXCEPT !["event"] = 1, !["low"] = 1, !["broken"] = 1],
               [Nothing EXCEPT !["event"] = 2]}

\* Data mode with a packet in two writes: left and entered again while a
\* low-priority frame waits; with an error; with a radio that fills up.
DataBudget == {[Nothing EXCEPT !["event"] = 2, !["low"] = 1, !["duplex"] = 1],
               [Nothing EXCEPT !["event"] = 1, !["low"] = 1, !["duplex"] = 1,
                               !["error"] = 1],
               [Nothing EXCEPT !["event"] = 2, !["duplex"] = 1, !["full"] = 1]}

\* Joint packets, one for this epoc and one for the next, with the node's own
\* tun device in between and a radio that fills up, with an error, or with a
\* debug packet; the first two lead to recoveries.  The one for this epoc with
\* a low-priority frame.
JointBudget == {[Nothing EXCEPT !["event"] = 1, !["tun"] = 1, !["full"] = 1,
                                !["loss"] = 1],
                [Nothing EXCEPT !["event"] = 1, !["error"] = 1],
                [Nothing EXCEPT !["event"] = 1, !["duplex"] = 1]}
JointLowBudget == {[Nothing EXCEPT !["event"] = 1, !["low"] = 1]}
JointPackets == {[epoc |-> 0, ts |-> 2, id |-> 1],
                 [epoc |-> 1, ts |-> 3, id |-> 2]}

SafeBudget == BootBudget \cup DataBudget \cup JointBudget \cup JointLowBudget

LiveBudget == {[Nothing EXCEPT !["event"] = 1, !["low"] = 2, !["error"] = 1,
                               !["loss"] = 1]}
ErrorBudget == {[Nothing EXCEPT !["event"] = 1, !["error"] = 1]}

\* After a boot without incident: EventDsp waits for events with the port open
\* to low-priority frames, TxSchedule waits to be started, the radio's parser
\* is in the zeros of the recovery that is part of booting.
Booted ==
    /\ normal = <<>> /\ low = <<>> /\ sending_to = "IDLE"
    /\ allow_zmq_higgs = TRUE /\ requestExitSendingLow = FALSE
    /\ valid_8k = FALSE /\ should_pause_p = FALSE
    /\ should_use_new_level = FALSE /\ last_fill_level = 0
    /\ flush_pc = "timer" /\ wire = [kind |-> "zeros", left |-> 0]
    /\ dsp_state = "WAIT_EVENTS" /\ dsp_state_pending = "WAIT_EVENTS"
    /\ step = "top" /\ doWarmup = FALSE /\ exitDataMode = FALSE
    /\ errorDetected = 0 /\ flushZerosStarted = 1 /\ flushZerosEnded = 0
    /\ errorDetectedLocal = 0 /\ sendLowLoops = 0 /\ errorFlushZerosWaiting = 0
    /\ epoc_valid = FALSE /\ unacked = 0 /\ link_up = FALSE
    /\ beamform_buffer = <<>> /\ pending_valid = 0 /\ pending = NoPacket
    /\ tun = {} /\ debug_duplex = 0 /\ isDebugDuplexPacket = FALSE /\ d = {}
    /\ now \in 0..MaxNow /\ sleep = 0 /\ busy = 0 /\ nacked = {} /\ aired = {}
    /\ JsInit
    /\ tx_dsp_state = "WAIT_EVENTS" /\ most_recent_event = "none"
    /\ self_sync_done = TRUE
    /\ rb = <<>> /\ flushing = TRUE /\ toCome \in SUBSET Joint /\ budget \in Budgets

\* Without joint packets the clock stands at its bound; it runs when they come.
NoJoint == toCome = {} /\ now = MaxNow
SafeStart ==
    \/ Init /\ NoJoint /\ budget \in BootBudget
    \/ Booted /\ NoJoint /\ budget \in DataBudget
    \/ Booted /\ toCome = Joint /\ now = 0 /\ budget \in JointBudget
    \/ Booted /\ toCome = {p \in Joint : p.epoc = 0} /\ now = 0 /\ budget \in JointLowBudget
SafeSpec == SafeStart /\ [][Next]_vars

\* The radio answers within the 20 ms that TX_FSM_RECOVER_ERROR_4 waits.
PromptRadio ==
    (dsp_state_pending = "TX_FSM_RECOVER_ERROR_4"
        /\ dsp_state_pending' = "TX_FSM_RECOVER_ERROR_2")
    => normal = <<>> /\ rb = <<>>
LiveSpec == Booted /\ [][Next /\ PromptRadio]_vars /\ Fairness
=============================================================================
