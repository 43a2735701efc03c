------------------------------ MODULE Bringup ------------------------------
(***************************************************************************)
(* The receiver's machine and the transmitters it brings up, with          *)
(* processes that start late, crash and start again on either side.        *)
(*                                                                         *)
(* Of a transmitter, what the receiver can notice: whether it has booted   *)
(* (EventDspTx has the states), the one slot for events that its machine   *)
(* reads in WAIT_EVENTS, and whether its attached radio has been told to   *)
(* synchronise.  Nothing that was on its way survives the end of a process *)
(* at either end of the connection.                                        *)
(***************************************************************************)
EXTENDS EventDspRx

CONSTANTS MaxChanges,     \* bound: calls of changeState
          MaxTxRestarts,  \* bound: transmitters that end and start again
          MaxRxRestarts   \* bound: receivers that end and start again

ASSUME BringupAssumption ==
    MaxChanges \in Nat /\ MaxTxRestarts \in Nat /\ MaxRxRestarts \in Nat

VARIABLES tx_dsp_state,       \* of each transmitter
          most_recent_event,  \* its slot
          inserts,            \* its _rx_should_insert_sfo_cfo
          fine,               \* its attached radio left DID_BOOT
          coarse,             \* coarse triggers it got
          late,               \* it restarted after its feedback bus answered
          changes, txRestarts, rxRestarts

txVars == <<tx_dsp_state, most_recent_event, held, inserts, fine, coarse, toRx, late>>
bounds == <<changes, txRestarts, rxRestarts>>
vars == <<rxVars, connected, toPeer, txVars, bounds>>

TxStates == {"off", "booting", "WAIT_EVENTS", "DUPLEX_FINE_0", "DUPLEX_FINE_1"}
Messages == {"REQUEST_ID", "PING", "DUPLEX_SYNCHRONIZATION_CMD", "DUPLEX_FINE_SYNC"}
Booted(p) == tx_dsp_state[p] \notin {"off", "booting"}

Init ==
    /\ RxInit
    /\ connected = {} /\ toPeer = [p \in Peer |-> <<>>]
    /\ tx_dsp_state = [p \in Peer |-> "off"]
    /\ most_recent_event = [p \in Peer |-> "none"]
    /\ held = {} /\ inserts = {} /\ fine = {}
    /\ coarse = [p \in Peer |-> 0]
    /\ toRx = {} /\ late = {}
    /\ changes = MaxChanges /\ txRestarts = MaxTxRestarts /\ rxRestarts = MaxRxRestarts

-----------------------------------------------------------------------------
(* The receiver.                                                           *)

Tick == TickFsmRx /\ UNCHANGED <<txVars, bounds>>

Change ==
    /\ changes > 0 /\ changes' = changes - 1
    /\ \E desired \in {"PRE_BOOT_2", "another"} : ChangeState(desired)
    /\ UNCHANGED <<txVars, txRestarts, rxRestarts>>

AnswerArrives(p) ==
    /\ \/ /\ <<p, "REPLY_ID">> \in toRx /\ PeerConnectedReply(p)
          /\ toRx' = toRx \ {<<p, "REPLY_ID">>}
       \/ /\ <<p, "ALIVE">> \in toRx /\ FeedbackAlive(p)
          /\ toRx' = toRx \ {<<p, "ALIVE">>}
    /\ UNCHANGED <<dsp_state, dsp_state_pending, change, rx_should_insert_sfo_cfo,
                   self_sync_done, connected, toPeer, tx_dsp_state, most_recent_event, held, inserts,
                   fine, coarse, late, bounds>>

SelfSyncDone ==
    /\ ~self_sync_done /\ self_sync_done' = TRUE
    /\ UNCHANGED <<dsp_state, dsp_state_pending, change, rx_should_insert_sfo_cfo,
                   peer_state_got, feedback_alive, connected, toPeer, txVars, bounds>>

RxRestart ==
    /\ rxRestarts > 0 /\ rxRestarts' = rxRestarts - 1
    /\ dsp_state' = "PRE_BOOT" /\ dsp_state_pending' = "PRE_BOOT" /\ change' = "none"
    /\ rx_should_insert_sfo_cfo' = FALSE /\ self_sync_done' = FALSE
    /\ peer_state_got' = {} /\ feedback_alive' = {}
    /\ connected' = {} /\ toPeer' = [p \in Peer |-> <<>>] /\ toRx' = {}
    /\ late' = {}
    /\ UNCHANGED <<tx_dsp_state, most_recent_event, held, inserts, fine, coarse,
                   changes, txRestarts>>

-----------------------------------------------------------------------------
(* A transmitter.                                                          *)

TxStart(p) ==
    /\ tx_dsp_state[p] = "off"
    /\ tx_dsp_state' = [tx_dsp_state EXCEPT ![p] = "booting"]
    /\ UNCHANGED <<rxVars, connected, toPeer, most_recent_event, held, inserts, fine,
                   coarse, toRx, late, bounds>>

Connect(p) ==
    /\ tx_dsp_state[p] # "off" /\ p \notin connected
    /\ connected' = connected \cup {p}
    /\ UNCHANGED <<rxVars, toPeer, txVars, bounds>>

\* The radio's feedback bus answers a ping over the ringbus.
Alive(p) == toRx' = IF p \in connected THEN toRx \cup {<<p, "ALIVE">>} ELSE toRx

\* DECIDE_HOW_TO_BEGIN sets allow_zmq_higgs: what came for the radio over zmq,
\* held back until then, is written to it.
TxBoots(p) ==
    /\ tx_dsp_state[p] = "booting"
    /\ tx_dsp_state' = [tx_dsp_state EXCEPT ![p] = "WAIT_EVENTS"]
    /\ held' = held \ {p}
    /\ IF p \in held THEN Alive(p) ELSE UNCHANGED toRx
    /\ UNCHANGED <<rxVars, connected, toPeer, most_recent_event, inserts, fine,
                   coarse, late, bounds>>

Arrives(p, msg) ==
    /\ toPeer[p] # <<>> /\ Head(toPeer[p]) = msg
    /\ toPeer' = [toPeer EXCEPT ![p] = Tail(@)]

\* handlePcPcVectorType: FEEDBACK_VEC_REQUEST_ID
RequestIdArrives(p) ==
    /\ Arrives(p, "REQUEST_ID")
    /\ toRx' = toRx \cup {<<p, "REPLY_ID">>}
    /\ UNCHANGED <<rxVars, connected, tx_dsp_state, most_recent_event, held, inserts,
                   fine, coarse, late, bounds>>

PingArrives(p) ==
    /\ Arrives(p, "PING")
    /\ \/ Booted(p) /\ Alive(p) /\ UNCHANGED held
       \/ ~Booted(p) /\ held' = held \cup {p} /\ UNCHANGED toRx
    /\ UNCHANGED <<rxVars, connected, tx_dsp_state, most_recent_event, inserts, fine,
                   coarse, late, bounds>>

CoarseArrives(p) ==
    /\ Arrives(p, "DUPLEX_SYNCHRONIZATION_CMD")
    /\ coarse' = [coarse EXCEPT ![p] = @ + 1]
    /\ UNCHANGED <<rxVars, connected, tx_dsp_state, most_recent_event, held, inserts,
                   fine, toRx, late, bounds>>

\* FEEDBACK_VEC_DELIVER_FSM_EVENT, then handleCustomEventTx: into the slot.
FineArrives(p) ==
    /\ Arrives(p, "DUPLEX_FINE_SYNC")
    /\ most_recent_event' = [most_recent_event EXCEPT ![p] = "DUPLEX_FINE_SYNC"]
    /\ UNCHANGED <<rxVars, connected, tx_dsp_state, held, inserts, fine, coarse, toRx,
                   late, bounds>>

TxGo(p, from, to) ==
    /\ tx_dsp_state[p] = from
    /\ tx_dsp_state' = [tx_dsp_state EXCEPT ![p] = to]

TickWaitEvents(p) ==
    /\ most_recent_event[p] = "DUPLEX_FINE_SYNC"
    /\ TxGo(p, "WAIT_EVENTS", "DUPLEX_FINE_0")
    /\ most_recent_event' = [most_recent_event EXCEPT ![p] = "none"]
    /\ UNCHANGED <<rxVars, connected, toPeer, held, inserts, fine, coarse, toRx, late,
                   bounds>>

TickDuplexFine0(p) ==
    /\ TxGo(p, "DUPLEX_FINE_0", "DUPLEX_FINE_1")
    /\ inserts' = inserts \cup {p}
    /\ UNCHANGED <<rxVars, connected, toPeer, most_recent_event, held, fine, coarse,
                   toRx, late, bounds>>

\* REQUEST_FINE_SYNC_EV: the machine of the attached radio leaves DID_BOOT.
\* It never comes back to it; a second request changes nothing.
TickDuplexFine1(p) ==
    /\ TxGo(p, "DUPLEX_FINE_1", "WAIT_EVENTS")
    /\ fine' = fine \cup {p}
    /\ UNCHANGED <<rxVars, connected, toPeer, most_recent_event, held, inserts, coarse,
                   toRx, late, bounds>>

Answered(p) == p \in feedback_alive \/ <<p, "ALIVE">> \in toRx

TxRestart(p) ==
    /\ tx_dsp_state[p] # "off"
    /\ txRestarts > 0 /\ txRestarts' = txRestarts - 1
    /\ tx_dsp_state' = [tx_dsp_state EXCEPT ![p] = "off"]
    /\ most_recent_event' = [most_recent_event EXCEPT ![p] = "none"]
    /\ held' = held \ {p} /\ inserts' = inserts \ {p} /\ fine' = fine \ {p}
    /\ coarse' = [coarse EXCEPT ![p] = 0]
    /\ connected' = connected \ {p} /\ toPeer' = [toPeer EXCEPT ![p] = <<>>]
    /\ late' = IF Answered(p) THEN late \cup {p} ELSE late
    /\ UNCHANGED <<rxVars, toRx, changes, rxRestarts>>

TxSteps(p) ==
    \/ TxStart(p) \/ Connect(p) \/ TxBoots(p) \/ AnswerArrives(p)
    \/ RequestIdArrives(p) \/ PingArrives(p) \/ CoarseArrives(p) \/ FineArrives(p)
    \/ TickWaitEvents(p) \/ TickDuplexFine0(p) \/ TickDuplexFine1(p)

Next ==
    \/ Tick \/ Change \/ SelfSyncDone \/ RxRestart
    \/ \E p \in Peer : TxSteps(p) \/ TxRestart(p)

\* Timers fire, the self synchronisation ends, every transmitter is started
\* (again), boots and connects, and what is sent over a connection arrives.
\* Restarts and calls of changeState need not happen.
Fairness ==
    /\ WF_vars(Tick) /\ WF_vars(SelfSyncDone)
    /\ \A p \in Peer :
        /\ WF_vars(TxStart(p)) /\ WF_vars(Connect(p)) /\ WF_vars(TxBoots(p))
        /\ WF_vars(AnswerArrives(p))
        /\ WF_vars(RequestIdArrives(p)) /\ WF_vars(PingArrives(p))
        /\ WF_vars(CoarseArrives(p)) /\ WF_vars(FineArrives(p))
        /\ WF_vars(TickWaitEvents(p)) /\ WF_vars(TickDuplexFine0(p))
        /\ WF_vars(TickDuplexFine1(p))

Spec == Init /\ [][Next]_vars /\ Fairness

-----------------------------------------------------------------------------
TypeOK ==
    /\ dsp_state \in RxStates /\ dsp_state_pending \in RxStates
    /\ change \in {"none", "PRE_BOOT_2", "another"}
    /\ rx_should_insert_sfo_cfo \in BOOLEAN /\ self_sync_done \in BOOLEAN
    /\ peer_state_got \subseteq Peer /\ feedback_alive \subseteq Peer
    /\ connected \subseteq Peer /\ toPeer \in [Peer -> Seq(Messages)]
    /\ tx_dsp_state \in [Peer -> TxStates]
    /\ most_recent_event \in [Peer -> {"none", "DUPLEX_FINE_SYNC"}]
    /\ held \subseteq Peer /\ inserts \subseteq Peer /\ fine \subseteq Peer
    /\ late \subseteq Peer
    /\ coarse \in [Peer -> Nat] /\ toRx \subseteq Peer \X {"REPLY_ID", "ALIVE"}
    /\ changes \in 0..MaxChanges /\ txRestarts \in 0..MaxTxRestarts
    /\ rxRestarts \in 0..MaxRxRestarts

\* However often JavaScript asks to start again, a receiver triggers the coarse
\* synchronisation of a transmitter at most once: executeChangeState refuses
\* from the trigger on, so that a transmitter which is about to get, or has got,
\* its request for the fine synchronisation is not moved under it.
OncePerLife == \A p \in Peer : coarse[p] <= 1 + MaxRxRestarts - rxRestarts

\* resetCoarseState runs only while no samples are inserted.  The thread that
\* inserts them tests the flag before it enqueues, so with the flag on, a sample
\* could go into the buffer after the dump.
ResetIsQuiet == [][TickCoarseDelay => ~rx_should_insert_sfo_cfo]_vars

\* No transmitter gets the coarse trigger before its machine has booted (its
\* boot sets the same registers of the radio again): the feedback bus answers
\* only after the boot, and the receiver waits for as many answers as it has
\* transmitters.  A transmitter that restarts after its answer is not covered.
BootedWhenTold ==
    [][\A p \in Peer : CoarseArrives(p) => Booted(p) \/ p \in late]_vars

\* The bring-up succeeds: in whatever order the processes start, with restarts
\* of the receiver at any time and of a transmitter until its feedback bus has
\* answered, every transmitter's radio starts its fine synchronisation.
EveryoneSyncs == <>[](TxPeers \subseteq fine \cup late)
=============================================================================
