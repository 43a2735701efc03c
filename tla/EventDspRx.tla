----------------------------- MODULE EventDspRx -----------------------------
(***************************************************************************)
(* EventDsp::tickFsmRx, the state machine of the receiving node: it finds  *)
(* the transmitters, waits until their feedback buses answer, triggers the *)
(* coarse synchronisation of each and then asks each for the fine one.     *)
(*                                                                         *)
(* The settings are those of the duplex configuration: no debug stall, no  *)
(* blocked machine, no flood ping or epoc test.  Ringbus words that only   *)
(* set registers of the radios change no state that is modelled.           *)
(***************************************************************************)
EXTENDS Integers, Sequences, FiniteSets

CONSTANTS N,      \* the transmitters that exist: the first N of t0, t1, t2, t3
          Wait    \* DSP_WAIT_FOR_PEERS

ASSUME RxAssumption == N \in Nat /\ N >= 2 /\ Wait \in 1..N

Peer == 1..N

VARIABLES dsp_state,          \* the state whose handler ran last
          dsp_state_pending,  \* the state whose handler runs next
          change,             \* _pending_change_state, while _change_pending
          rx_should_insert_sfo_cfo,
          self_sync_done,     \* runtime.self_sync.done, set by JavaScript
          peer_state_got,     \* the peers with a count above 0
          feedback_alive,     \* the radios with a count above 0
          connected,          \* the peers that zmq has a connection with
          toPeer,             \* zmq messages on their way to each peer
          toRx,               \* answers on their way
          held                \* the peers that hold a ping back until they have booted

rxVars == <<dsp_state, dsp_state_pending, change, rx_should_insert_sfo_cfo,
            self_sync_done, peer_state_got, feedback_alive>>

\* getTxPeers, and setupRadioVector: at least two radios.
TxPeers == 1..Wait
Radios == TxPeers \cup {2}

\* A run of states that only set registers, and that nothing else tells apart,
\* is one state here, with the name of its first: TICKLE_PEERS to
\* TICKLE_PEERS_3_DOT_5, PRE_BOOT_2 to SET_CFO_INIT_0 (some behind settings),
\* RX_SYNC_1 and RX_SYNC_2.
RxStates ==
    {"PRE_BOOT", "WAIT_FOR_SELF_SYNC", "AFTER_PRE_BOOT", "WAIT_FOR_PEERS",
     "TICKLE_PEERS", "TICKLE_PEERS_3_DOT_55", "TICKLE_PEERS_3_DOT_6",
     "TICKLE_PEERS_3_DOT_7", "TICKLE_PEERS_4", "PRE_BOOT_2", "DID_BOOT",
     "RX_SYNC_1", "DO_WAIT", "COARSE_SCHEDULE_0", "CORASE_SCHEDULE_DELAY_0",
     "DUPLEX_COARSE_0", "DUPLEX_COARSE_1", "DEBUG_STALL"}

RxInit ==
    /\ dsp_state = "PRE_BOOT" /\ dsp_state_pending = "PRE_BOOT"
    /\ change = "none"
    /\ rx_should_insert_sfo_cfo = FALSE
    /\ self_sync_done = FALSE
    /\ peer_state_got = {} /\ feedback_alive = {}

-----------------------------------------------------------------------------
(* A zmq publisher drops what it sends to a peer it has no connection      *)
(* with, and delivers the rest in order.  Requests and pings go out again  *)
(* and again; one whose answer would change nothing, because the same is   *)
(* on its way, held, answered or counted, is left out.                     *)

OnItsWay(p, msg) == \E i \in 1..Len(toPeer[p]) : toPeer[p][i] = msg

TellsNothing(p, msg) ==
    \/ /\ msg = "REQUEST_ID"
       /\ OnItsWay(p, msg) \/ <<p, "REPLY_ID">> \in toRx \/ p \in peer_state_got
    \/ /\ msg = "PING"
       /\ \/ OnItsWay(p, msg) \/ p \in held
          \/ <<p, "ALIVE">> \in toRx \/ p \in feedback_alive

Send(peers, msg) ==
    toPeer' = [p \in Peer |->
        IF p \in peers \cap connected /\ ~TellsNothing(p, msg)
        THEN Append(toPeer[p], msg) ELSE toPeer[p]]

-----------------------------------------------------------------------------
\* changeState, from the JavaScript thread: dropped while a request waits.
ChangeState(desired) ==
    /\ change = "none" /\ change' = desired
    /\ UNCHANGED <<dsp_state, dsp_state_pending, rx_should_insert_sfo_cfo,
                   self_sync_done, peer_state_got, feedback_alive, connected, toPeer>>

\* executeChangeState looks at the state that ran last.  (The states from
\* CORASE_SYMBOL_WAIT_0 on, which it also allows, are of the mode before duplex
\* and are not reached.)
AlsoWhenStalled == {"DID_BOOT", "DO_WAIT", "COARSE_SCHEDULE_0",
                    "CORASE_SCHEDULE_DELAY_0", "DEBUG_STALL"}  \* a deviation
AlsoInDuplex == {"DID_BOOT", "DO_WAIT", "COARSE_SCHEDULE_0",
                 "CORASE_SCHEDULE_DELAY_0", "DUPLEX_COARSE_0"}  \* a deviation
MayStartAgain == {"DID_BOOT", "DO_WAIT", "COARSE_SCHEDULE_0",
                  "CORASE_SCHEDULE_DELAY_0"}

Running == IF change = "PRE_BOOT_2" /\ dsp_state \in MayStartAgain
           THEN "PRE_BOOT_2" ELSE dsp_state_pending

\* The frame of tickFsmRx: a requested change first, then the handler of the
\* state, which names the next.
Go(state, next) ==
    /\ Running = state
    /\ dsp_state' = state /\ dsp_state_pending' = next
    /\ change' = "none"

\* What a state that only sends leaves alone.
rxData == <<rx_should_insert_sfo_cfo, self_sync_done, peer_state_got,
            feedback_alive, connected>>

TickBegin ==
    /\ \/ Go("PRE_BOOT", "WAIT_FOR_SELF_SYNC")
       \/ Go("AFTER_PRE_BOOT", "WAIT_FOR_PEERS")
    /\ UNCHANGED <<rxData, toPeer>>

TickTickle ==
    /\ Go("TICKLE_PEERS", "TICKLE_PEERS_3_DOT_55")
    /\ UNCHANGED <<rxData, toPeer>>

TickSetUp ==
    /\ \/ Go("TICKLE_PEERS_4", "PRE_BOOT_2")
       \/ Go("PRE_BOOT_2", "DID_BOOT")
    /\ UNCHANGED <<rxData, toPeer>>

TickSync ==
    /\ \/ Go("DID_BOOT", "RX_SYNC_1")
       \/ Go("RX_SYNC_1", "DO_WAIT")
       \/ Go("DO_WAIT", "COARSE_SCHEDULE_0")
       \/ Go("COARSE_SCHEDULE_0", "CORASE_SCHEDULE_DELAY_0")
    /\ UNCHANGED <<rxData, toPeer>>

TickStall ==
    /\ Go("DEBUG_STALL", "DEBUG_STALL")
    /\ UNCHANGED <<rxData, toPeer>>

TickSelfSync ==
    /\ \/ self_sync_done /\ Go("WAIT_FOR_SELF_SYNC", "AFTER_PRE_BOOT")
       \/ ~self_sync_done /\ Go("WAIT_FOR_SELF_SYNC", "WAIT_FOR_SELF_SYNC")
    /\ UNCHANGED <<rxData, toPeer>>

\* allPeersConnected asks on every call, and counts the answers.
AskedOnce == IF dsp_state = "AFTER_PRE_BOOT" THEN Send(TxPeers, "REQUEST_ID")
             ELSE UNCHANGED toPeer  \* a deviation
Asked == Send(TxPeers, "REQUEST_ID")

TickWaitForPeers ==
    /\ Asked
    /\ \/ TxPeers \subseteq peer_state_got /\ Go("WAIT_FOR_PEERS", "TICKLE_PEERS")
       \/ ~(TxPeers \subseteq peer_state_got) /\ Go("WAIT_FOR_PEERS", "WAIT_FOR_PEERS")
    /\ UNCHANGED rxData

\* TICKLE_PEERS_3_DOT_55 to 3_DOT_7: forget the answers of the feedback buses,
\* ping them all, look a second later, and ping again until enough answered.
TickResetAlive ==
    /\ Go("TICKLE_PEERS_3_DOT_55", "TICKLE_PEERS_3_DOT_6")
    /\ feedback_alive' = {}
    /\ UNCHANGED <<rx_should_insert_sfo_cfo, self_sync_done, peer_state_got,
                   connected, toPeer>>

TickPing ==
    /\ Go("TICKLE_PEERS_3_DOT_6", "TICKLE_PEERS_3_DOT_7")
    /\ Send(Radios, "PING")
    /\ UNCHANGED rxData

AnyIsEnough == feedback_alive \cap Radios # {}  \* a deviation
EnoughFound == Cardinality(feedback_alive \cap Radios) >= Wait

TickLook ==
    /\ \/ EnoughFound /\ Go("TICKLE_PEERS_3_DOT_7", "TICKLE_PEERS_4")
       \/ ~EnoughFound /\ Go("TICKLE_PEERS_3_DOT_7", "TICKLE_PEERS_3_DOT_6")
    /\ UNCHANGED <<rxData, toPeer>>

\* resetCoarseState: no more samples are inserted, and those there are dumped.
TickCoarseDelay ==
    /\ Go("CORASE_SCHEDULE_DELAY_0", "DUPLEX_COARSE_0")
    /\ rx_should_insert_sfo_cfo' = FALSE
    /\ UNCHANGED <<self_sync_done, peer_state_got, feedback_alive, connected, toPeer>>

\* The word for the radio's RX_FFT goes through the ringbus queue of EventDsp
\* without a delay; the next state comes 2 s later.
TickCoarse ==
    /\ Go("DUPLEX_COARSE_0", "DUPLEX_COARSE_1")
    /\ Send(TxPeers, "DUPLEX_SYNCHRONIZATION_CMD")
    /\ UNCHANGED rxData

TickFine ==
    /\ Go("DUPLEX_COARSE_1", "DEBUG_STALL")
    /\ rx_should_insert_sfo_cfo' = TRUE
    /\ Send(TxPeers, "DUPLEX_FINE_SYNC")
    /\ UNCHANGED <<self_sync_done, peer_state_got, feedback_alive, connected>>

TickFsmRx == TickBegin \/ TickTickle \/ TickSetUp \/ TickSync \/ TickStall
             \/ TickSelfSync \/ TickWaitForPeers \/ TickResetAlive \/ TickPing
             \/ TickLook \/ TickCoarseDelay \/ TickCoarse \/ TickFine

\* peerConnectedReply, and dispatchRemoteRb's FEEDBACK_ALIVE.
PeerConnectedReply(p) ==
    /\ peer_state_got' = peer_state_got \cup {p}
    /\ UNCHANGED feedback_alive
CountsTheIndex(p) ==  \* a deviation
    /\ feedback_alive' = feedback_alive \cup {p - 1}
    /\ UNCHANGED peer_state_got
FeedbackAlive(p) ==
    /\ feedback_alive' = feedback_alive \cup {p}
    /\ UNCHANGED peer_state_got
=============================================================================
