---------------------------- MODULE BringupProofs ----------------------------
(***************************************************************************)
(* The safety of the bring-up for any number of transmitters, restarts and *)
(* requests to start again.                                                *)
(*                                                                         *)
(* IInv adds to the types where the machine is: Triggered is from the      *)
(* coarse trigger on, and has no way back in the life of a receiver;       *)
(* Passed is from the moment enough feedback buses have answered.          *)
(***************************************************************************)
EXTENDS Bringup, FiniteSetTheorems, TLAPS

CMD == "DUPLEX_SYNCHRONIZATION_CMD"

\* The states from the trigger on.
Triggered == {"DUPLEX_COARSE_0", "DUPLEX_COARSE_1", "DEBUG_STALL"}
NoWayBack == dsp_state \in Triggered => dsp_state_pending \in {"DUPLEX_COARSE_1", "DEBUG_STALL"}

\* Samples are inserted only where the machine comes to rest.
QuietUntilTheEnd ==
    rx_should_insert_sfo_cfo =>
        /\ dsp_state \in {"DUPLEX_COARSE_1", "DEBUG_STALL"}
        /\ dsp_state_pending = "DEBUG_STALL"

\* A trigger is on its way to a peer at most once, and counts with those the
\* peer got.
Lives == MaxRxRestarts - rxRestarts
OneTrigger ==
    \A p \in Peer :
        /\ coarse[p] <= 1 + Lives
        /\ dsp_state \notin Triggered => coarse[p] <= Lives /\ ~OnItsWay(p, CMD)
        /\ OnItsWay(p, CMD) => coarse[p] <= Lives
        /\ \A i, j \in 1..Len(toPeer[p]) :
               toPeer[p][i] = CMD /\ toPeer[p][j] = CMD => i = j

TriggerInv == NoWayBack /\ QuietUntilTheEnd /\ OneTrigger

\* The states after TICKLE_PEERS_3_DOT_7 has found enough.
Passed == {"TICKLE_PEERS_4", "PRE_BOOT_2", "DID_BOOT", "RX_SYNC_1", "DO_WAIT",
           "COARSE_SCHEDULE_0", "CORASE_SCHEDULE_DELAY_0"} \cup Triggered

Up(p) == Booted(p) \/ p \in late

AnswerInv ==
    /\ dsp_state \in Passed \/ dsp_state_pending \in Passed => TxPeers \subseteq feedback_alive
    /\ \A p \in Peer : Answered(p) \/ OnItsWay(p, CMD) => Up(p)

-----------------------------------------------------------------------------
(* What zmq does with a message: the queue of a peer grows by it or stays. *)

LEMMA SendGrows ==
    ASSUME TypeOK, NEW peers, NEW msg \in Messages, Send(peers, msg), NEW p \in Peer
    PROVE  /\ toPeer'[p] \in Seq(Messages)
           /\ \/ toPeer'[p] = toPeer[p]
              \/ p \in peers /\ toPeer'[p] = Append(toPeer[p], msg)
           /\ toPeer' = [q \in Peer |-> toPeer'[q]]
  BY DEF TypeOK, Send

LEMMA ArrivesShrinks ==
    ASSUME TypeOK, NEW p \in Peer, NEW msg, Arrives(p, msg)
    PROVE  /\ toPeer'[p] \in Seq(Messages)
           /\ toPeer' = [toPeer EXCEPT ![p] = toPeer'[p]]
           /\ Len(toPeer[p]) > 0 /\ toPeer[p][1] = msg
           /\ Len(toPeer'[p]) = Len(toPeer[p]) - 1
           /\ \A i \in 1..Len(toPeer'[p]) : toPeer'[p][i] = toPeer[p][i + 1]
  BY DEF TypeOK, Arrives

-----------------------------------------------------------------------------
(* One tick of the receiver, told by the state that ran.                   *)

Moves ==
    /\ dsp_state' = Running /\ dsp_state' \in RxStates /\ dsp_state_pending' \in RxStates
    /\ change' = "none"
    /\ dsp_state' = "DUPLEX_COARSE_0" => dsp_state_pending' = "DUPLEX_COARSE_1"
    /\ dsp_state' \in {"DUPLEX_COARSE_1", "DEBUG_STALL"} => dsp_state_pending' = "DEBUG_STALL"
    /\ dsp_state_pending' \in Passed =>
          \/ dsp_state' \in Passed
          \/ dsp_state' = "TICKLE_PEERS_3_DOT_7" /\ EnoughFound
    /\ \/ rx_should_insert_sfo_cfo' = rx_should_insert_sfo_cfo
       \/ dsp_state' # "DEBUG_STALL" /\ rx_should_insert_sfo_cfo' = (dsp_state' = "DUPLEX_COARSE_1")
    /\ \/ feedback_alive' = feedback_alive
       \/ feedback_alive' = {} /\ dsp_state' \notin Passed /\ dsp_state_pending' \notin Passed

Posts ==
    /\ toPeer' \in [Peer -> Seq(Messages)]
    /\ \A p \in Peer :
        \/ toPeer'[p] = toPeer[p]
        \/ \E msg \in Messages :
            /\ toPeer'[p] = Append(toPeer[p], msg)
            /\ msg = CMD => p \in TxPeers /\ dsp_state' = "DUPLEX_COARSE_0"

LEMMA TickMoves == ASSUME TypeOK, TickFsmRx PROVE Moves
  <1> USE DEF Moves, RxStates, Passed, Triggered, Go
  <1>1. CASE TickBegin BY <1>1 DEF TickBegin, rxData
  <1>2. CASE TickTickle BY <1>2 DEF TickTickle, rxData
  <1>3. CASE TickSetUp BY <1>3 DEF TickSetUp, rxData
  <1>4. CASE TickSync BY <1>4 DEF TickSync, rxData
  <1>5. CASE TickStall BY <1>5 DEF TickStall, rxData
  <1>6. CASE TickSelfSync BY <1>6 DEF TickSelfSync, rxData
  <1>7. CASE TickWaitForPeers BY <1>7 DEF TickWaitForPeers, rxData
  <1>8. CASE TickResetAlive BY <1>8 DEF TickResetAlive
  <1>9. CASE TickPing BY <1>9 DEF TickPing, rxData
  <1>10. CASE TickLook BY <1>10 DEF TickLook, rxData
  <1>11. CASE TickCoarseDelay BY <1>11 DEF TickCoarseDelay
  <1>12. CASE TickCoarse BY <1>12 DEF TickCoarse, rxData
  <1>13. CASE TickFine BY <1>13 DEF TickFine
  <1> QED BY <1>1, <1>2, <1>3, <1>4, <1>5, <1>6, <1>7, <1>8, <1>9, <1>10, <1>11, <1>12, <1>13
          DEF TickFsmRx

LEMMA TickPosts == ASSUME TypeOK, TickFsmRx PROVE Posts
  <1>1. ASSUME NEW peers, NEW msg \in Messages, Send(peers, msg),
               msg = CMD => peers = TxPeers /\ dsp_state' = "DUPLEX_COARSE_0"
        PROVE  Posts
    <2>1. \A p \in Peer : /\ toPeer'[p] \in Seq(Messages)
                         /\ \/ toPeer'[p] = toPeer[p]
                            \/ p \in peers /\ toPeer'[p] = Append(toPeer[p], msg)
      BY <1>1, SendGrows
    <2>2. toPeer' = [q \in Peer |-> toPeer'[q]]
      BY <1>1 DEF Send
    <2> QED BY <1>1, <2>1, <2>2 DEF Posts
  <1>2. ASSUME UNCHANGED toPeer PROVE Posts
    BY <1>2 DEF Posts, TypeOK
  <1>3. CASE TickWaitForPeers
    BY <1>3, <1>1 DEF TickWaitForPeers, Asked, Messages, CMD
  <1>4. CASE TickPing
    BY <1>4, <1>1 DEF TickPing, Messages, CMD
  <1>5. CASE TickCoarse
    BY <1>5, <1>1 DEF TickCoarse, Messages, CMD, Go
  <1>6. CASE TickFine
    BY <1>6, <1>1 DEF TickFine, Messages, CMD
  <1>7. ASSUME TickFsmRx, ~TickWaitForPeers, ~TickPing, ~TickCoarse, ~TickFine
        PROVE  UNCHANGED toPeer
    BY <1>7 DEF TickFsmRx, TickBegin, TickTickle, TickSetUp, TickSync, TickStall, TickSelfSync,
                TickResetAlive, TickLook, TickCoarseDelay
  <1> QED BY <1>2, <1>3, <1>4, <1>5, <1>6, <1>7

\* What no tick touches.
LEMMA TickKeeps ==
    ASSUME TickFsmRx
    PROVE  UNCHANGED <<self_sync_done, peer_state_got, connected>>
  BY DEF TickFsmRx, TickBegin, TickTickle, TickSetUp, TickSync, TickStall, TickSelfSync,
         TickResetAlive, TickLook, TickCoarseDelay, TickWaitForPeers, TickPing, TickCoarse,
         TickFine, rxData

-----------------------------------------------------------------------------
LEMMA TypeInit == Init => TypeOK
  <1> SUFFICES ASSUME Init PROVE TypeOK
    OBVIOUS
  <1>1. toPeer \in [Peer -> Seq(Messages)]
    BY DEF Init
  <1>2. tx_dsp_state \in [Peer -> TxStates] /\ coarse \in [Peer -> Nat]
    BY DEF Init, TxStates
  <1>3. most_recent_event \in [Peer -> {"none", "DUPLEX_FINE_SYNC"}]
    BY DEF Init
  <1>4. /\ changes \in 0..MaxChanges /\ txRestarts \in 0..MaxTxRestarts
        /\ rxRestarts \in 0..MaxRxRestarts
    BY BringupAssumption DEF Init
  <1> QED BY <1>1, <1>2, <1>3, <1>4 DEF Init, RxInit, TypeOK, RxStates

LEMMA TypeStep == TypeOK /\ [Next]_vars => TypeOK'
  <1> SUFFICES ASSUME TypeOK, [Next]_vars PROVE TypeOK'
    OBVIOUS
  <1>1. CASE Tick
    <2>1. Moves /\ Posts /\ UNCHANGED <<self_sync_done, peer_state_got, connected>>
      BY <1>1, TickMoves, TickPosts, TickKeeps DEF Tick
    <2>2. feedback_alive' \subseteq Peer /\ rx_should_insert_sfo_cfo' \in BOOLEAN
      BY <2>1 DEF Moves, TypeOK
    <2> QED BY <1>1, <2>1, <2>2 DEF Tick, Moves, Posts, TypeOK, txVars, bounds
  <1>2. CASE Change
    BY <1>2, BringupAssumption DEF Change, ChangeState, TypeOK, txVars
  <1>3. CASE SelfSyncDone
    BY <1>3 DEF SelfSyncDone, TypeOK, txVars, bounds
  <1>4. CASE RxRestart
    <2>1. toPeer' \in [Peer -> Seq(Messages)]
      BY <1>4 DEF RxRestart
    <2>2. rxRestarts' \in 0..MaxRxRestarts
      BY <1>4, BringupAssumption DEF RxRestart, TypeOK
    <2> QED BY <1>4, <2>1, <2>2 DEF RxRestart, TypeOK, RxStates
  <1>5. ASSUME NEW p \in Peer, TxSteps(p) PROVE TypeOK'
    <2>1. CASE TxStart(p)
      BY <2>1 DEF TxStart, TypeOK, rxVars, bounds, TxStates
    <2>2. CASE Connect(p)
      BY <2>2 DEF Connect, TypeOK, rxVars, bounds, txVars
    <2>3. CASE TxBoots(p)
      BY <2>3 DEF TxBoots, Alive, TypeOK, rxVars, bounds, TxStates
    <2>4. CASE AnswerArrives(p)
      BY <2>4 DEF AnswerArrives, PeerConnectedReply, FeedbackAlive, TypeOK, bounds
    <2>5. ASSUME NEW msg, Arrives(p, msg) PROVE toPeer' \in [Peer -> Seq(Messages)]
      BY <2>5, ArrivesShrinks DEF TypeOK
    <2>6. CASE RequestIdArrives(p)
      BY <2>6, <2>5 DEF RequestIdArrives, TypeOK, rxVars, bounds
    <2>7. CASE PingArrives(p)
      BY <2>7, <2>5 DEF PingArrives, Alive, TypeOK, rxVars, bounds
    <2>8. CASE CoarseArrives(p)
      <3>1. coarse' \in [Peer -> Nat]
        BY <2>8 DEF CoarseArrives, TypeOK
      <3> QED BY <2>8, <2>5, <3>1 DEF CoarseArrives, TypeOK, rxVars, bounds
    <2>9. CASE FineArrives(p)
      BY <2>9, <2>5 DEF FineArrives, TypeOK, rxVars, bounds
    <2>10. CASE TickWaitEvents(p)
      BY <2>10 DEF TickWaitEvents, TxGo, TypeOK, rxVars, bounds, TxStates
    <2>11. CASE TickDuplexFine0(p)
      BY <2>11 DEF TickDuplexFine0, TxGo, TypeOK, rxVars, bounds, TxStates
    <2>12. CASE TickDuplexFine1(p)
      BY <2>12 DEF TickDuplexFine1, TxGo, TypeOK, rxVars, bounds, TxStates
    <2> QED BY <1>5, <2>1, <2>2, <2>3, <2>4, <2>6, <2>7, <2>8, <2>9, <2>10, <2>11, <2>12
            DEF TxSteps
  <1>6. ASSUME NEW p \in Peer, TxRestart(p) PROVE TypeOK'
    <2>1. toPeer' \in [Peer -> Seq(Messages)] /\ coarse' \in [Peer -> Nat]
      BY <1>6 DEF TxRestart, TypeOK
    <2>2. txRestarts' \in 0..MaxTxRestarts
      BY <1>6, BringupAssumption DEF TxRestart, TypeOK
    <2> QED BY <1>6, <2>1, <2>2 DEF TxRestart, TypeOK, TxStates, rxVars
  <1>7. CASE UNCHANGED vars
    BY <1>7 DEF TypeOK, vars, rxVars, txVars, bounds
  <1> QED BY <1>1, <1>2, <1>3, <1>4, <1>5, <1>6, <1>7 DEF Next

\* Every variable of the receiver, the transmitters and the network keeps its type.
THEOREM TypeCorrect == Spec => []TypeOK
  BY TypeInit, TypeStep, PTL DEF Spec

-----------------------------------------------------------------------------
(* The coarse trigger comes once, and never while samples are inserted.    *)

\* What leaves the receiver, the counts and the queues alone keeps TriggerInv.
LEMMA TriggerFrame ==
    ASSUME TriggerInv,
           UNCHANGED <<dsp_state, dsp_state_pending, rx_should_insert_sfo_cfo,
                       toPeer, coarse, rxRestarts>>
    PROVE  TriggerInv'
  BY DEF TriggerInv, NoWayBack, QuietUntilTheEnd, OneTrigger, OnItsWay, Lives

\* A message that arrives and is not the trigger leaves the others in the queue.
LEMMA TriggerArrival ==
    ASSUME TypeOK, TriggerInv, NEW p \in Peer, NEW msg, Arrives(p, msg),
           UNCHANGED <<dsp_state, dsp_state_pending, rx_should_insert_sfo_cfo, rxRestarts>>,
           IF msg = CMD THEN coarse' = [coarse EXCEPT ![p] = @ + 1] ELSE UNCHANGED coarse
    PROVE  TriggerInv'
  <1>1. NoWayBack' /\ QuietUntilTheEnd'
    BY DEF TriggerInv, NoWayBack, QuietUntilTheEnd
  <1>2. /\ Lives' = Lives /\ Lives \in Nat
        /\ coarse \in [Peer -> Nat] /\ toPeer \in [Peer -> Seq(Messages)]
    BY BringupAssumption DEF Lives, TypeOK
  <1>3. ASSUME NEW q \in Peer
        PROVE  /\ coarse'[q] <= 1 + Lives
               /\ dsp_state \notin Triggered => coarse'[q] <= Lives /\ ~OnItsWay(q, CMD)'
               /\ OnItsWay(q, CMD)' => coarse'[q] <= Lives
               /\ \A i, j \in 1..Len(toPeer'[q]) :
                      toPeer'[q][i] = CMD /\ toPeer'[q][j] = CMD => i = j
    <2>1. CASE q # p
      <3>1. toPeer'[q] = toPeer[q] /\ coarse'[q] = coarse[q]
        BY <2>1, <1>2, ArrivesShrinks
      <3> QED BY <3>1, <1>3 DEF TriggerInv, OneTrigger, OnItsWay
    <2>2. CASE q = p
      <3>0. /\ toPeer'[p] \in Seq(Messages) /\ toPeer[p] \in Seq(Messages)
            /\ Len(toPeer[p]) > 0 /\ toPeer[p][1] = msg
            /\ Len(toPeer'[p]) = Len(toPeer[p]) - 1
            /\ \A i \in 1..Len(toPeer'[p]) : toPeer'[p][i] = toPeer[p][i + 1]
        BY <1>2, ArrivesShrinks
      <3>1. \A i \in 1..Len(toPeer'[p]) : toPeer'[p][i] = CMD =>
                /\ i + 1 \in 1..Len(toPeer[p]) /\ toPeer[p][i + 1] = CMD /\ msg # CMD
        BY <3>0 DEF TriggerInv, OneTrigger
      <3>2. \A i, j \in 1..Len(toPeer'[p]) : toPeer'[p][i] = CMD /\ toPeer'[p][j] = CMD => i = j
        BY <3>0, <3>1 DEF TriggerInv, OneTrigger
      <3>3. OnItsWay(p, CMD)' => OnItsWay(p, CMD) /\ msg # CMD
        BY <3>1 DEF OnItsWay
      <3>4. msg = CMD => OnItsWay(p, CMD)
        BY <3>0 DEF OnItsWay
      <3>5. coarse'[p] = IF msg = CMD THEN coarse[p] + 1 ELSE coarse[p]
        BY <1>2
      <3> QED BY <2>2, <1>2, <3>2, <3>3, <3>4, <3>5 DEF TriggerInv, OneTrigger
    <2> QED BY <2>1, <2>2
  <1> QED BY <1>1, <1>2, <1>3 DEF TriggerInv, OneTrigger

LEMMA TriggerInit == Init => TriggerInv
  <1> SUFFICES ASSUME Init PROVE TriggerInv
    OBVIOUS
  <1>1. Lives = 0
    BY BringupAssumption DEF Init, Lives
  <1> QED BY <1>1 DEF Init, RxInit, TriggerInv, NoWayBack, QuietUntilTheEnd, OneTrigger,
                    OnItsWay, Triggered

\* A tick: only DUPLEX_COARSE_0 sends the trigger, and the machine is not in
\* Triggered before, as nothing leads back there.
LEMMA TriggerTick == ASSUME TypeOK, TriggerInv, Tick PROVE TriggerInv'
  <1>1. Moves /\ Posts /\ UNCHANGED <<coarse, rxRestarts>>
    BY TickMoves, TickPosts DEF Tick, txVars, bounds
  <1>2. dsp_state \in Triggered => dsp_state' \in {"DUPLEX_COARSE_1", "DEBUG_STALL"}
    BY <1>1 DEF Moves, TriggerInv, NoWayBack, Running, MayStartAgain, Triggered
  <1>3. NoWayBack'
    BY <1>1 DEF Moves, NoWayBack, Triggered
  <1>4. QuietUntilTheEnd'
    BY <1>1 DEF Moves, TriggerInv, QuietUntilTheEnd, Running, MayStartAgain
  <1>5. ASSUME NEW p \in Peer
        PROVE  /\ coarse'[p] <= 1 + Lives'
               /\ dsp_state' \notin Triggered => coarse'[p] <= Lives' /\ ~OnItsWay(p, CMD)'
               /\ OnItsWay(p, CMD)' => coarse'[p] <= Lives'
               /\ \A i, j \in 1..Len(toPeer'[p]) :
                      toPeer'[p][i] = CMD /\ toPeer'[p][j] = CMD => i = j
    <2>0. Lives' = Lives /\ coarse' = coarse
      BY <1>1 DEF Lives
    <2>1. CASE toPeer'[p] = toPeer[p]
      BY <2>1, <2>0, <1>2 DEF TriggerInv, OneTrigger, OnItsWay, Triggered
    <2>2. ASSUME NEW msg \in Messages, toPeer'[p] = Append(toPeer[p], msg),
                 msg = CMD => p \in TxPeers /\ dsp_state' = "DUPLEX_COARSE_0"
          PROVE  /\ coarse'[p] <= 1 + Lives'
                 /\ dsp_state' \notin Triggered => coarse'[p] <= Lives' /\ ~OnItsWay(p, CMD)'
                 /\ OnItsWay(p, CMD)' => coarse'[p] <= Lives'
                 /\ \A i, j \in 1..Len(toPeer'[p]) :
                        toPeer'[p][i] = CMD /\ toPeer'[p][j] = CMD => i = j
      <3>1. /\ Len(toPeer'[p]) = Len(toPeer[p]) + 1 /\ Len(toPeer[p]) \in Nat
            /\ toPeer'[p][Len(toPeer[p]) + 1] = msg
            /\ \A i \in 1..Len(toPeer[p]) : toPeer'[p][i] = toPeer[p][i]
        BY <2>2 DEF TypeOK
      <3>2. CASE msg # CMD
        <4>0. \A i \in 1..Len(toPeer'[p]) : toPeer'[p][i] = CMD =>
                  i \in 1..Len(toPeer[p]) /\ toPeer[p][i] = CMD
          BY <3>1, <3>2
        <4>1. OnItsWay(p, CMD)' => OnItsWay(p, CMD)
          BY <4>0 DEF OnItsWay
        <4>2. \A i, j \in 1..Len(toPeer'[p]) :
                  toPeer'[p][i] = CMD /\ toPeer'[p][j] = CMD => i = j
          <5>1. \A i, j \in 1..Len(toPeer[p]) :
                    toPeer[p][i] = CMD /\ toPeer[p][j] = CMD => i = j
            BY DEF TriggerInv, OneTrigger
          <5> QED BY <4>0, <5>1
        <4> QED BY <4>1, <4>2, <2>0, <1>2 DEF TriggerInv, OneTrigger, Triggered
      <3>3. CASE msg = CMD
        <4>1. dsp_state \notin Triggered /\ dsp_state' \in Triggered
          BY <2>2, <3>3, <1>2 DEF Triggered
        <4>2. coarse[p] <= Lives /\ coarse[p] <= 1 + Lives /\ ~OnItsWay(p, CMD)
          BY <4>1 DEF TriggerInv, OneTrigger
        <4>3. \A i, j \in 1..Len(toPeer'[p]) :
                  toPeer'[p][i] = CMD /\ toPeer'[p][j] = CMD => i = j
          <5>1. \A i \in 1..Len(toPeer'[p]) : toPeer'[p][i] = CMD => i = Len(toPeer[p]) + 1
            BY <3>1, <4>2 DEF OnItsWay
          <5> QED BY <5>1
        <4> QED BY <4>1, <4>2, <4>3, <2>0
      <3> QED BY <3>2, <3>3
    <2> QED BY <1>1, <2>1, <2>2 DEF Posts
  <1> QED BY <1>3, <1>4, <1>5 DEF TriggerInv, OneTrigger

LEMMA TriggerStep == TypeOK /\ TriggerInv /\ [Next]_vars => TriggerInv'
  <1> SUFFICES ASSUME TypeOK, TriggerInv, [Next]_vars PROVE TriggerInv'
    OBVIOUS
  <1>1. CASE Tick
    BY <1>1, TriggerTick
  <1>2. CASE Change
    BY <1>2, TriggerFrame DEF Change, ChangeState, txVars
  <1>3. CASE SelfSyncDone
    BY <1>3, TriggerFrame DEF SelfSyncDone, txVars, bounds
  <1>4. CASE RxRestart
    <2>1. Lives' = Lives + 1 /\ Lives \in Nat
      BY <1>4, BringupAssumption DEF RxRestart, Lives, TypeOK
    <2>2. \A p \in Peer : toPeer'[p] = <<>> /\ coarse'[p] = coarse[p] /\ coarse[p] \in Nat
      BY <1>4 DEF RxRestart, TypeOK
    <2>3. \A p \in Peer : coarse'[p] <= Lives'
      BY <2>1, <2>2 DEF TriggerInv, OneTrigger
    <2> QED BY <1>4, <2>1, <2>2, <2>3
            DEF RxRestart, TriggerInv, NoWayBack, QuietUntilTheEnd, OneTrigger, OnItsWay, Triggered
  <1>5. ASSUME NEW p \in Peer, TxSteps(p) PROVE TriggerInv'
    <2>1. CASE TxStart(p) \/ Connect(p) \/ TxBoots(p) \/ AnswerArrives(p)
               \/ TickWaitEvents(p) \/ TickDuplexFine0(p) \/ TickDuplexFine1(p)
      BY <2>1, TriggerFrame
         DEF TxStart, Connect, TxBoots, AnswerArrives, TickWaitEvents, TickDuplexFine0,
             TickDuplexFine1, rxVars, txVars, bounds
    <2>2. CASE RequestIdArrives(p)
      BY <2>2, TriggerArrival DEF RequestIdArrives, rxVars, bounds, CMD
    <2>3. CASE PingArrives(p)
      BY <2>3, TriggerArrival DEF PingArrives, rxVars, bounds, CMD
    <2>4. CASE CoarseArrives(p)
      BY <2>4, TriggerArrival DEF CoarseArrives, rxVars, bounds, CMD
    <2>5. CASE FineArrives(p)
      BY <2>5, TriggerArrival DEF FineArrives, rxVars, bounds, CMD
    <2> QED BY <1>5, <2>1, <2>2, <2>3, <2>4, <2>5 DEF TxSteps
  <1>6. ASSUME NEW p \in Peer, TxRestart(p) PROVE TriggerInv'
    <2>1. Lives' = Lives /\ Lives \in Nat
      BY <1>6, BringupAssumption DEF TxRestart, Lives, TypeOK
    <2>2. /\ toPeer'[p] = <<>> /\ coarse'[p] = 0
          /\ \A q \in Peer : q # p => toPeer'[q] = toPeer[q] /\ coarse'[q] = coarse[q]
      BY <1>6 DEF TxRestart, TypeOK
    <2>3. UNCHANGED <<dsp_state, dsp_state_pending, rx_should_insert_sfo_cfo>>
      BY <1>6 DEF TxRestart, rxVars
    <2> QED BY <2>1, <2>2, <2>3
            DEF TriggerInv, NoWayBack, QuietUntilTheEnd, OneTrigger, OnItsWay
  <1>7. CASE UNCHANGED vars
    BY <1>7, TriggerFrame DEF vars, rxVars, txVars, bounds
  <1> QED BY <1>1, <1>2, <1>3, <1>4, <1>5, <1>6, <1>7 DEF Next

-----------------------------------------------------------------------------
(* The receiver waits for the transmitters' boots, without knowing it.     *)

\* With two transmitters or more the radios are the transmitters, and as many
\* answers as transmitters are all of them.
LEMMA EnoughIsAll ==
    ASSUME Wait >= 2, EnoughFound PROVE TxPeers \subseteq feedback_alive
  <1>1. Radios = 1..Wait /\ TxPeers = 1..Wait /\ Wait \in Nat
    BY RxAssumption DEF Radios, TxPeers
  <1>2. IsFiniteSet(1..Wait) /\ Cardinality(1..Wait) = Wait
    BY <1>1, FS_Interval
  <1>3. /\ IsFiniteSet(feedback_alive \cap (1..Wait))
        /\ Cardinality(feedback_alive \cap (1..Wait)) <= Wait
        /\ Cardinality(feedback_alive \cap (1..Wait)) = Wait => feedback_alive \cap (1..Wait) = 1..Wait
    <2>1. feedback_alive \cap (1..Wait) \subseteq 1..Wait
      OBVIOUS
    <2> QED BY <1>2, <2>1, FS_Subset
  <1>4. Cardinality(feedback_alive \cap (1..Wait)) >= Wait
    BY <1>1 DEF EnoughFound
  <1>5. Cardinality(feedback_alive \cap (1..Wait)) = Wait
    BY <1>1, <1>3, <1>4, FS_CardinalityType
  <1> QED BY <1>1, <1>3, <1>5

LEMMA AnswerInit == Init => AnswerInv
  BY DEF Init, RxInit, AnswerInv, Passed, Triggered, Answered, OnItsWay

\* A step after which no more has answered or is told, and nobody is down.
LEMMA AnswerFrame ==
    ASSUME AnswerInv,
           UNCHANGED <<dsp_state, dsp_state_pending>>,
           feedback_alive \subseteq feedback_alive',
           \A p \in Peer : /\ Answered(p)' => Answered(p) \/ Up(p)'
                           /\ OnItsWay(p, CMD)' => OnItsWay(p, CMD) \/ Up(p)'
                           /\ Up(p) => Up(p)'
    PROVE  AnswerInv'
  BY DEF AnswerInv

LEMMA AnswerArrival ==
    ASSUME TypeOK, NEW p \in Peer, NEW msg, Arrives(p, msg), NEW q \in Peer, OnItsWay(q, CMD)'
    PROVE  OnItsWay(q, CMD)
  <1>1. CASE q = p
    <2>1. PICK i \in 1..Len(toPeer'[p]) : toPeer'[p][i] = CMD
      BY <1>1 DEF OnItsWay
    <2>2. i + 1 \in 1..Len(toPeer[p]) /\ toPeer[p][i + 1] = CMD
      <3>1. toPeer'[p] \in Seq(Messages) /\ toPeer[p] \in Seq(Messages)
        BY ArrivesShrinks DEF TypeOK
      <3>2. /\ Len(toPeer'[p]) = Len(toPeer[p]) - 1
            /\ \A k \in 1..Len(toPeer'[p]) : toPeer'[p][k] = toPeer[p][k + 1]
        BY ArrivesShrinks
      <3> QED BY <2>1, <3>1, <3>2
    <2> QED BY <1>1, <2>2 DEF OnItsWay
  <1>2. CASE q # p
    <2>1. toPeer' = [toPeer EXCEPT ![p] = toPeer'[p]]
      BY ArrivesShrinks
    <2>2. toPeer'[q] = toPeer[q]
      BY <1>2, <2>1 DEF TypeOK
    <2> QED BY <2>2 DEF OnItsWay
  <1> QED BY <1>1, <1>2

\* A tick tells only those of TxPeers, and only after all of them answered.
LEMMA AnswerTick == ASSUME Wait >= 2, TypeOK, AnswerInv, Tick PROVE AnswerInv'
  <1>1. Moves /\ Posts /\ UNCHANGED <<tx_dsp_state, late, toRx>>
    BY TickMoves, TickPosts DEF Tick, txVars
  <1>2. dsp_state' \in Passed => TxPeers \subseteq feedback_alive
    BY <1>1 DEF Moves, AnswerInv, Running, MayStartAgain, Passed
  <1>3. dsp_state' \in Passed \/ dsp_state_pending' \in Passed => TxPeers \subseteq feedback_alive'
    <2>1. CASE dsp_state' \in Passed
      BY <1>1, <1>2, <2>1 DEF Moves
    <2>2. CASE dsp_state' = "TICKLE_PEERS_3_DOT_7" /\ EnoughFound /\ dsp_state_pending' \in Passed
      BY <1>1, <2>2, EnoughIsAll DEF Moves
    <2> QED BY <1>1, <2>1, <2>2 DEF Moves
  <1>4. ASSUME NEW p \in Peer, Answered(p)' \/ OnItsWay(p, CMD)' PROVE Up(p)'
    <2>0. Up(p)' = Up(p)
      BY <1>1 DEF Up, Booted
    <2>1. CASE Answered(p)'
      <3>1. Answered(p)
        BY <1>1, <2>1 DEF Moves, Answered
      <3> QED BY <2>0, <3>1 DEF AnswerInv
    <2>2. CASE OnItsWay(p, CMD)'
      <3>1. CASE toPeer'[p] = toPeer[p]
        BY <2>0, <2>2, <3>1 DEF AnswerInv, OnItsWay
      <3>2. ASSUME NEW msg \in Messages, toPeer'[p] = Append(toPeer[p], msg),
                   msg = CMD => p \in TxPeers /\ dsp_state' = "DUPLEX_COARSE_0"
            PROVE  Up(p)'
        <4>1. CASE msg = CMD
          <5>1. p \in feedback_alive
            BY <4>1, <3>2, <1>2 DEF Passed, Triggered
          <5> QED BY <2>0, <5>1 DEF AnswerInv, Answered
        <4>2. CASE msg # CMD
          <5>1. PICK i \in 1..Len(toPeer'[p]) : toPeer'[p][i] = CMD
            BY <2>2 DEF OnItsWay
          <5>2. i \in 1..Len(toPeer[p]) /\ toPeer[p][i] = CMD
            BY <5>1, <4>2, <3>2 DEF TypeOK
          <5> QED BY <2>0, <5>2 DEF AnswerInv, OnItsWay
        <4> QED BY <4>1, <4>2
      <3> QED BY <1>1, <3>1, <3>2 DEF Posts
    <2> QED BY <1>4, <2>1, <2>2
  <1> QED BY <1>3, <1>4 DEF AnswerInv

LEMMA AnswerStep == Wait >= 2 /\ TypeOK /\ AnswerInv /\ [Next]_vars => AnswerInv'
  <1> SUFFICES ASSUME Wait >= 2, TypeOK, AnswerInv, [Next]_vars PROVE AnswerInv'
    OBVIOUS
  <1>1. CASE Tick
    BY <1>1, AnswerTick
  <1>2. CASE Change
    BY <1>2, AnswerFrame DEF Change, ChangeState, txVars, Answered, OnItsWay, Up, Booted
  <1>3. CASE SelfSyncDone
    BY <1>3, AnswerFrame DEF SelfSyncDone, txVars, bounds, Answered, OnItsWay, Up, Booted
  <1>4. CASE RxRestart
    BY <1>4 DEF RxRestart, AnswerInv, Passed, Triggered, Answered, OnItsWay
  <1>5. ASSUME NEW p \in Peer, TxSteps(p) PROVE AnswerInv'
    <2> USE DEF rxVars, txVars, bounds
    <2>1. CASE TxStart(p)
      BY <2>1, AnswerFrame DEF TxStart, Answered, OnItsWay, Up, Booted, TypeOK
    <2>2. CASE Connect(p)
      BY <2>2, AnswerFrame DEF Connect, Answered, OnItsWay, Up, Booted
    <2>3. CASE TxBoots(p)
      <3>1. /\ UNCHANGED <<dsp_state, dsp_state_pending, feedback_alive, toPeer, late>>
            /\ toRx' \in {toRx, toRx \cup {<<p, "ALIVE">>}}
        BY <2>3 DEF TxBoots, Alive
      <3>2. Booted(p)' /\ \A q \in Peer : Booted(q) => Booted(q)'
        BY <2>3 DEF TxBoots, Booted, TypeOK
      <3>3. \A q \in Peer : Answered(q)' => Answered(q) \/ Booted(q)'
        BY <3>1, <3>2 DEF Answered
      <3> QED BY <3>1, <3>2, <3>3, AnswerFrame DEF OnItsWay, Up
    <2>4. CASE AnswerArrives(p)
      <3>1. /\ UNCHANGED <<dsp_state, dsp_state_pending, toPeer, late, tx_dsp_state>>
            /\ feedback_alive \subseteq feedback_alive'
            /\ \A q \in Peer : Answered(q)' => Answered(q)
        BY <2>4 DEF AnswerArrives, PeerConnectedReply, FeedbackAlive, Answered
      <3> QED BY <3>1, AnswerFrame DEF OnItsWay, Up, Booted
    <2>5. CASE RequestIdArrives(p)
      BY <2>5, AnswerFrame, AnswerArrival DEF RequestIdArrives, Answered, Up, Booted
    <2>6. CASE PingArrives(p)
      <3>1. /\ UNCHANGED <<dsp_state, dsp_state_pending, feedback_alive, late, tx_dsp_state>>
            /\ toRx' = toRx \/ (Booted(p) /\ toRx' = toRx \cup {<<p, "ALIVE">>}) 
        BY <2>6 DEF PingArrives, Alive
      <3>2. \A q \in Peer : Answered(q)' => Answered(q) \/ Booted(q)
        BY <3>1 DEF Answered
      <3>3. \A q \in Peer : OnItsWay(q, CMD)' => OnItsWay(q, CMD)
        BY <2>6, AnswerArrival DEF PingArrives
      <3> QED BY <3>1, <3>2, <3>3, AnswerFrame DEF Up, Booted
    <2>7. CASE CoarseArrives(p)
      BY <2>7, AnswerFrame, AnswerArrival DEF CoarseArrives, Answered, Up, Booted
    <2>8. CASE FineArrives(p)
      BY <2>8, AnswerFrame, AnswerArrival DEF FineArrives, Answered, Up, Booted
    <2>9. CASE TickWaitEvents(p) \/ TickDuplexFine0(p) \/ TickDuplexFine1(p)
      BY <2>9, AnswerFrame
         DEF TickWaitEvents, TickDuplexFine0, TickDuplexFine1, TxGo, Answered, OnItsWay, Up,
             Booted, TypeOK
    <2> QED BY <1>5, <2>1, <2>2, <2>3, <2>4, <2>5, <2>6, <2>7, <2>8, <2>9 DEF TxSteps
  <1>6. ASSUME NEW p \in Peer, TxRestart(p) PROVE AnswerInv'
    <2>1. /\ UNCHANGED <<dsp_state, dsp_state_pending, feedback_alive, toRx>>
          /\ late \subseteq late' /\ (Answered(p) => p \in late')
          /\ toPeer'[p] = <<>>
          /\ \A q \in Peer : q # p => toPeer'[q] = toPeer[q] /\ tx_dsp_state'[q] = tx_dsp_state[q]
      BY <1>6 DEF TxRestart, rxVars, TypeOK
    <2>2. ASSUME NEW q \in Peer, Answered(q)' \/ OnItsWay(q, CMD)' PROVE Up(q)'
      <3>1. CASE q = p
        BY <2>1, <2>2, <3>1 DEF Answered, OnItsWay, Up
      <3>2. CASE q # p
        BY <2>1, <2>2, <3>2 DEF AnswerInv, Answered, OnItsWay, Up, Booted
      <3> QED BY <3>1, <3>2
    <2> QED BY <2>1, <2>2 DEF AnswerInv
  <1>7. CASE UNCHANGED vars
    BY <1>7, AnswerFrame DEF vars, rxVars, txVars, bounds, Answered, OnItsWay, Up, Booted
  <1> QED BY <1>1, <1>2, <1>3, <1>4, <1>5, <1>6, <1>7 DEF Next

-----------------------------------------------------------------------------
\* A receiver triggers the coarse synchronisation of each transmitter at most
\* once, however often JavaScript calls changeState.
THEOREM TriggeredOnce == Spec => []OncePerLife
  <1>1. TriggerInv => OncePerLife
    BY BringupAssumption DEF TriggerInv, OneTrigger, OncePerLife, Lives
  <1> QED BY <1>1, TypeInit, TypeStep, TriggerInit, TriggerStep, PTL DEF Spec

\* resetCoarseState dumps the buffer of samples only while nobody fills it.
THEOREM QuietReset == Spec => ResetIsQuiet
  <1>1. TriggerInv => (TickCoarseDelay => ~rx_should_insert_sfo_cfo)
    BY DEF TriggerInv, QuietUntilTheEnd, TickCoarseDelay, Go, Running, MayStartAgain
  <1>2. TriggerInv /\ [Next]_vars => [TickCoarseDelay => ~rx_should_insert_sfo_cfo]_vars
    BY <1>1
  <1> QED BY <1>2, TypeInit, TypeStep, TriggerInit, TriggerStep, PTL DEF Spec, ResetIsQuiet

\* With a receiver that waits for two transmitters or more, the coarse trigger
\* finds every transmitter booted unless that restarted after its feedback bus
\* answered.
THEOREM ToldWhenBooted == ASSUME Wait >= 2 PROVE Spec => BootedWhenTold
  <1>1. AnswerInv /\ TypeOK => (\A p \in Peer : CoarseArrives(p) => Booted(p) \/ p \in late)
    <2> SUFFICES ASSUME AnswerInv, TypeOK, NEW p \in Peer, CoarseArrives(p) PROVE Up(p)
      BY DEF Up
    <2>1. OnItsWay(p, CMD)
      BY ArrivesShrinks DEF CoarseArrives, OnItsWay, CMD, TypeOK
    <2> QED BY <2>1 DEF AnswerInv
  <1>2. AnswerInv /\ TypeOK =>
            [\A p \in Peer : CoarseArrives(p) => Booted(p) \/ p \in late]_vars
    BY <1>1
  <1>3. TypeOK /\ AnswerInv /\ [Next]_vars => AnswerInv'
    BY AnswerStep
  <1> QED BY <1>2, <1>3, TypeInit, TypeStep, AnswerInit, PTL DEF Spec, BootedWhenTold
=============================================================================
