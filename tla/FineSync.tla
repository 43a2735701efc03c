------------------------------ MODULE FineSync ------------------------------
(***************************************************************************)
(* The synchronisation loop: HiggsFineSync's thread sorts the samples of   *)
(* the feedback bus into the queues of the radios and runs the estimators  *)
(* from two timers; the machine of RadioEstimate, on the EventDsp thread,  *)
(* judges the estimates and sends corrections; the corrections change what *)
(* the next samples show.                                                  *)
(*                                                                         *)
(* Times.  A window is 102400 symbols (4.2 s), a sample (one watermark) is *)
(* 512 symbols (21 ms).  The timers are 0.1 and 1 ms, a polling state      *)
(* ticks every 1 ms, a correction lands within a few ms.  So, unless a     *)
(* thread stalls, the HiggsFineSync thread is done with a sample before    *)
(* the next one is complete, and the machine has looked at an estimate     *)
(* before the next sample is complete.  Stalls of the HiggsFineSync thread *)
(* are part of the model: during one, samples pile up in sfo_cfo_buf.      *)
(***************************************************************************)
EXTENDS RadioEstimate

CONSTANTS Roles,       \* "tx": attached is fed; "rx": radios[0] and radios[1]
          Offsets,     \* offsets of the carrier before it is corrected
          MaxStalls,   \* bound: samples that come while the thread is behind
          MaxBacklog,  \* bound: samples that wait, fewer than a window
          MaxIllegal   \* bound: windows whose sto stoState refuses

ASSUME FineSyncAssumption ==
    /\ Roles \subseteq {"rx", "tx"} /\ Offsets \subseteq -MaxOffset..MaxOffset
    /\ MaxStalls \in Nat /\ MaxIllegal \in Nat
    /\ MaxBacklog \in Nat /\ MaxBacklog < WINDOW

VARIABLES role,
          offset,      \* the carrier's own offset
          taking,      \* what the sample being taken shows
          sfo_cfo_buf, \* samples not yet given to the radios
          process_sfo_timer, process_cfo_timer,
          last,        \* whose turn it is in _handle_sfo_timer_new
          running,     \* the radio whose dspRunSfo_v1 has counted and not written
          polled,      \* the machine ticked since the last estimate
          stalls, illegals

hardware == <<role, offset, taking>>
thread == <<sfo_cfo_buf, process_sfo_timer, process_cfo_timer, last, running>>
bounds == <<polled, stalls, illegals>>
vars == <<samples, estimates, news, machine, hardware, thread, bounds>>

None == -1

\* should_inject_r0, should_inject_r1 and should_inject_attached
Injected == IF role = "rx" THEN {0, 1} ELSE {Attached}

Init ==
    /\ EstimateInit
    /\ role \in Roles
    /\ offset \in IF role = "tx" THEN Offsets ELSE {0}
    /\ taking = offset
    /\ sfo_cfo_buf = <<>> /\ process_sfo_timer = FALSE /\ process_cfo_timer = FALSE
    /\ last = 0 /\ running = None
    /\ polled = TRUE /\ stalls = MaxStalls /\ illegals = MaxIllegal

-----------------------------------------------------------------------------
Idle == running = None
CaughtUp == /\ Idle /\ sfo_cfo_buf = <<>>
            /\ ~process_sfo_timer /\ ~process_cfo_timer
Backlog == Len(sfo_cfo_buf) + Max({Len(cfo_buf[r]) : r \in Radio})

\* handleFineSync puts a complete sample into sfo_cfo_buf.  The next sample is
\* taken with the corrections that have been sent by now.
Capture ==
    /\ radio_state \in Polling => polled
    /\ \/ CaughtUp /\ UNCHANGED stalls
       \/ ~CaughtUp /\ stalls > 0 /\ Backlog < MaxBacklog /\ stalls' = stalls - 1
    /\ sfo_cfo_buf' = Append(sfo_cfo_buf, taking)
    /\ taking' = offset - cfo_estimated_sent
    /\ UNCHANGED <<samples, estimates, news, machine, role, offset, process_sfo_timer,
                   process_cfo_timer, last, running, polled, illegals>>

\* handle_sfo_cfo_callback: everything goes to the queues of the injected
\* radios.  A full sfo queue (re)starts the sfo timer; the cfo timer is
\* started unless it is pending.
Callback ==
    /\ Idle /\ sfo_cfo_buf # <<>>
    /\ sfo_buf' = [r \in Radio |-> sfo_buf[r] \o
                     (IF r \in Injected THEN sfo_cfo_buf ELSE <<>>)]
    /\ cfo_buf' = [r \in Radio |-> cfo_buf[r] \o
                     (IF r \in Injected THEN sfo_cfo_buf ELSE <<>>)]
    /\ process_sfo_timer' = (process_sfo_timer
                              \/ \E r \in Radio : Len(sfo_buf'[r]) >= WINDOW)
    /\ process_cfo_timer' = TRUE
    /\ sfo_cfo_buf' = <<>>
    /\ UNCHANGED <<cfo_buf_accumulate, estimates, news, machine, hardware, last,
                   running, bounds>>

\* Whose turn is next: the switch of _handle_sfo_timer_new.
Turn ==
    LET after == <<(last + 1) % 3, (last + 2) % 3>>
    IN  IF after[1] \in Injected THEN after[1]
        ELSE IF after[2] \in Injected THEN after[2] ELSE last

\* On the receiver the next radio, when it is full too, does not wait for the
\* callback.
NextIsFull(next) == Injected \cap {0, 1} # {} /\ Len(sfo_buf[next]) >= WINDOW

\* At most one estimate of a kind between two ticks, except during the 8 s
\* before STO_EQ_0.
MayEstimate(r) ==
    r = Attached /\ radio_state \notin {"DID_BOOT", "STO_EQ_0"} => polled

\* _handle_sfo_timer_new: the turn's radio estimates if it has a window, and
\* does nothing if it has not.  libevent runs timers in the order they expire,
\* and a callback that finds a window sets this one (1 ms) to expire after the
\* cfo timer (0.1 ms).
SfoTimer ==
    /\ Idle /\ process_sfo_timer /\ ~process_cfo_timer /\ MayEstimate(last)
    /\ last' = Turn
    /\ process_sfo_timer' = NextIsFull(Turn)
    /\ \/ /\ Len(sfo_buf[last]) >= WINDOW
          /\ running' = last
          /\ CountSfo(last)
          /\ polled' = (polled /\ last # Attached)
       \/ /\ Len(sfo_buf[last]) < WINDOW
          /\ UNCHANGED <<running, sfo_buf, news, polled>>
    /\ UNCHANGED <<cfo_buf, cfo_buf_accumulate, estimates, machine, hardware, sfo_cfo_buf,
                   process_cfo_timer, stalls, illegals>>

\* The timer's callback returns only when dspRunSfo_v1 has.
SfoWrites ==
    /\ ~Idle
    /\ \E illegal \in BOOLEAN :
          /\ illegal => illegals > 0
          /\ illegals' = illegals - (IF illegal THEN 1 ELSE 0)
          /\ WriteSfo(running, illegal)
    /\ running' = None
    /\ UNCHANGED <<samples, news, machine, hardware, sfo_cfo_buf, process_sfo_timer,
                   process_cfo_timer, last, polled, stalls>>

CfoTimer ==
    /\ Idle /\ process_cfo_timer
    /\ Full(Attached) => MayEstimate(Attached)
    /\ process_cfo_timer' = FALSE
    /\ RunCfo
    /\ polled' = (polled /\ ~Full(Attached))
    /\ UNCHANGED <<machine, hardware, sfo_cfo_buf, process_sfo_timer, last, running,
                   stalls, illegals>>

Event ==
    /\ role = "tx" /\ RequestFineSync
    /\ UNCHANGED <<samples, estimates, news, hardware, thread, bounds>>

Tick ==
    /\ TickLocalFsm
    /\ polled' = TRUE
    /\ UNCHANGED <<samples, estimates, hardware, thread, stalls, illegals>>

Next == \/ Capture \/ Callback \/ SfoTimer \/ SfoWrites \/ CfoTimer \/ Event \/ Tick

\* Each thread runs: the feedback bus goes on, the HiggsFineSync loop serves its
\* events and timers, the EventDsp loop its ticks.
Fairness ==
    /\ WF_vars(Capture) /\ WF_vars(Tick) /\ WF_vars(Callback)
    /\ WF_vars(SfoTimer) /\ WF_vars(SfoWrites) /\ WF_vars(CfoTimer)

Spec == Init /\ [][Next]_vars /\ Fairness

-----------------------------------------------------------------------------
Value == -3 * MaxOffset..3 * MaxOffset
Sample == -4 * MaxOffset..4 * MaxOffset
Abs(x) == IF x < 0 THEN -x ELSE x

\* Types.  While the stalls are few, what was sent stays within a bound although
\* every correction is added to the last (many stalls let the same estimate be
\* added again and again), and the accumulator that dspRunCfo_v1 copies into an
\* array of _cfo_symbol_num never holds a whole window when the timer is done.
TypeOK ==
    /\ \A r \in Radio : /\ ToSet(sfo_buf[r]) \cup ToSet(cfo_buf[r]) \subseteq Sample
                        /\ Len(cfo_buf_accumulate[r]) < WINDOW
    /\ sfo_estimated \in [Radio -> Sample] /\ cfo_estimated \in [Radio -> Sample]
    /\ new_sfo \in -1..3 /\ new_sto \in 0..3 /\ new_cfo \in 0..3
    /\ radio_state \in States /\ cfo_estimated_sent \in Value
    /\ sto_illegal \in BOOLEAN /\ polled \in BOOLEAN
    /\ running \in Radio \cup {None} /\ last \in Radio

\* The machine leaves CFO_0 only with the carrier corrected, whatever windows
\* were mixed, and whatever it saw of a counter without its value
\* (dspRunSfo_v1 counts first); RE_FINESYNC then leaves it corrected.
LockedMeansAligned ==
    radio_state \in {"BACKGROUND_SYNC", "RE_FINESYNC"} => cfo_estimated_sent = offset

\* As long as the HiggsFineSync thread has kept up, no correction of
\* updatePartnerCfo leaves the carrier farther off than it was: the wait for a
\* second estimate (times_sfo_estimated - _prev_sfo_est == 2) keeps what was
\* measured before a correction from being corrected again.
NeverWorse ==
    [][stalls = MaxStalls
        => Abs(offset - cfo_estimated_sent') <= Abs(offset - cfo_estimated_sent)]_vars

\* A requested fine sync ends: no comparison of a counter with exactly 2 in
\* tick_localfsm is ever missed, and the corrections settle.
Locks == most_recent_event = "REQUEST_FINE_SYNC_EV" ~> radio_state = "RE_FINESYNC"

\* The turns of _handle_sfo_timer_new and the single chunk per firing of
\* handleCfoTimer2 catch up with every backlog, for every radio that is fed.
Drains ==
    []<>(\A r \in Radio : Len(sfo_buf[r]) < WINDOW /\ Len(cfo_buf[r]) < CHUNK)
=============================================================================
