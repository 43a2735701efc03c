---------------------------- MODULE RadioEstimate ----------------------------
(***************************************************************************)
(* RadioEstimate: the samples, the estimates and the local state machine   *)
(* of one radio.  The machine of the attached radio measures how far its   *)
(* carrier is off, sends a correction, and measures again until nothing is *)
(* left to correct.                                                        *)
(*                                                                         *)
(* A sample stands for one watermark of the feedback bus (512 symbols) and *)
(* is the offset the receiver saw while it was taken: the true offset less *)
(* the correction then in force.  An estimate over a window is any value   *)
(* between the smallest and the largest sample of the window.              *)
(*                                                                         *)
(* The counters times_xxx_estimated are read only as differences from the  *)
(* values the machine noted (_prev_xxx_est); new_xxx is that difference.   *)
(* times_sto_estimated and times_sfo_estimated always change together.     *)
(***************************************************************************)
EXTENDS Integers, Sequences, SequencesExt, FiniteSetsExt

CONSTANTS WINDOW,    \* samples of one estimate (_sfo_symbol_num, _cfo_symbol_num)
          CHUNK,     \* samples handleCfoTimer2 takes at a time
          MaxOffset  \* bound: the largest offset of the carrier

ASSUME WindowAssumption ==
    /\ CHUNK \in Nat \ {0} /\ WINDOW \in Nat \ {0} /\ WINDOW % CHUNK = 0
    /\ MaxOffset \in Nat

VARIABLES sfo_buf, cfo_buf, cfo_buf_accumulate,  \* per radio
          sfo_estimated, cfo_estimated,          \* per radio
          sto_illegal,                           \* stoState would refuse the value
          new_sfo, new_sto, new_cfo,
          radio_state, most_recent_event,
          cfo_estimated_sent                     \* the correction sent so far

samples == <<sfo_buf, cfo_buf, cfo_buf_accumulate>>
estimates == <<sfo_estimated, cfo_estimated, sto_illegal>>
news == <<new_sfo, new_sto, new_cfo>>
machine == <<radio_state, most_recent_event, cfo_estimated_sent>>

\* radios[0], radios[1] and the attached radio
Radio == 0..2
Attached == 2

States == {"DID_BOOT", "PRE_SFO_STATE_0", "SFO_STATE_0", "STO_0", "STO_EQ_0",
           "CFO_0", "BACKGROUND_SYNC", "RE_FINESYNC"}

\* states that look at a counter every millisecond
Polling == {"SFO_STATE_0", "STO_0", "CFO_0"}

EstimateInit ==
    /\ sfo_buf = [r \in Radio |-> <<>>] /\ cfo_buf = [r \in Radio |-> <<>>]
    /\ cfo_buf_accumulate = [r \in Radio |-> <<>>]
    /\ sfo_estimated = [r \in Radio |-> 0] /\ cfo_estimated = [r \in Radio |-> 0]
    /\ sto_illegal = FALSE
    /\ new_sfo = 0 /\ new_sto = 0 /\ new_cfo = 0
    /\ radio_state = "DID_BOOT" /\ most_recent_event = "none"
    /\ cfo_estimated_sent = 0

\* The machine compares differences with 2, so 3 stands for every larger one.
CountUp(n) == Min({n + 1, 3})

\* What the estimators can make of a window: the mean of a mixed window may
\* lie anywhere between its samples.
Measured(window) == Min(ToSet(window))..Max(ToSet(window))

-----------------------------------------------------------------------------
(* The estimators, on the HiggsFineSync thread.                            *)

\* dspRunSfo_v1 up to the counters: the window leaves sfo_buf and the counters
\* go up before any value is written.
CountSfo(r) ==
    /\ sfo_buf' = [sfo_buf EXCEPT ![r] = SubSeq(@, WINDOW + 1, Len(@))]
    /\ new_sfo' = IF r = Attached THEN CountUp(new_sfo) ELSE new_sfo
    /\ new_sto' = IF r = Attached THEN CountUp(new_sto) ELSE new_sto
    /\ UNCHANGED new_cfo

\* The rest of dspRunSfo_v1: sto_estimated is the mean of the window, and
\* sfo_estimated is taken from cfo_estimated, whatever that is by now.  With
\* sfo_sto_use_duplex, that is: without it sto_estimated is written before the
\* counters, and only sfo_estimated after them.
WriteSfo(r, illegal) ==
    /\ sfo_estimated' = [sfo_estimated EXCEPT ![r] = cfo_estimated[r]]
    /\ sto_illegal' = IF r = Attached THEN illegal ELSE sto_illegal
    /\ UNCHANGED cfo_estimated

\* handleCfoTimer2: every radio that has a chunk gives it to its accumulator,
\* and a full accumulator becomes an estimate and is emptied.
FirstIsSlow(r) == Len(cfo_buf[r]) >= (IF r = 0 THEN 2 * CHUNK ELSE CHUNK)  \* a deviation
Takes(r) == Len(cfo_buf[r]) >= CHUNK
Accumulated(r) == cfo_buf_accumulate[r]
                  \o (IF Takes(r) THEN SubSeq(cfo_buf[r], 1, CHUNK) ELSE <<>>)
FullOneLater(r) == Len(Accumulated(r)) > WINDOW  \* a deviation
Full(r) == Len(Accumulated(r)) >= WINDOW

Estimates(r) == IF Full(r) THEN Measured(Accumulated(r)) ELSE {cfo_estimated[r]}

RunCfo ==
    /\ cfo_estimated' \in {est \in [Radio -> UNION {Estimates(r) : r \in Radio}] :
                              \A r \in Radio : est[r] \in Estimates(r)}
    /\ cfo_buf' = [r \in Radio |-> IF Takes(r)
                                   THEN SubSeq(cfo_buf[r], CHUNK + 1, Len(cfo_buf[r]))
                                   ELSE cfo_buf[r]]
    /\ cfo_buf_accumulate' = [r \in Radio |-> IF Full(r) THEN <<>> ELSE Accumulated(r)]
    /\ new_cfo' = IF Full(Attached) THEN CountUp(new_cfo) ELSE new_cfo
    /\ UNCHANGED <<sfo_buf, new_sfo, new_sto, sfo_estimated, sto_illegal>>

-----------------------------------------------------------------------------
(* The local machine of the attached radio, on the EventDsp thread.        *)

\* handleCustomEvent: the event waits in most_recent_event.
RequestFineSync ==
    /\ most_recent_event = "none"
    /\ most_recent_event' = "REQUEST_FINE_SYNC_EV"
    /\ UNCHANGED <<radio_state, cfo_estimated_sent>>

\* updatePartnerCfo adds the estimate to what was sent.  It does not clear the
\* estimate.  (updatePartnerSfo, called after it, does the same for the sfo,
\* whose sum nothing else reads.)
UpdatePartnerCfo ==
    cfo_estimated_sent' = cfo_estimated_sent + cfo_estimated[Attached]

\* Thresholds: an estimate of 0 is good enough.
SfoFails == sfo_estimated[Attached] # 0
OneSided == cfo_estimated[Attached] > 0  \* a deviation
CfoFails == cfo_estimated[Attached] # 0

\* How many estimates a judgement waits for.
WaitedOnce(n) == n = 1  \* a deviation
Waited(n) == n = 2

\* tick_localfsm sleeps until the event it waits for has come; until then
\* DID_BOOT is not left.
TickDidBoot ==
    /\ radio_state = "DID_BOOT" /\ most_recent_event = "REQUEST_FINE_SYNC_EV"
    /\ radio_state' = "PRE_SFO_STATE_0"
    /\ UNCHANGED <<news, most_recent_event, cfo_estimated_sent>>

TickPreSfo ==
    /\ radio_state = "PRE_SFO_STATE_0"
    /\ radio_state' = "SFO_STATE_0" /\ new_sfo' = -1
    /\ UNCHANGED <<new_sto, new_cfo, most_recent_event, cfo_estimated_sent>>

\* A deviation: a failure does not start the wait again.
SfoKeepsCounting ==
    /\ radio_state = "SFO_STATE_0" /\ Waited(new_sfo)
    /\ \/ /\ SfoFails
          /\ UpdatePartnerCfo /\ new_sfo' = 3
          /\ UNCHANGED <<radio_state, new_sto>>
       \/ /\ ~SfoFails
          /\ radio_state' = "STO_0" /\ new_sfo' = 0 /\ new_sto' = 0
          /\ UNCHANGED cfo_estimated_sent
    /\ UNCHANGED <<new_cfo, most_recent_event>>

TickSfo ==
    /\ radio_state = "SFO_STATE_0" /\ Waited(new_sfo)
    /\ new_sfo' = 0
    /\ \/ /\ SfoFails
          /\ UpdatePartnerCfo
          /\ UNCHANGED <<radio_state, new_sto>>
       \/ /\ ~SfoFails
          /\ radio_state' = "STO_0" /\ new_sto' = 0
          /\ UNCHANGED cfo_estimated_sent
    /\ UNCHANGED <<new_cfo, most_recent_event>>

\* stoState corrects the symbol timing, or refuses an estimate that is too
\* large; then the machine waits for two more.
StoRefuses == sto_illegal

TickSto ==
    /\ radio_state = "STO_0" /\ Waited(new_sto)
    /\ \/ /\ StoRefuses /\ new_sto' = 0 /\ UNCHANGED radio_state
       \/ ~StoRefuses /\ radio_state' = "STO_EQ_0" /\ UNCHANGED new_sto
    /\ UNCHANGED <<new_sfo, new_cfo, most_recent_event, cfo_estimated_sent>>

TickStoEq ==
    /\ radio_state = "STO_EQ_0"
    /\ radio_state' = "CFO_0" /\ new_cfo' = 0
    /\ UNCHANGED <<new_sfo, new_sto, most_recent_event, cfo_estimated_sent>>

TickCfo ==
    /\ radio_state = "CFO_0" /\ Waited(new_cfo)
    /\ new_cfo' = 0
    /\ \/ CfoFails /\ UpdatePartnerCfo /\ UNCHANGED radio_state
       \/ ~CfoFails /\ radio_state' = "BACKGROUND_SYNC" /\ UNCHANGED cfo_estimated_sent
    /\ UNCHANGED <<new_sfo, new_sto, most_recent_event>>

\* startBackground, then on to the loop that keeps correcting.
TickBackground ==
    /\ radio_state = "BACKGROUND_SYNC"
    /\ radio_state' = "RE_FINESYNC"
    /\ UNCHANGED <<news, most_recent_event, cfo_estimated_sent>>

\* Every 2 s, without waiting for an estimate.
TickReFineSync ==
    /\ radio_state = "RE_FINESYNC"
    /\ \/ SfoFails /\ UpdatePartnerCfo
       \/ ~SfoFails /\ UNCHANGED cfo_estimated_sent
    /\ UNCHANGED <<news, radio_state, most_recent_event>>

\* A polling state whose counter does not match stays where it is.
TickWaits ==
    /\ \/ radio_state = "SFO_STATE_0" /\ ~Waited(new_sfo)
       \/ radio_state = "STO_0" /\ ~Waited(new_sto)
       \/ radio_state = "CFO_0" /\ ~Waited(new_cfo)
    /\ UNCHANGED <<news, machine>>

TickLocalFsm ==
    \/ TickDidBoot \/ TickPreSfo \/ TickSfo \/ TickSto \/ TickStoEq \/ TickCfo
    \/ TickBackground \/ TickReFineSync \/ TickWaits
=============================================================================
