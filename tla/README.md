# s-modem: a TLA+ model of the modem's threads and protocols

s-modem is the PC side of a software radio.  It drives a "Higgs" board over UDP
and a word-oriented "ringbus", carries IP packets from a tun device over the
air, and coordinates several PCs (an arbiter, transmitters, a receiver) over
zmq.  Most of it is C++ threads with their own state machines under
`src/soapy/src/driver`, a part is JavaScript under
`src/soapy/productionjs/jsinc` that runs in the same process and shares state
with them.

This directory holds models of the parts that carry protocol and are hard to
test, the TLC runs that check them on small instances, and proofs that TLAPS
checks for every value of the constants.  `PROJECT.json` lists the components,
the runs, the source lines behind every definition, the hazards and the
theorems; this file explains them.

    tlc -config UdpReorder.cfg UdpReorder               # one run
    tlapm TxPathProofs.tla                              # the proofs of a module


## 1. Inventory

### Components, their state and their operations

| Part | State | Operations | Modelled by |
|---|---|---|---|
| `HiggsUdpOOO`, `rxAsyncThread`, `drainOOOThread` | pool of chunks, map of held packets, next number, count of drops | `get`, `markFull`, `getNext`, `release` | `UdpReorder` |
| `FlushHiggs` | normal and low-priority buffers, owner of the data port, 8k pacing, fill level | timer, `updateSendingFlag`, `petSendToHiggs(2)`, `sendZmqHiggsNow`, `dumpLow` | `FlushHiggs` |
| `TxSchedule` | `dsp_state`, pending joint packet and its mode, error counters, epoc | `tickFsmSchedule` (19 states that are reached), `loadPendingMember`, `loadZmqBeamform`, `pullAndPrepTunData` | `TxSchedule` |
| feedback bus recovery (JS) | `recovering`, alive counts, two settings | `monitorCleanRequest`, `oldStyleReset`, `doCheckAlive`, ... | `FbRecovery` |
| `EventDsp::tickFsmTx` | `tx_dsp_state`, last event | boot, `WAIT_EVENTS`, data mode in and out | `EventDspTx` |
| `AttachedEstimate`, the radio, peers | ringbus words in flight | `dispatchAttachedRb`, fill and epoc reports | `TxPath` |
| `RetransmitBuffer` | bunches sent with their time, packets to send again | `sentOverAir`, `scheduleRetransmit`, `getPacket` | `RetransmitBuffer` |
| `VerifyHash` | announced and computed hash lists | `gotHashListFromPeer`, `gotHashListOverAir`, `compare`, `getStatus` | `VerifyHash` |
| arbiter (JS schedule and `EventDspArbiter`), `DemodThread` | sequence numbers, tun queue | `hitTimeslot`, `scheduleJointFromTunData`, `demodGotPacket`, `handleRecovery` | `Retransmit` |
| `RadioEstimate`, `HiggsFineSync` | queues of samples per radio, estimates and how often they were made, local machine, correction sent | `handle_sfo_cfo_callback`, sfo and cfo timers, `dspRunSfo_v1`, `dspRunCfo`, local machine from `DID_BOOT` to `RE_FINESYNC` | `RadioEstimate`, `FineSync` |
| `HiggsRing`, `ringbusPeerLater`, `op` | queue of words, timers, mutex, time of the last word; at the FPGA the half of an operation | `zmqRingbusPeerLater`, `handle_rb_later`, `HiggsRing::send`, `DispatchGeneric` | `GenericOperator`, `RingbusOut` |
| `EventDsp::tickFsmRx` and its peers | state, pending change, who is connected, whose feedback bus answers | `tickFsmRx`, `changeState`, requests, pings and events over zmq | `EventDspRx`, `Bringup` |
| feedback bus parser | input buffer, deferred callback | `_handle_udp_callback`, `parseFeedbackBuffer` | `FeedbackParse` |
| `RadioDemodTDMA`, `AirPacket`, `Interleaver`, `ReedSolomon` | demodulation state, framing | sliced words to packets | not modelled |
| `SafeQueue`, `StatusCode`, `ScheduleData`, `HiggsTunThread` | queues, timeouts, slots | small classes used everywhere | not modelled; queues are atomic in their users' models |
| `HiggsEvent`, `HiggsDriver` | threads and their flags | start, stop, join | not modelled |
| dashboard, RPC, mock RPC, JS bindings, EVM, mapmov emulation | reports and samples | I/O, numerics | not modelled |

### How they interact

    tun -> HiggsTunThread -> txTun2EventDsp -+-> TxSchedule -> FlushHiggs.normal --+
    arbiter -> zmq -> beamform_buffer -------+                                     |
    peers   -> zmq -> FlushHiggs.low --------------------------------------> data port (UDP)
                                                                                   |
    EventDsp.tickFsmTx <-> TxSchedule (doWarmup, exitDataMode, dsp_state)          v
    both <-> JavaScript recovery (settings recover_fb.request / .result)         radio
    both  -> FlushHiggs.allow_zmq_higgs                                            |
    TxSchedule <- dispatchAttachedRb <- ringbus <----------------------------------+
    radio -> UDP -> rxAsyncThread -> HiggsUdpOOO -> drainOOOThread -> parseFeedbackBuffer
    parseFeedbackBuffer -> HiggsFineSync (samples) -> RadioEstimate (estimates)
    RadioEstimate -> corrections -> ringbusPeerLater -> HiggsRing | zmq -> radio
    receiver's tickFsmRx -> zmq (requests, pings, events) -> transmitters' tickFsmTx
    receiver's DemodThread -> VerifyHash -> zmq -> arbiter's RetransmitBuffer

Threads share state in four ways: buffers behind a mutex, single atomics
(`allow_zmq_higgs`, `requestExitSendingLow`, `errorDetected`, ...), two settings
in a JSON store that JavaScript and C++ poll, and fields of another thread's
object read without a lock (`txSchedule->dsp_state`).

### What is hard, and what correct means

* Data port.  Three threads write it and a frame may be written in two pieces.
  Correct: frames are never interleaved (`FramesAreWhole`), low-priority frames
  stay out of data mode (`DataModeKeepsLowOut`), what is written is sent
  (`NormalDrains...`).
* Recovery.  A handshake through polled settings between two C++ machines and a
  chain of `setTimeout` callbacks.  Correct: one at a time, with the port to
  itself (`RecoveryIsExclusive`), each answer for one asker
  (`AnswerHasOneTaker`), and it ends (`RecoveryEnds`).
* Joint packets.  Five places can give one up, and time passes between check and
  use.  Correct: what is reported dropped is not sent (`NackedNeverAired`, with one
  exception, see section 4), nothing is sent after its epoc (`JointNeverLate`).
* Reordering.  Correct: packets come out in order except across a counted gap
  (`ImplementsOrderedStream`), no buffer is shared (`ChunkHasOneOwner`), a hole
  does not stop the stream (`HoleIsGivenUp`).
* Retransmission.  8-bit numbers, three expiry times and two networks of
  different delay, and a receiver that searches for the next packet when a length
  word is gone.  Correct: a gap is asked for (`GapIsAsked`), requests name
  undelivered packets (`OnlyMissingAreAsked`) by the right number
  (`SeqIsOfThePacket`), nothing is delivered twice (`NeverTwice`).  The code is
  wrong for packets found by that search (`AskedAreMissing`, section 4).

* Synchronisation.  A loop through the radio, two timers and two threads, in
  which an estimate may be older than the last correction.  Correct: a machine
  that stops correcting is aligned (`LockedMeansAligned`), a correction does not
  make it worse (`NeverWorse`), it gets there (`Locks`), and nothing is left in the
  queues (`Drains`).
* Ringbus.  An operation is two words, several threads send at once, and a timer
  sends what is first, not what it was made for.  Correct: no word without a
  timer (`NothingStranded`), gaps kept (`GapKept`), no value made of two halves
  (`NoMixedValue`), an operation nobody disturbs is carried out
  (`SoleUserIsObeyed`), every word leaves (`AllLeave`).
* Bring-up.  Processes that start in any order and restart, messages that zmq
  drops.  Correct: each radio is triggered once (`OncePerLife`), after it has
  booted (`BootedWhenTold`), and all synchronise in the end (`EveryoneSyncs`).
* Feedback bus.  A stream of words without marker or checksum, cut anywhere.
  Correct: exactly the frames that were sent are handed on (`InStep`,
  `FramesFound`), a backlog does not grow (a part of `TypeOK`), and the parser goes
  on (`NeverStops`).

`PROJECT.json` lists the hazards at their lines, those without a property with
the reason.  Smaller ones of the same kinds, without a property: a recovery
empties the tun buffer under a joint packet in mode 2, which stays pending
without data (`TxSchedule.cpp:1786`); `WAIT_EVENTS` sets the shutdown state and the
next lines overwrite it (`EventDspFsmTx.cpp:462`); only a request prunes the
retransmit buffer (`RetransmitBuffer.cpp:114`); two threads use the maps of
`VerifyHash` without a lock (`VerifyHash.cpp:107`); `expensiveSizeAll` reads the live
queue outside the lock (`SafeQueue.hpp:105`).


## 2. Plan

Done, in this order:

1. `UdpReorder`, its abstract specification `OrderedStream`, `UdpReorderProofs`.
2. `FlushHiggs`, `TxSchedule`, `FbRecovery`, `EventDspTx`, composed in `TxPath`;
   `TxPathProofs`.
3. `RetransmitBuffer`, `VerifyHash`, composed in `Retransmit`; `RetransmitProofs`.

4. `RadioEstimate`, composed with the timers of `HiggsFineSync` in `FineSync`;
   `FineSyncProofs`.
5. `GenericOperator` and `HiggsRing`, composed in `RingbusOut`; `RingbusOutProofs`.
6. `EventDspRx`, composed with the transmitters in `Bringup`; `BringupProofs`.
7. `FeedbackParse`, which reads the stream that `UdpReorder` puts out.
8. Theorems about data that grow: the order of words in `RingbusOutProofs`,
   `FeedbackParseProofs`, the count of chunks in `UdpReorderProofs`, the bunches of
   `RetransmitProofs`, the windows of `FineSyncProofs`, on the lemmas of `Induction`.

Next:

9. The reception in front of `demodGotPacket`: `RadioDemodTDMA`, the headers and
   lengths of `AirPacket`, as a part of `Retransmit`, where a bunch now arrives in
   one step.
10. `HiggsTunThread` and `SafeQueue` between the tun device and `TxSchedule`, as a
   part of `TxPath`.


## 3. Modules

### UdpReorder, OrderedStream

`UdpReorder` has one action per member function, each of which holds the mutex
for its whole body, and the loops of the two threads between them: `RxReturn`
(`recvmmsg` returns), `MarkFull`, `Get` and `Report` for `rxAsyncThread`,
`GetNextFound`, `GetNextGiveUp` and `WriteAndRelease` for `drainOOOThread`.
`recvmmsg` fills iovecs one at a time (`RxStore`).  A chunk is a model value, its
content the sequence number.  `get()` on an empty pool ends in state `crashed`,
as the code hands a null pointer on.  The network (`Send`, `Duplicate`) loses,
reorders and duplicates.

`OrderedStream` says what the reader may rely on: the stream starts once, each
packet is the successor of the last unless the count of drops has grown.  The
refinement mapping takes `cursor` to `initial_seq_number`, or to the number of
the chunk in the drain thread's hands.

### FlushHiggs, TxSchedule, FbRecovery, EventDspTx, TxPath

`FlushHiggs`: data are units, one per call of `petSendToHiggs2`; a unit knows its
frame's kind and how many units follow.  The timer callback is cut where other
threads can get in: `updateSendingFlag`, sending low, sending normal.  The
clock-driven budget is a choice of sending or not.  `wire` is the last unit sent.

`TxSchedule`: one action per state of `tickFsmSchedule`.  `TX_SEND_BUSY_WAIT`
sleeps, polls the clock and writes a packet in two pieces (`split_a`,
`split_b`); it is cut at those places, `step` says where the thread is.  `Loaded`
is the loop over `loadPendingMember` and `loadZmqBeamform`.  `dsp_state` is the
state whose handler ran last and `dsp_state_pending` the next one, as EventDsp
reads the first.

`FbRecovery`: the JavaScript callbacks, `js_step` naming the one that is due.
`EventDspTx`: boot with the JavaScript recovery, events, data mode.

`TxPath` composes them with the world.  The radio is not in the repository; it
is modelled from what `dispatchAttachedRb` and the recovery states expect:
it reports the start and the end of a run of zeros, answers a status frame,
acknowledges user packets and reports errors.  A ringbus word may be lost.  A
budget bounds how often the world does what.

What is taken as one step, and why:

* `WAIT_TX_SCHEDULE_EXIT` reads `dsp_state` and writes `allow_zmq_higgs`: two
  statements, while `TxSchedule` would have to go through three states that each
  wait for a timer to get to data mode.
* `updateSendingFlag` reads two lengths and an atomic, and writes `sending_to`,
  which only its own thread uses.

### RetransmitBuffer, VerifyHash, Retransmit

`RetransmitBuffer` and `VerifyHash` are the two classes, which forget what is too
old in the same way (`Aging`); `Retransmit` adds the
arbiter (`HitTimeslot`, with `Trigger4` and `ScheduleJointFromTunData`), the
receiver (`DemodGotPacket`, `DemodGotEmpty`) and the networks between them.  A
packet is a number and counts as one word; the hash of a packet is the packet,
that of a damaged one is `Bad`, so hash collisions are left out.  Time is counted
in seconds as ages, with the code's own constants: a bunch is on its way for 3 s
(`Flight`), kept by the arbiter for 4 s (`BufferKeep`), a hash list by the
receiver for 5 s (`HashKeep`).  `bad` and `cut` in `DemodGotPacket` are the packets
whose hash does not match and the one whose length word is gone, after which
`handleRecovery` searches.

`handleRecovery` looks at the next `Window` words for a sound packet and goes on
there, if more than `Window` words are left behind it.  The code's window is 15000
words (`DemodThread.cpp:535`), and a bunch of `FixedSchedule` has 150E3 or 200E3 in
the mode it starts in, 30E3 and 240E3 in two others, 12E3 in the last
(`fixed_schedule.js:41-62`): the search takes place in all modes but one.  As a packet
is one word here, `Window` is scaled to 2, and the runs have bunches longer and
shorter than it.  `beyond` is a history variable: the packets written behind a
jump of `handleRecovery`, whose hashes stand nearer to the front than in the
arbiter's list.

`scheduleJointFromTunData` is one step: no other thread takes packets out of the
two queues it empties.  `VerifyHash` has no lock although two threads use it;
its calls are taken as atomic (a race on a `std::map` has no useful set of
outcomes), which is listed as a hazard.

### RadioEstimate, FineSync

A sample stands for one watermark of the feedback bus (512 symbols, 21 ms) and
is the offset seen while it was taken: the carrier's own offset less the
correction then in force.  An estimate is any value between the smallest and
the largest sample of its window, so a window that holds samples from before a
correction gives a wrong estimate, which is what the counters of the local
machine are there to wait out.  `RadioEstimate` has the queues, `dspRunSfo_v1` (cut
between counting and writing the values, as another thread reads them),
`dspRunCfo` with its accumulator, and the machine.  `WriteSfo` is the code of a
transmitter in duplex mode, where JavaScript sets `sfo_sto_use_duplex`
(`wrap_native.js:251`, `handle_duplex.js:29`): both values are written after the counters
(lines 791 and 805).  With the default of false, `sto_estimated` is written before them
(lines 677, 744), and `sfo_estimated` before and, for the value that stays, after
them; that variant of `sto_estimated` is not modelled.  `FineSync` adds the thread with
the two timers, its stalls, and the radio.

`SfoTimer` does not fire while the cfo timer is pending: both are added by the
same callback, with 1 ms and 0.1 ms, and libevent runs them in that order.
Without it the loop can oscillate for ever.

### GenericOperator, RingbusOut

`GenericOperator` is the receiver of two-word operations.  `RingbusOut` has the
callers of `zmqRingbusPeerLater` (`Push` under the lock, `Arm` after it), the timers
(`Fire`), and `HiggsRing::send` in two steps, taking the lock with the computed
sleep (`RbLock`) and sending (`RbSend`).  Three threads: EventDsp, which calls and
runs the timers; JavaScript, which calls; zmq, which sends another node's words
at once.  The delays of the timers are left open.  Halves of operations of two
threads that meet at an FPGA make it drop both; halves of the same operation and
register from two threads would be put together, so `NoMixedValue` is about
different ones.

A thread has one way out: it is in `Queued` or calls `HiggsRing::send`.  Operations
do have one, as `op` and `partnerOp` always use the queue.  EventDsp also sends single
words at once between its operations (`cs31CFOTurnoff` after `op`,
`EventDspFsmTx.cpp:148` and `153`), which overtake those still in the queue; that
mixture is not modelled.

### EventDspRx, Bringup

`EventDspRx` is `tickFsmRx` from `PRE_BOOT` to the end of the duplex bring-up; runs
of states that only set registers are one state.  `Bringup` adds the
transmitters (off, booting, waiting for events, synchronising), the zmq
connections, which lose what is sent before they are made or when a process
ends, and restarts on both sides.  A request or a ping whose answer would tell
the receiver nothing new is left out (`TellsNothing`).  `late` marks a transmitter
that restarted after its feedback bus answered; the code does not handle that
case, and `BootedWhenTold` and `EveryoneSyncs` except it.

### FeedbackParse

The stream of the FPGA is any sequence of frames and zeros; a body word is any
of `BodyWord`, among them words that read as the type and the length of a frame.
A word carries its place in its frame and whether it comes after enough zeros
since the last loss (`sure`); the parser does not look at these.  `After` is one turn
of the loop of `parseFeedbackBuffer`, with its two breaks and the word that an error
costs, `Index` the loop's index after k turns, `Parse` what it has found and where it
ends.  Words so large that `i+1 + advance` wraps at 2^32 are left out. `Callback` is the whole callback, one
step because the lock of the bufferevent pair is held.  `due` is libevent's
deferred callback: several writes may become one call.  `feedback_word_length`
lives in a library outside the repository; its JavaScript twin in
`js/mock/fbparse.js`, written to agree with it, is the source used.  Of its types the model has
those that carry a length, as one, and unknown ones.  Left out is the ringbus type (3): with a length from 4
to 16 it is no error and counts as 16 words (`fbparse.js:196-207`), whereas the model
takes it for an unknown type, which costs one word.

How many zeros are enough is computed, not assumed: `LINEAR_SIZE - 3`, which is 2045
words, and with one less `InStep` fails.  A header that claims more than
2047 words is never passed (`Wedged`); after a lost packet, or when the first
packet is from the middle of a frame, the model goes there, and the properties say that nothing else leads there and nothing else stops it.


## 4. Runs

Passing runs:

| Run | Shows |
|---|---|
| `udp` | with reordering, loss, one duplicate and a wrapping number: one owner per chunk, chunks lost only to duplicates, output an ordered stream; a packet next in line is delivered and a hole leaves at most GIVEUP packets waiting |
| `tx_safe` | from power-on, and in and out of data mode with an error or a full radio: recoveries never overlap and have the port, each answer has one taker, no frame on the data port is cut by another, low-priority frames stay out; joint packets kept waiting by a full radio, a recovery, low-priority frames or a debug packet: one reported dropped is never transmitted, but for the stale report below, and none is sent after its epoc |
| `tx_live` | a recovery ends and the normal buffer drains, but for the two stuck states below; with one ringbus word lost at any point |
| `rt` | with messages of any delay, gaps are asked for while the bunch is kept; with bunches large enough for the loose comparison, shorter or much longer than the window of `handleRecovery`, requests have the right number; only what was not written is asked for and nothing is written twice, but for packets found behind a jump of `handleRecovery` |
| `sync` | the loop of estimates and corrections ends aligned from every offset, with a thread that stalls and a window that is refused |
| `ringbus` | three threads and five operations: every word has its timer, its gap and its partner, and leaves |
| `bringup` | two transmitters and a receiver that start in any order, one restart on each side, two calls of `changeState`: triggered once, after booting, and all synchronise |
| `fbparse` | frames cut at any place, body words that read as headers, a packet given up: exactly the frames are found once enough zeros have come, a backlog does not grow, the parser stops only at an overlong header |

Runs that show a disagreement between the code and what it says of itself (the
findings in `PROJECT.json` quote the lines):

| Run | Shows |
|---|---|
| `tx_wedge` | `PERIODIC_SCHEDULE_0` shuts the port to low-priority frames without `exitSendingLowMode`: FlushHiggs may keep the low buffer selected, may not send it, and sends nothing any more |
| `tx_report` | `doCheckAlive` looks once; when the reply comes later, `TX_FSM_RECOVER_ERROR_2_A` waits for ever |
| `rt_shift` | a bunch longer than the window of `handleRecovery` in which one length is gone: packets that were written are asked for |
| `rt_wrap` | after 256 bunches without a request, a request finds the bunch of the previous lap |

The exception in `NackedNeverAired` is a fault of the code.  When the target of a
debug packet has passed after its data were made (`TxSchedule.cpp:1288`),
`dumpPendingPacket` is called as for a joint packet; it reports
`pending_valid_packet`, which is still the joint packet handled before, although
`pending_valid` is 0.  The arbiter is told that a packet was dropped which may have
been sent.  It was found when the proof of the plain invariant,
no packet both reported and sent, failed at that step; TLC then reached it with
one debug packet after a joint one.  The property now names the case and forbids
every other.

The exception in `NeverTwice` and `OnlyMissingAreAsked` is a fault as well, the one
that `rt_shift` shows.  `compare` takes two lists of hashes position by position, and
`demodGotPacket` puts no hash for what `handleRecovery` jumped over.  So behind a jump
every hash stands too far in front.  When more than 0.7 of the hashes come before the
jump, the lists still match, and all packets behind it count as damaged: they are
asked for although they were written (`AskedAreMissing`), and written a second time
when they come again.  `beyond` names these packets.  The properties forbid every
other one, also those before the jump in the same bunch.  Without the
exception TLC finds `NeverTwice` violated too, some steps later than `rt_shift` ends.

Three more limits of the code follow from the definitions, without a run: the target
of a joint packet is reduced modulo an epoc and then compared with the radio's
lifetime, which is not (`JointTarget`, `TxSchedule.cpp:1133`), so that in later epocs
than the first every joint packet is given up as late (`InTime` in `TxPathProofs`);
data pulled from the tun buffer are dropped when the target has passed meanwhile
(`Pull`, `WaitLate`); and packets to be sent again wait for new words in the tun
buffer (`HitTimeslot`).

### Bounds

Counters in the code that are only compared with a threshold are scaled so that
the threshold is passed within the run; the relations the properties depend on
are kept.

* `UdpReorder`: GIVEUP is 1 (the code has UDP_OOO_TOLERANCE), numbers are modulo 4
  and start at 2, so that with 4 packets the wrap falls into the middle of the
  stream.  `MaxSent` counts copies too, `MaxDups` is 1.  Four chunks and batches of
  2 leave room for held packets, a give-up and a chunk lost to a duplicate, and
  let the pool run empty.  No symmetry, as liveness is checked.
* `TxPath`: an epoc has 4 frames and a slot 1; the clock runs to 5, past one
  epoc.  A large packet has two units, which is what two writes need.  The joint
  packets are one for this epoc and one for the next, but only the first of them
  together with a low-priority frame; the debug packet that leads
  to the stale report has a budget of its own.  Two units
  in the normal buffer and two words on the ringbus are enough for a frame of
  one kind behind another.  Each run has the events its question needs: a run
  starts with one of the budgets `MC_TxPath` gives it, so that errors, low-priority
  frames and a full radio are not all multiplied with each other.  `tx_safe` starts
  from power-on or after a boot without incident, the others after such a boot.
  In its starts without joint packets the clock stands at its bound, as only they
  are compared with it; with joint packets it starts at 0.
* `Retransmit`: real sequence size and expiry times, except that `rt_wrap` has 5
  numbers at one bunch per second (the assumption that a lap takes longer than
  anything is kept still holds).  `Window` is 2 words for the code's 15000.  `rt` has
  three settings: `Gaps` with small bunches, two of them lost, and any delays; `Loose`
  with bunches of up to 6 packets, as the loose comparison needs lists of five, and
  one of each other damage; `Long` with the same damage and bunches of up to 11
  packets, five windows, and two packets more, so that a bunch that carries packets
  again is longer than the window too.  11 is the smallest size at which a bunch
  cut once, with its end found again, still matches its list (more than 0.7 before
  the cut and more than a window behind the packet found).  The code has ten windows
  in a bunch, so there that happens for a cut between 0.7 and 0.9 of it.
  In `Loose` and `Long` messages take less than a second: `SeqIsOfThePacket` holds
  because a list expires (5 s) before the bunch sent again can arrive (twice 3 s).
* `FineSync`: a window of 4 samples stands for 200, a chunk is half a window.  Four
  samples may come during stalls and three may wait, less than a window; one
  window is refused by `stoState`.  Offsets from -1 to 2, both roles.  `NeverWorse` is
  stated for a thread that has not stalled yet.
* `RingbusOut`: words of two bits, a gap of 2 ticks, programs in which two threads
  share a queue and two an FPGA.
* `Bringup`: two transmitters, both waited for.  With more the receiver's steps
  for each are the same; with DSP_WAIT_FOR_PEERS below two there are still two
  radios and `BootedWhenTold` is not promised (a hazard).
* `FeedbackParse`: a header of 2 words (the type and the length are the first two
  of 16), frames of 2 and 4 words, a window of 6, the code's 16, 1040 and 2048 in
  small: the window holds the longest frame and a packet, the watermark is the
  longest frame.  Packets of 2 words cut frames at every place.  A body word is
  0, a type, a length that just fits the window, or one that does not.  Up to 11
  words wait, more than one window; one packet is lost, as a second loss is the
  first one again.

Deadlock is checked for `TxPath`, `FineSync`, `Bringup` and `FeedbackParse`.
`UdpReorder`, `Retransmit` and `RingbusOut` stop when their bounded traffic is used
up.

### Fairness

* `UdpReorder`: weak fairness for the steps of the two threads, which loop until
  `higgsRunThread` is cleared.  None for the network.
* `TxPath`: weak fairness for every thread, the clock, the dispatch of ringbus
  words and the reports of the epoc and of an empty radio buffer.  Strong
  fairness for sending a unit of the normal buffer: the budget of
  `petSendToHiggs2` grows with the clock, so a call that may send comes again and
  again although single calls may not.  `LiveSpec` also assumes that the radio
  answers within the 20 ms that `TX_FSM_RECOVER_ERROR_4` waits
  (`PromptRadio`); a slower radio makes that state start over each time.
* `FineSync`: weak fairness for the samples, the timers, the estimators and the
  machine's ticks; none for stalls and refused windows.
* `RingbusOut`: weak fairness for each thread's steps, the timers, the clock and
  the network to the other node.
* `Bringup`: weak fairness for the receiver's tick, the JavaScript step that
  ends its own synchronisation, and each transmitter's start, boot, connection,
  messages and ticks.  None for restarts and `changeState`.
* `FeedbackParse`: weak fairness for packets, which the FPGA never stops sending,
  and for the callback, which libevent has scheduled.  None for losses.
* `Retransmit`: safety only, no fairness.


## 5. Proofs

Assumptions are those named in the modules that declare the constants
(`ReorderAssumption`, `FlushAssumption`, `TxAssumption`, `EdAssumption`,
`PathAssumption`, `RingbusAssumption`, `RxAssumption`, `BringupAssumption`,
`FeedbackAssumption`, `BufferAssumption`, `HashAssumption`, `RetransmitAssumption`,
`WindowAssumption`, `FineSyncAssumption`).  They ask for numbers of the right sign, a finite pool of
chunks, programs made of words, that the larger of the two fill thresholds is
larger, that the id of a joint packet is not 0 (0 stands for none) and the node's own tun data are
not joint packets, and of the feedback bus that the window holds the longest frame and a
packet, or two packets (2048 words against frames of at most 1040 and packets of
under 400), and of the synchronisation that a window is made of whole chunks and
less than one waits; nothing bounds pool, traffic, programs or frame size.

**Induction.**  The provers cannot instantiate the library's induction theorems,
whose property is an operator.  Here the property is a set: a set of naturals has a
least element, a set with 0 and every successor has all naturals, and a function
defined by iteration over an interval exists (`Iteration`).  The last is what makes a
recursive function of the models (`Index`, `Run`, `LoadedAfter`) usable in a proof.

**UdpReorderProofs.**  The inductive invariant `IInv` is the conjunction of
`TypeOK`; `RxSlots`, which iovecs hold a chunk at each place of the receive loop;
`ChunkHasOneOwner`; `Filed`, a held packet lies under its own number; `Cursor`, a
packet in the drain thread's hands is the predecessor of
`initial_seq_number`.  `RxSlots` is needed because
`markFull` and `recvmmsg` take a chunk out of an iovec without looking whether one
is there: what they file or fill is a chunk only because `get` has replaced every
one that was filed; `Filed` and `Cursor` make the step that
writes a packet a step of `OrderedStream`.  Theorems: `TypeCorrect`, `OneOwner`,
`InOrder` (the refinement).

`PoolKept` is a count.  Chunks leave the pool for good when `markFull` overwrites a
held packet of the same number.  The invariant `LInv` weighs the packets, in the
network, in an iovec or in the map, against the different numbers among them: what
is there beyond one packet for each number, and the chunks already lost, are together
at most the copies the network made.  A copy adds one on each side; an overwrite
turns a packet too many into a lost chunk; every other step only takes away.

**TxPathProofs.**  `ControlInv` says who may be where at the same time, and is
inductive alone:

* `BootIsQuiet`: while EventDsp boots, TxSchedule is not started and the port shut;
* `RecoveryPhases`: the JavaScript side is busy, asked or has answered only while
  one machine waits for it;
* `StepInBusyWait`: a half-written packet means `TX_SEND_BUSY_WAIT`;
* `Asleep`: what `WAIT_TX_SCHEDULE_EXIT` takes for asleep is at most about to start;
* `DataModeKeepsLowOut`.

The argument for the last is the one a reader of the code has to make: EventDsp
opens the port in two places, at the end of booting and in
`WAIT_TX_SCHEDULE_EXIT`; in the first TxSchedule has not been started
(`BootIsQuiet`), in the second it is asleep (`Asleep`) and closes the port itself on
its way to data mode.  From `ControlInv`: `LowStaysOut`, `Exclusive`, `OneTaker`.

`FramesInv`, inductive together with `ControlInv`: consecutive units in the normal
buffer belong to one frame or are the last and the first of two; the first
continues what is on the wire; the last is half a packet exactly when
TxSchedule is between its two writes; while low-priority frames have the
port nothing is half sent.  It gives `Whole`: no frame is cut by another,
for frames of any number of units.

Joint packets, in the same module.  `JointInv` has three parts.  `Placed`: a joint packet is in one
place, with the arbiter, in `beamform_buffer`, in hand (`pending`, and its data in
`tun`), reported or sent.  `Handled`: what is in hand has not been sent, except
between the two writes of one packet, and the data pulled from `tun` are those of the
packet in hand; while a packet is on its way through `TX_SEND_BUSY_WAIT` it is a debug
packet exactly if nothing is in hand.  `InTime`: what will be sent when the sleep is
over is sent in the first epoc.  The first two are needed together because the
handler sends what it pulled and reports what is in hand: that these are the same
packet is only so because `loadPendingMember` takes no packet while one is in hand and
`loadZmqBeamform` empties `tun` before it writes.  The loop over those two (`LoadedAfter`) keeps the places of the
packets, shown for one turn and then by iteration for any `DumpOld`.  Theorems:
`Nacked` and `OnTime`.

`PathTypes` is `TypeOK` of `TxPath`.  It rests on `FramesInv` and `JointInv` for the
buffers and the packets, and on `OtherTypes`, which is split by what a step writes
(the port, the state machine, its counters, the data, the world), so that each
component's steps are looked at only for the parts they touch.

**RingbusOutProofs.**  `IInv` is `Shapes`, the types; `NothingStranded` itself, an
equation between the length of the queue and the timers added or about to be
added, inductive with the types; and `LockInv`: a thread that holds the mutex
sleeps at least what is left of the gap.  The last is what `GapKept` needs: the
sleep is computed when the lock is taken and the word leaves later, and only
because nobody else can send meanwhile is it still enough.  Theorems
`TypeCorrect`, `NoneStranded`, `Gap`, for any threads and programs.

The order of the words, in the same module.  What an FPGA receives, in order.  Each thread has a channel:
the shared queue and what has left it, for those that call `zmqRingbusPeerLater`, or
its own `HiggsRing::send`.  Take a class of words that only one thread sends, all to
one FPGA: they are in the channel in the order of the program, without a gap, from
the one after the last that the FPGA took (`InOrder`).  A timer takes the first word
of the queue, whichever caller armed it, and words for the own ring overtake those
on their way to another node, but never two words of one class.  With the class of
both halves of one operation, `NoMixed`: the high half an FPGA completes is that of
the low half it holds.  It needs what `NoMixedValue` says of the programs, that no two
threads use the same operation on that FPGA.  With the class of all words for an
FPGA, `SoleUser`.

**BringupProofs.**  `TriggerInv` has three parts: `NoWayBack`, a machine that has
passed the coarse trigger is not led back to it, as `executeChangeState` refuses to
leave those states; `QuietUntilTheEnd`, the flag that lets samples in is only set
after the last reset; `OneTrigger`, triggers received and on their way are at most
one for each life of the receiver that got that far.  From it `TriggeredOnce` and
`QuietReset`.  `AnswerInv` follows an answer back to its cause: a receiver past
`TICKLE_PEERS_3_DOT_7` has an answer of every feedback bus, and an answer, on its
way or counted, or a trigger on its way means a transmitter that has booted or
restarted since.  It gives `ToldWhenBooted`, for any number of radios of which at
least two are waited for.

**FeedbackParseProofs.**  `BufInv` describes the words that wait: of two in a row that
are both sure, the second continues the first (`Continues`); the first sure word after
one that is not is not inside a frame, and `Recovers` zeros are before it, as far as
they still wait (`Regains`).  `Link` ties the last of them to the wire and to the count
of zeros.  The core is `NoRegain`: when the loop accepts a header at x, no word of the
frame it claims, after one that is not sure, is sure; for the type and the length at
x are not zeros, so a run of zeros in the frame begins after them, and with its
`LINEAR_SIZE` - 3 words the frame would not fit in the window.  So an accepted frame is
sure up to some word and not after it, and as far as it is sure it is one frame
(`OneFrame`); a turn that begins between frames ends between frames (`Jump`, `Path`).
That gives `InStepHolds`, and `FramesAreFound`: a frame that is all there cannot be
jumped over.  The bound on the backlog (in `TypeCorrect`) needs to look at two
callbacks together (`Bounded`): one that drains only c words of a full window stopped
at a frame of at least `LINEAR_SIZE` - c words, which the next one drains.

**RetransmitProofs.**  The loops over lists and bunches are recursive functions, which
lemmas on `Iteration` describe: what `compare` finds missing, what
`scheduleRetransmit` puts into the queue, what `getPacket` takes out.  The invariant has
four main parts.

* `Chain`: a packet is in one place where it can still be asked for, and when it goes
  into another bunch, the old bunch has left the air and the retransmit buffer.
* `Undelivered`: what a bunch still on the air, or the queue of packets to send again,
  holds has not been delivered.
* `Sound`: a request on its way names a bunch that is the one the arbiter
  remembers by that number, or none, and in it only places of packets that were not
  delivered.
* `GapsAsked`: from a gap that was noticed to the request that is on its way.

The window of `handleRecovery` and the size of bunches are left open.  `written` is
`delivered` for all packets but those in `beyond`, and `Undelivered` and `Sound` are
about it.  The step that needs it is `DemodGotPacket`: what `compare` finds missing are
positions, and a packet written from this bunch and not behind a jump has its hash
in its own position (`InPlace`), which therefore is not reported.

`DeliveredOnce`, `MissingOnlyAsked` and `GapAsked` are proved for behaviours in which
`NoReuse` holds: no two bunches that are remembered have the same 8-bit number, and a
whole lap of numbers is not lost in a row.  `rt_wrap` shows what happens without it,
and the code has nothing that enforces it.  It holds throughout the run `rt`, so the
hypothesis leaves out none of the states it reaches.  `SoundInTheFirstLap` does
without a hypothesis on the behaviour: as long as no more than 256 bunches have been
sent (`FirstLap`), `NoReuse` follows, and with it everything else.

`NumberOfThePacket` (`SeqIsOfThePacket`) needs the time as well.  A list of another bunch
matches the bunch just decoded only if the two share a packet, so the packet was sent
again meanwhile, and that takes two flights: `Ages` says how long ago the hashes of a
bunch were announced when a later bunch is on the air, when a request for the bunch is
on its way, when its packets wait, and when they are in a later bunch.  `FoundIs` says
that what is compared is at most `HashKeep` old.  The hypothesis `Punctual` is
that messages take less than a second and two flights more than `HashKeep` (6 s and 5 s in
the code), or that a bunch has at most three packets, for which `compare` is strict.
All settings of `rt` satisfy it.  Without it the property is false: with bunches of
four packets, one of them lost, and a list that comes late, TLC finds in 16 steps a
request with the number of the lost bunch for the bunch that carried its packets again.
`NumberInTheFirstLap` states it for the first lap without `NoReuse`.

**FineSyncProofs.**  The line of a radio is its accumulator, `cfo_buf`, `sfo_cfo_buf`
and the sample being taken, oldest first.  `Fresh(f)` says that the newest f samples of
the line were taken with the correction now in force, so they show what is left to
correct (`Res`).  The invariant `Inv` bounds the number of older ones by what the
machine has waited for (`AgesHold`):

* before `CFO_0` at most a window of the line is old, or the machine is in
  `SFO_STATE_0` with an estimate it has already used and will use again, so that it
  stays there until a new estimate has taken a window out of the line (`SfoAge`);
* in `CFO_0` the first estimate takes out what was old, and the second is `Res` exactly
  (`CfoAge`); so when the machine leaves with an estimate of 0, nothing is left to
  correct, and the line shows only that (`LockedAge`).

It needs the lengths of the queues (`Lengths`): less than a window waits.  That an
estimate lies between the samples of its window is used in one way only: of a window
of equal samples it is that value.  `Locked` follows, for every window, chunk, backlog
and number of stalls.

`NeverWorse` is about a thread that keeps up.  `Steady` says what that means: one
sample is in work at a time, and the sfo queue is ahead of the accumulator by at most
the window just counted.  Then the estimate that a correction uses was measured after
the last correction, or is 0 (`Judged`): of the two windows the machine waits for, the
first takes out the old samples.  `CorrectionsHelp` has the hypothesis `WINDOW` > 1: with
windows of one sample the argument breaks, although TLC finds no violation; the code has 200.

Only model-checked:

* liveness (the provers do not handle fairness);
* in `TypeOK` of `FineSync`, that estimates and corrections stay within a multiple of the
  largest offset; the rest of it is `AccumulatorsFit`.  The bound is one of the run's
  `MaxStalls` = 4 and no theorem: after many stalls the sfo queue holds several windows,
  the machine goes round on them before the cfo estimate is a new one, and each round
  adds the same estimate to what was sent.  With `WINDOW` = 4, `CHUNK` = 1 and
  `MaxStalls` = 24 TLC finds a correction larger than three times `MaxOffset`.


## 6. Not modelled

* Debug options: `debugFillBuffers`, `debugFillZmq`, `duplex_debug_split`, `tickle`,
  `suppressFeedbackEq`, `GET_DEBUG_RESET_FB_ONLY`, `EventDsp::test_fb`, the debug mode
  of the recovery script, the torture scripts, the repeat history of the arbiter
  (`enableRepeat` is false).
* The words searched by `handleRecovery` one by one: a packet counts as one word.
* Signal processing, field arithmetic, modulation tables, statistics.
* Of the bring-up: the half-duplex states (TDMA, beamforming) and the debug
  states, which the duplex configuration does not reach; the stall by hand
  (`blockFsm`).  Of the synchronisation: the TDMA branch and `STO_SKIP`, off by
  default, and the sfo correction, which has the same form as the cfo one.
* What `handleParsedFrame` does with a frame beyond handing it on; `FineSync` starts
  from the samples it yields.  `StandAloneFbParse` is a variant of the parser for
  tests.
* `RadioDemodTDMA` and `AirPacket`: symbols to words and words to packets; their
  outcomes are choices in `Retransmit`.  `Interleaver`, `ReedSolomon`: arithmetic.
* `StatusCode`, `ScheduleData`: reports and slot tables without a protocol of their
  own.  `SafeQueue`, `HiggsTunThread`: atomic queues in the models of their users.
* Start and stop of the threads: the end of a process is a crash in `Bringup`; the
  orderly shutdown cannot be reached (`EventDspFsmTx.cpp:462`).
* Dashboard, RPC, bindings, discovery, calibration: input and output without
  influence on the protocols above.

Most of the repository's lines are of that kind: of about 195,000, the bindings'
generated `NapiHelper.hpp` has 121,649, the third-party `json.hpp` 18,590 and the
sample data of `airpacket18.cpp` 9,361; much of the rest is signal processing,
test drivers and code that is commented out.
