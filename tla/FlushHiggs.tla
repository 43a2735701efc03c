----------------------------- MODULE FlushHiggs -----------------------------
(***************************************************************************)
(* FlushHiggs, the thread that owns the UDP data port of the attached      *)
(* radio.  Other threads append to two buffers: `normal' (sendToHiggs) and *)
(* `low' (sendToHiggsLowPriority).  A timer decides which of the two is    *)
(* being sent and puts it on the port.                                     *)
(*                                                                         *)
(* Data are abstracted to units, a unit being what one call of             *)
(* petSendToHiggs2 sends.  A unit knows the kind of the frame it belongs   *)
(* to and how many units of that frame are left after it.  Each member of  *)
(* `low' is one feedback-bus frame with a sound or a broken header.  The   *)
(* clock-driven budget of petSendToHiggs2 is a choice of sending or not.   *)
(***************************************************************************)
EXTENDS Integers, Sequences

CONSTANTS EightK,      \* units in 1024*8 words, the size of the radio's buffer
          ThreeK,      \* fill level, the 1024*3 threshold
          FiveK,       \* fill level, the 1024*5 threshold
          FillLevels   \* the fill levels the radio reports

ASSUME FlushAssumption ==
    /\ EightK \in Nat \ {0}
    /\ ThreeK \in Nat /\ FiveK \in Nat /\ ThreeK < FiveK
    /\ FillLevels \subseteq Nat /\ 0 \in FillLevels

VARIABLES normal,                 \* for_higgs_bev, units not yet sent
          low,                    \* for_higgs_via_zmq_bev, frames not yet sent
          sending_to,             \* which buffer owns the port
          allow_zmq_higgs,        \* atomic: may `low' take the port?
          requestExitSendingLow,  \* atomic: leave LOW at the next update
          valid_8k,               \* atomic: more than 8k words are being sent
          should_pause_p,         \* the radio's buffer was too full
          should_use_new_level,   \* hysteresis of the pause
          last_fill_level,        \* as last reported by the radio
          flush_pc,               \* where the thread is: timer, low or pet
          wire                    \* the last unit put on the port

flushVars == <<normal, low, sending_to, allow_zmq_higgs, requestExitSendingLow,
               valid_8k, should_pause_p, should_use_new_level, last_fill_level,
               flush_pc, wire>>
\* What only the FlushHiggs thread writes.
flushOwn == <<sending_to, valid_8k, should_pause_p, should_use_new_level,
              flush_pc, wire>>

Kinds == {"user", "zeros", "status", "low"}
Unit == [kind : Kinds, left : Nat]
LowFrames == {"sound", "broken"}

FlushInit ==
    /\ normal = <<>> /\ low = <<>>
    /\ sending_to = "IDLE"
    /\ allow_zmq_higgs = FALSE
    /\ requestExitSendingLow = FALSE
    /\ valid_8k = FALSE
    /\ should_pause_p = FALSE
    /\ should_use_new_level = FALSE
    /\ last_fill_level = 0
    /\ flush_pc = "timer"
    /\ wire = [kind |-> "zeros", left |-> 0]

-----------------------------------------------------------------------------
(* Deciding who owns the port.                                             *)

AfterExitRequest ==
    IF requestExitSendingLow /\ sending_to = "LOW" THEN "IDLE" ELSE sending_to

LowAlwaysMay == low # <<>>
LowMayStart == low # <<>> /\ allow_zmq_higgs

LowNeverEnds(s) ==
    IF s = "LOW" THEN "LOW"
    ELSE IF normal # <<>> THEN "NORMAL"
    ELSE IF LowMayStart THEN "LOW" ELSE "IDLE"
NextSendingTo(s) ==
    IF s = "LOW" /\ low # <<>> THEN "LOW"
    ELSE IF normal # <<>> THEN "NORMAL"
    ELSE IF s # "LOW" /\ LowMayStart THEN "LOW" ELSE "IDLE"

UpdateSendingFlag ==
    /\ sending_to' = NextSendingTo(AfterExitRequest)
    /\ requestExitSendingLow' = FALSE

\* The timer, or the callback for new data: petSendToHiggs up to the point
\* where it sends.
PetSendToHiggs ==
    /\ flush_pc = "timer"
    /\ UpdateSendingFlag
    /\ flush_pc' = IF sending_to' = "NORMAL" THEN "pet"
                   ELSE IF sending_to' = "LOW" /\ allow_zmq_higgs THEN "low"
                   ELSE "timer"
    /\ UNCHANGED <<normal, low, allow_zmq_higgs, valid_8k, should_pause_p,
                   should_use_new_level, last_fill_level, wire>>

-----------------------------------------------------------------------------
(* Sending the low-priority buffer: all of it, in one burst.               *)

\* evbufToSocketBurst refuses a buffer above 8k words outside of 8k mode.
SplitCheckRefuses(buf) == Len(buf) > EightK /\ ~valid_8k

InspectLowPri ==
    \/ /\ Head(low) = "broken"
       /\ low' = <<>>
       /\ UNCHANGED wire
    \/ /\ Head(low) = "sound" /\ ~SplitCheckRefuses(low)
       /\ low' = <<>>
       /\ wire' = [kind |-> "low", left |-> 0]
    \/ /\ Head(low) = "sound" /\ SplitCheckRefuses(low)
       /\ UNCHANGED <<low, wire>>

\* sendZmqHiggsNow looks again at who owns the port: allow_zmq_higgs or the
\* buffers may have changed since petSendToHiggs looked.
SendZmqHiggsNow ==
    /\ flush_pc = "low"
    /\ UpdateSendingFlag
    /\ IF sending_to' = "LOW" /\ low # <<>>
       THEN InspectLowPri ELSE UNCHANGED <<low, wire>>
    /\ flush_pc' = "timer"
    /\ UNCHANGED <<normal, allow_zmq_higgs, valid_8k, should_pause_p,
                   should_use_new_level, last_fill_level>>

-----------------------------------------------------------------------------
(* Sending the normal buffer: up to 80001 calls of petSendToHiggs2.        *)

Valid8kNow ==
    IF valid_8k THEN normal # <<>> ELSE Len(normal) >= EightK

ShouldPause ==
    IF should_pause_p /\ should_use_new_level
    THEN last_fill_level > FiveK ELSE last_fill_level > ThreeK

\* One call of petSendToHiggs2.  The budget (a function of the clock, of the
\* drain rate and, in 8k mode, of how early the radio said it was fed) allows
\* it to send or not; the 80001 calls may end after any of them.
PetSendToHiggs2(sends) ==
    /\ flush_pc = "pet"
    /\ valid_8k' = Valid8kNow
    /\ should_pause_p' = ShouldPause
    /\ should_use_new_level' =
           IF last_fill_level > FiveK THEN TRUE
           ELSE IF last_fill_level < ThreeK THEN FALSE ELSE should_use_new_level
    /\ IF sends
       THEN /\ normal # <<>>
            /\ valid_8k' \/ ~ShouldPause
            /\ wire' = Head(normal)
            /\ normal' = Tail(normal)
       ELSE UNCHANGED <<normal, wire>>
    /\ flush_pc' \in {"pet", "timer"}
    /\ UNCHANGED <<low, sending_to, allow_zmq_higgs, requestExitSendingLow,
                   last_fill_level>>

FlushNext ==
    \/ PetSendToHiggs
    \/ SendZmqHiggsNow
    \/ \E sends \in BOOLEAN : PetSendToHiggs2(sends)

-----------------------------------------------------------------------------
(* What the other threads call.                                            *)

SendToHiggs(units) == normal' = normal \o units

SendToHiggsLowPriority(frame) == low' = Append(low, frame)

ExitSendingLowMode == requestExitSendingLow' = TRUE

DumpLow == low' = <<>>

NormalLenIsZero == normal = <<>>
LowLenIsZero == low = <<>>

\* The ringbus thread stores a fill report of the radio.
ConsumeRingbusFill(level) == last_fill_level' = level

FlushTypeOK ==
    /\ normal \in Seq(Unit)
    /\ low \in Seq(LowFrames)
    /\ sending_to \in {"IDLE", "NORMAL", "LOW"}
    /\ flush_pc \in {"timer", "low", "pet"}
    /\ last_fill_level \in FillLevels
    /\ wire \in Unit
    /\ {allow_zmq_higgs, requestExitSendingLow, valid_8k, should_pause_p,
        should_use_new_level} \subseteq BOOLEAN
=============================================================================
