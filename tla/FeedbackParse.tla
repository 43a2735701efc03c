--------------------------- MODULE FeedbackParse ---------------------------
(***************************************************************************)
(* The feedback bus parser (HiggsSoapyFeedbackBus.cpp).  The drain thread  *)
(* of the reorder buffer writes the payload of each UDP packet into one    *)
(* end of a bufferevent pair; libevent calls the EventDsp thread back, some*)
(* time after a write that leaves at least LOWATER words, and one call may *)
(* stand for several writes.  parseFeedbackBuffer looks at no more than    *)
(* LINEAR_SIZE words, hands out the frames that are whole and drains what  *)
(* it went over.  The pair's lock is held during the callback, so a        *)
(* callback is one step.                                                   *)
(*                                                                         *)
(* The bus has no checksum and no frame marker: a frame is a type word, a  *)
(* length word and a body of anything; between frames there are zeros.     *)
(* When the reorder buffer gives a packet up the parser may be anywhere in *)
(* a frame, and body words are read as headers.  Each word carries what    *)
(* the parser cannot see and the properties need: its offset in its frame  *)
(* (0 for a zero between frames) and whether a parser that was lost must   *)
(* have found its step again by now.                                       *)
(***************************************************************************)
EXTENDS Integers, Sequences

CONSTANTS
    HEADER,       \* FEEDBACK_HEADER_WORDS, 16
    MAX_LENGTH,   \* FEEDBACK_MAX_LENGTH, 1040: the longest frame the FPGA sends
    LINEAR_SIZE,  \* the words one callback looks at, 2048
    LOWATER,      \* the read low-water mark of the pair, 1040 words
    PACKET,       \* the words of one UDP packet
    FrameLength,  \* the lengths of the frames that are sent
    BodyWord,     \* what the words of a body may be
    MaxBacklog,   \* a bound on the words that wait for a callback that is due
    MaxLost       \* a bound on the packets that are given up

STREAM == 1       \* stands for the two types that carry a length

ASSUME FeedbackAssumption ==
    /\ {HEADER, MAX_LENGTH, LINEAR_SIZE, LOWATER, PACKET} \subseteq Nat \ {0}
    /\ 2 <= HEADER /\ HEADER <= MAX_LENGTH
    /\ FrameLength \subseteq HEADER .. MAX_LENGTH
    /\ MAX_LENGTH + PACKET <= LINEAR_SIZE
    /\ 2 * PACKET <= LINEAR_SIZE
    /\ 3 < LINEAR_SIZE
    /\ LOWATER <= LINEAR_SIZE
    /\ MaxBacklog \in Nat /\ LINEAR_SIZE <= MaxBacklog
    /\ BodyWord \subseteq Nat
    /\ MaxLost \in Nat

VARIABLES
    buf,      \* the input buffer of the pair: words the parser has not drained
    due,      \* a deferred read callback is scheduled
    parsed,   \* the frames the last step handed to handleParsedFrame
    wire,     \* the last word on the wire, which the next one must continue
    zeros,    \* zeros between frames that arrived in a row since the last loss
    lost      \* packets given up so far

vars == <<buf, due, parsed, wire, zeros, lost>>

-----------------------------------------------------------------------------
(* The stream of the FPGA.                                                 *)

Fill == [v |-> 0, off |-> 0, len |-> 0]

FrameWord(l, o, b) ==
    [v |-> IF o = 1 THEN STREAM ELSE IF o = 2 THEN l ELSE b, off |-> o, len |-> l]

Words ==
    {Fill} \cup UNION {{FrameWord(l, o, b) : o \in 1 .. l, b \in BodyWord} : l \in FrameLength}

Follows(w, x) ==
    IF x.off < x.len THEN w.len = x.len /\ w.off = x.off + 1 ELSE w.off \in {0, 1}

(* The payloads that may come after the word x.                            *)
Payloads ==
    [x \in Words |->
        {p \in [1 .. PACKET -> Words] :
            \A k \in 1 .. PACKET : Follows(p[k], IF k = 1 THEN x ELSE p[k - 1])}]

(* A header read before a run of zeros has its type and its length there,  *)
(* and claims at most LINEAR_SIZE - 1 words if it is ever accepted: after  *)
(* this many zeros in a row the parser is in step.                         *)
Recovers == LINEAR_SIZE - 3

(* The zeros in a row after one more word w; once there were enough the    *)
(* count stays until a packet is lost.                                     *)
RunOn(z, w) == IF z = Recovers THEN Recovers ELSE IF w.off = 0 THEN z + 1 ELSE 0

(* The zeros in a row after the first k words of a payload.                *)
Run(p) ==
    LET run[k \in 0 .. PACKET] == IF k = 0 THEN zeros ELSE RunOn(run[k - 1], p[k])
    IN run

Tag(w, z) == [v |-> w.v, off |-> w.off, len |-> w.len, sure |-> z = Recovers]

Tagged(p) == LET run == Run(p) IN [k \in 1 .. PACKET |-> Tag(p[k], run[k - 1])]

-----------------------------------------------------------------------------
(* parseFeedbackBuffer.  Indices are the code's, from 0.                   *)

(* Mutant of IsError: only an empty frame is too short.                    *)
ShortIsFine(win, i) == ~(win[i + 1].v = STREAM /\ win[i + 2].v >= 1)

(* feedback_word_length: an unknown type or a length below the header's is *)
(* an error; there is no upper bound on the length.  Left out: the ringbus  *)
(* type (3), which is no error and makes the frame HEADER words long when    *)
(* its length is from 4 to HEADER.                                          *)
IsError(win, i) == ~(win[i + 1].v = STREAM /\ win[i + 2].v >= HEADER)

(* Mutant of Beyond: an error ends the loop instead of costing one word.   *)
BreaksOnError(win, i) ==
    /\ win[i + 1].v # 0
    /\ \/ (i + 1) + HEADER > Len(win)
       \/ IsError(win, i)
       \/ (i + 1) + win[i + 2].v > Len(win)

(* The frame is handed out when it is in the window with one word more.    *)
Beyond(win, i) ==
    /\ win[i + 1].v # 0
    /\ \/ (i + 1) + HEADER > Len(win)
       \/ ~IsError(win, i) /\ (i + 1) + win[i + 2].v > Len(win)

(* Mutant of Advance: off by one at the end of a frame.                    *)
OneShort(win, i) == IF win[i + 1].v = 0 \/ IsError(win, i) THEN 1 ELSE win[i + 2].v - 1

Advance(win, i) == IF win[i + 1].v = 0 \/ IsError(win, i) THEN 1 ELSE win[i + 2].v

(* One turn of the loop, by its index; the loop stays where it ends.       *)
After(win) ==
    [i \in 0 .. Len(win) |->
        IF i = Len(win) \/ Beyond(win, i) THEN i ELSE i + Advance(win, i)]

(* The loop's index after k turns, from 0.                                 *)
Index(win) ==
    LET turn == After(win)
        at[k \in 0 .. Len(win)] == IF k = 0 THEN 0 ELSE turn[at[k - 1]]
    IN at

(* The loop has a frame at i and goes past it.                             *)
Accepts(win, i) ==
    i < Len(win) /\ ~Beyond(win, i) /\ win[i + 1].v # 0 /\ ~IsError(win, i)

(* Mutant of Parse: one frame for each callback.                           *)
LastFrameOnly(win) ==
    LET at == Index(win)
        found == {i \in {at[k] : k \in 0 .. Len(win)} : Accepts(win, i)}
    IN [consumed |-> at[Len(win)], frames |-> {i \in found : \A j \in found : j <= i}]

(* Where the loop ends, and the frames it meets.                           *)
Parse(win) ==
    LET at == Index(win)
    IN [consumed |-> at[Len(win)],
        frames |-> {i \in {at[k] : k \in 0 .. Len(win)} : Accepts(win, i)}]

Window == SubSeq(buf, 1, IF Len(buf) < LINEAR_SIZE THEN Len(buf) ELSE LINEAR_SIZE)

(* With a full window before it the loop breaks at its first word; the     *)
(* window will be the same at every later callback.                        *)
Stuck == Len(buf) >= LINEAR_SIZE /\ Parse(Window).consumed = 0

Init ==
    /\ buf = <<>>
    /\ due = FALSE
    /\ parsed = {}
    /\ lost = 0
    /\ \/ wire = Fill /\ zeros = Recovers      \* the FPGA starts later
       \/ wire \in Words /\ zeros = 0          \* the FPGA has been sending

(* rxAsyncGotPacket writes a payload.  What lies behind a window that is   *)
(* never passed is not looked at again and is left out.                    *)
Deliver ==
    \E p \in Payloads[wire] :
        /\ due => Len(buf) + PACKET <= MaxBacklog
        /\ buf' = IF Stuck THEN buf ELSE buf \o Tagged(p)
        /\ due' = (due \/ Len(buf') >= LOWATER)
        /\ wire' = p[PACKET]
        /\ zeros' = Run(p)[PACKET]
        /\ parsed' = {}
        /\ UNCHANGED lost

(* The reorder buffer gave the packet up.                                  *)
Lose ==
    /\ lost < MaxLost
    /\ lost' = lost + 1
    /\ wire' \in {p[PACKET] : p \in Payloads[wire]}
    /\ zeros' = 0
    /\ parsed' = {}
    /\ UNCHANGED <<buf, due>>

(* _handle_udp_callback.                                                   *)
Callback ==
    /\ due
    /\ due' = FALSE
    /\ LET r == Parse(Window)
       IN /\ parsed' = {SubSeq(buf, i + 1, i + buf[i + 2].v) : i \in r.frames}
          /\ buf' = SubSeq(buf, r.consumed + 1, Len(buf))
    /\ UNCHANGED <<wire, zeros, lost>>

Next == Deliver \/ Lose \/ Callback

Spec == Init /\ [][Next]_vars /\ WF_vars(Deliver) /\ WF_vars(Callback)

-----------------------------------------------------------------------------
TaggedWord == [v : Nat, off : 0 .. MAX_LENGTH, len : 0 .. MAX_LENGTH, sure : BOOLEAN]

(* Every variable keeps its type; what handleParsedFrame is given has a    *)
(* header, as its length_words - FEEDBACK_HEADER_WORDS needs, and is in    *)
(* the window.  A backlog does not grow as long as each packet leads to a  *)
(* callback, although a callback looks at one window and may leave a       *)
(* frame: only Deliver while one is due is bounded by MaxBacklog.          *)
TypeOK ==
    /\ buf \in Seq(TaggedWord)
    /\ Len(buf) <= MaxBacklog + 2 * PACKET
    /\ due \in BOOLEAN
    /\ wire \in Words
    /\ zeros \in 0 .. Recovers
    /\ lost \in 0 .. MaxLost
    /\ parsed \subseteq {s \in Seq(TaggedWord) : Len(s) \in HEADER .. LINEAR_SIZE - 1}

(* A header at the head of the buffer that claims more than a window holds *)
(* less one word.                                                          *)
Wedged ==
    /\ Len(buf) >= 2
    /\ buf[1].v = STREAM
    /\ buf[2].v >= LINEAR_SIZE

(* parseFeedbackBuffer drains whole frames only: from a run of zeros on,   *)
(* however the words were cut into packets and the packets into callbacks, *)
(* the head of the buffer is a frame's first word or lies between frames,  *)
(* and a header the parser cannot pass is not one of that part of the      *)
(* stream: it takes a loss, or a start in the middle of a frame.           *)
InStep ==
    /\ buf # <<>> /\ buf[1].sure => buf[1].off \in {0, 1}
    /\ Wedged => ~buf[2].sure

(* What a callback hands to handleParsedFrame: of the words it drains, a   *)
(* frame from each place where one begins and is all there, and, from a    *)
(* run of zeros on, from no other place.                                   *)
Drained == Len(buf) - Len(buf')
IsFrame(s) == \A k \in 1 .. Len(s) : s[k].off = k /\ s[k].len = Len(s) /\ s[k].sure
FramesFound ==
    [][ /\ \A s \in parsed' : s[1].sure => s[1].off = 1
        /\ \A i \in 1 .. Drained, l \in FrameLength :
              i + l - 1 <= Len(buf) /\ IsFrame(SubSeq(buf, i, i + l - 1))
                 => SubSeq(buf, i, i + l - 1) \in parsed']_vars

(* The parser stops for good only at a header that claims more than a      *)
(* window: otherwise, as long as packets come, words are drained.          *)
NeverStops == []<><<Drained > 0>>_buf \/ <>[]Wedged

=============================================================================
