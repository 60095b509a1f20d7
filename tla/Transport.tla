------------------------------ MODULE Transport ------------------------------
(***************************************************************************)
(* Cutting a byte stream into ADUs (the module shared of                   *)
(* src/transport/mod.rs, used by FrameTransport, its halves and            *)
(* AduReader).  One receive at a time reads chunks into a buffer until the *)
(* framing's boundary rule finds an ADU, keeps the surplus, and latches if *)
(* it is abandoned.                                                        *)
(*                                                                         *)
(* The code is suspended only inside stream.read, so everything between    *)
(* two reads is one step.  A byte is known by the frame and the place in   *)
(* it that it was sent as; what it says is what the boundary rules read.   *)
(***************************************************************************)
EXTENDS Naturals, Sequences, FiniteSetsExt

CONSTANTS
  Boundaries,  \* AduBoundary: "Prefixed", "Delimited", "Silence", "ContentLength"
  MaxAduLen,   \* Framing::MAX_ADU_LEN
  ReadChunk,   \* READ_CHUNK
  Known,       \* bytes of an ADU from which its length can be told
  NumFrames,   \* bound: frames the peer sends
  Frames,      \* for each boundary rule, what they may be: a length, and if it is well formed
  NoiseBytes,  \* for each, what may be heard between two frames: "data", "cr"
  MaxNoise,    \* bound: bytes of noise
  MaxReceives  \* bound: receives

ASSUME TransportAssumption ==
  /\ Boundaries \subseteq {"Prefixed", "Delimited", "Silence", "ContentLength"}
  /\ MaxAduLen \in Nat \ {0} /\ ReadChunk \in Nat \ {0} /\ Known \in 1..MaxAduLen
  /\ \A b \in Boundaries : \A f \in Frames[b] :
       /\ f.len \in Nat /\ f.len >= Known /\ f.good \in BOOLEAN
       /\ b = "Delimited" => f.len >= 3  \* a start character and the terminator at least
  /\ NoiseBytes \in [Boundaries -> SUBSET {"data", "cr"}]
  /\ \A b \in Boundaries \ {"Delimited", "Silence"} : NoiseBytes[b] = {}  \* TCP carries no noise
  /\ NumFrames \in Nat /\ MaxNoise \in Nat /\ MaxReceives \in Nat

VARIABLES
  boundary,  \* Framing::boundary of the framing in use, chosen once
  frames,    \* the frames the peer sends, chosen once
  place,     \* the next byte it sends
  noise,     \* history: bytes of noise
  closed,    \* it has closed the stream
  pipe,      \* bytes sent and not read
  buffer,    \* the transport's buffer
  receiving, \* its latch
  phase,     \* "idle", or "waiting" in a read
  searched,  \* read_delimited's local of that name
  delivered, \* history: the ADUs returned
  outcome,   \* what the last receive returned
  receives,  \* history: receives begun
  failures   \* history: receives that failed

peerVars == <<boundary, frames, place, noise, closed>>
vars == <<peerVars, pipe, buffer, receiving, phase, searched, delivered, outcome, receives,
          failures>>

SelfLocating == boundary \in {"Delimited", "Silence"}

Byte(k, i) == [frame |-> k, at |-> i, says |-> "sent"]
Noise(v) == [frame |-> 0, at |-> 0, says |-> v]
Whole(k) == [i \in 1..frames[k].len |-> Byte(k, i)]
LastOf(s) == s[Len(s)]

\* What a byte says to the delimiter search.
Says(b) ==
  CASE b.frame = 0 -> b.says
    [] b.frame # 0 /\ b.at = 1 -> "start"
    [] b.frame # 0 /\ b.at = frames[b.frame].len - 1 -> "cr"
    [] b.frame # 0 /\ b.at = frames[b.frame].len -> "lf"
    [] OTHER -> "data"

-----------------------------------------------------------------------------
(* The boundary rules: what becomes of a buffer at the end of a read.       *)

More(b, s) == [is |-> "more", buffer |-> b, searched |-> s, adu |-> <<>>, why |-> "none"]
Fails(b, why) == [is |-> "fail", buffer |-> b, searched |-> 0, adu |-> <<>>, why |-> why]

\* Mutant of Take: the surplus goes with the ADU.
TakeAll(b, n) ==
  [is |-> "adu", buffer |-> <<>>, searched |-> 0, adu |-> SubSeq(b, 1, n), why |-> "none"]

\* take: the first n bytes leave the buffer, the surplus stays.
Take(b, n) ==
  [is |-> "adu", buffer |-> SubSeq(b, n + 1, Len(b)), searched |-> 0,
   adu |-> SubSeq(b, 1, n), why |-> "none"]

\* check_buffer_bound.
WithinBound(b) == Len(b) < MaxAduLen

\* Mutant of Length: what an ADU claims is believed.
LengthUnchecked(b) == frames[b[1].frame].len

\* The length the first Known bytes announce, validated: 0 if it is not to be told.
Length(b) ==
  LET f == frames[b[1].frame] IN IF f.good /\ f.len <= MaxAduLen THEN f.len ELSE 0

\* read_prefixed, and read_content_length, which tests the bound as well.
ByLength(b) ==
  IF Len(b) < Known THEN More(b, 0)
  ELSE IF b[1].at # 1 \/ Length(b) = 0 THEN Fails(b, "length")
  ELSE IF Len(b) >= Length(b) THEN Take(b, Length(b))
  ELSE IF boundary = "ContentLength" /\ ~WithinBound(b) THEN Fails(b, "too_large")
  ELSE More(b, 0)

\* find: where the terminator begins, at or after the index from (counted from 0).
Find(b, from) ==
  {i \in (from + 1)..(Len(b) - 1) : Says(b[i]) = "cr" /\ Says(b[i + 1]) = "lf"}

\* Mutant of Searched: everything in the buffer counts as searched.
SearchedWhole(b) == Len(b)

\* All but a possible partial terminator has been searched.
Searched(b) == Len(b) - 1

\* read_delimited.
ByDelimiter(b, s) ==
  LET starts == {i \in DOMAIN b : Says(b[i]) = "start"} IN
  IF starts = {} THEN More(<<>>, 0)
  ELSE LET begun == SubSeq(b, Min(starts), Len(b))
           ends == Find(begun, IF Min(starts) > 1 THEN 0 ELSE s)
       IN  IF ends # {} THEN Take(begun, Min(ends) + 1)
           ELSE IF ~WithinBound(begun) THEN Fails(begun, "too_large")
           ELSE More(begun, Searched(begun))

\* read_until_silence, before it waits.
BySilence(b) ==
  IF b # <<>> /\ ~WithinBound(b) THEN Fails(b, "too_large") ELSE More(b, 0)

ReadAdu(b, s) ==
  CASE boundary \in {"Prefixed", "ContentLength"} -> ByLength(b)
    [] boundary = "Delimited" -> ByDelimiter(b, s)
    [] boundary = "Silence" -> BySilence(b)

-----------------------------------------------------------------------------
Init ==
  /\ boundary \in Boundaries
  /\ frames \in [1..NumFrames -> Frames[boundary]]
  /\ place = [frame |-> 1, at |-> 1]
  /\ noise = 0 /\ closed = FALSE
  /\ pipe = <<>> /\ buffer = <<>>
  /\ receiving = FALSE
  /\ phase = "idle"
  /\ searched = 0
  /\ delivered = <<>>
  /\ outcome = "none"
  /\ receives = 0 /\ failures = 0

\* The peer sends its next byte.
PeerSends ==
  /\ ~closed /\ place.frame <= NumFrames
  /\ pipe' = Append(pipe, Byte(place.frame, place.at))
  /\ place' = IF place.at < frames[place.frame].len
              THEN [place EXCEPT !.at = @ + 1]
              ELSE [frame |-> place.frame + 1, at |-> 1]
  /\ UNCHANGED <<boundary, frames, noise, closed, buffer, receiving, phase, searched, delivered,
                 outcome, receives, failures>>

\* The line picks up a byte between two frames.
LineNoise ==
  /\ ~closed /\ place.at = 1 /\ noise < MaxNoise
  /\ noise' = noise + 1
  /\ \E v \in NoiseBytes[boundary] : pipe' = Append(pipe, Noise(v))
  /\ UNCHANGED <<boundary, frames, place, closed, buffer, receiving, phase, searched, delivered,
                 outcome, receives, failures>>

PeerCloses ==
  /\ ~closed
  /\ closed' = TRUE
  /\ UNCHANGED <<boundary, frames, place, noise, pipe, buffer, receiving, phase, searched, delivered,
                 outcome, receives, failures>>

\* Mutant of Settle: the bytes of a failed attempt are always kept.
SettleKeeping(r) ==
  /\ searched' = r.searched
  /\ phase' = IF r.is = "more" THEN "waiting" ELSE "idle"
  /\ receiving' = (r.is = "more")
  /\ buffer' = r.buffer
  /\ delivered' = IF r.is = "adu" THEN Append(delivered, r.adu) ELSE delivered
  /\ outcome' = IF r.is = "more" THEN outcome ELSE IF r.is = "adu" THEN "adu" ELSE r.why
  /\ failures' = IF r.is = "fail" THEN failures + 1 ELSE failures

\* The end of a step of a receive with the result r: it waits for more, or it is
\* over, the latch is released, and on a self-locating framing a failure discards
\* what was gathered.
Settle(r) ==
  /\ searched' = r.searched
  /\ phase' = IF r.is = "more" THEN "waiting" ELSE "idle"
  /\ receiving' = (r.is = "more")
  /\ buffer' = IF r.is = "fail" /\ SelfLocating THEN <<>> ELSE r.buffer
  /\ delivered' = IF r.is = "adu" THEN Append(delivered, r.adu) ELSE delivered
  /\ outcome' = IF r.is = "more" THEN outcome ELSE IF r.is = "adu" THEN "adu" ELSE r.why
  /\ failures' = IF r.is = "fail" THEN failures + 1 ELSE failures

\* recv_adu is called: it fails if an earlier receive was abandoned, else it
\* works on what the buffer holds.
Begin ==
  /\ phase = "idle" /\ receives < MaxReceives
  /\ receives' = receives + 1
  /\ \/ /\ receiving
        /\ outcome' = "latched"
        /\ failures' = failures + 1
        /\ UNCHANGED <<buffer, receiving, phase, searched, delivered>>
     \/ ~receiving /\ Settle(ReadAdu(buffer, 0))
  /\ UNCHANGED <<peerVars, pipe>>

\* read_more: a read returns some of what is there.
Read ==
  /\ phase = "waiting" /\ pipe # <<>>
  /\ \E n \in 1..Min({ReadChunk, Len(pipe)}) :
       /\ pipe' = SubSeq(pipe, n + 1, Len(pipe))
       /\ Settle(ReadAdu(buffer \o SubSeq(pipe, 1, n), searched))
  /\ UNCHANGED <<peerVars, receives>>

\* A read of nothing, with b in the buffer: between two ADUs the stream ended; part-way
\* through one it was severed, which silence cannot tell from the end of a frame.
Close(b) ==
  IF b = <<>> THEN Fails(b, "eof")
  ELSE IF boundary = "Silence" THEN Take(b, Len(b)) ELSE Fails(b, "severed")

ReadClosed ==
  /\ phase = "waiting" /\ pipe = <<>> /\ closed
  /\ Settle(Close(buffer))
  /\ UNCHANGED <<peerVars, pipe, receives>>

\* The read fails otherwise.
ReadFails ==
  /\ phase = "waiting"
  /\ Settle(Fails(buffer, "io"))
  /\ UNCHANGED <<peerVars, pipe, receives>>

\* Mutant of Silence: the timer is looked at before the read.
SilenceFirst ==
  /\ boundary = "Silence" /\ phase = "waiting" /\ buffer # <<>>
  /\ ~closed /\ place.at = 1
  /\ Settle(Take(buffer, Len(buffer)))
  /\ UNCHANGED <<peerVars, pipe, receives>>

\* The line is silent for the inter-frame interval while the receive waits, which
\* happens only between two frames.
Silence ==
  /\ boundary = "Silence" /\ phase = "waiting" /\ buffer # <<>>
  /\ pipe = <<>> /\ ~closed /\ place.at = 1
  /\ Settle(Take(buffer, Len(buffer)))
  /\ UNCHANGED <<peerVars, pipe, receives>>

\* The peer pauses inside an ASCII ADU for the inter-character timeout.
Stall ==
  /\ boundary = "Delimited" /\ phase = "waiting" /\ buffer # <<>>
  /\ pipe = <<>> /\ ~closed
  /\ Settle(Fails(buffer, "stalled"))
  /\ UNCHANGED <<peerVars, pipe, receives>>

\* The caller drops the receive: the latch stays set.
Abandon ==
  /\ phase = "waiting"
  /\ phase' = "idle"
  /\ outcome' = "abandoned"
  /\ UNCHANGED <<peerVars, pipe, buffer, receiving, searched, delivered, receives, failures>>

Next ==
  \/ PeerSends \/ LineNoise \/ PeerCloses
  \/ Begin \/ Read \/ ReadClosed \/ ReadFails \/ Silence \/ Stall \/ Abandon

Spec == Init /\ [][Next]_vars

-----------------------------------------------------------------------------
(* Properties.                                                              *)

Bytes == [frame : 0..NumFrames, at : Nat, says : {"sent", "data", "cr"}]

\* The reader's state is well typed, and its latch is set whenever a receive waits in
\* a read (TR-R-090).
TypeOK ==
  /\ boundary \in Boundaries /\ frames \in [1..NumFrames -> Frames[boundary]]
  /\ place \in [frame : 1..(NumFrames + 1), at : Nat \ {0}]
  /\ noise \in 0..MaxNoise /\ closed \in BOOLEAN
  /\ pipe \in Seq(Bytes) /\ buffer \in Seq(Bytes)
  /\ receiving \in BOOLEAN
  /\ phase \in {"idle", "waiting"}
  /\ searched \in Nat
  /\ delivered \in Seq(Seq(Bytes))
  /\ outcome \in {"none", "adu", "length", "too_large", "eof", "severed", "io", "stalled",
                  "latched", "abandoned"}
  /\ receives \in 0..MaxReceives /\ failures \in 0..MaxReceives
  /\ phase = "waiting" => receiving

\* TR-R-004, TR-R-082: however reads divide the stream, each ADU returned is one frame
\* as it was sent, in the order they were sent, none twice; and none is skipped unless a
\* receive has failed.  Silence promises less, TR-R-011: a frame is never cut in two by a timer
\* that runs out while bytes are waiting to be read: the read is polled before the timer.
ExactFrames ==
  /\ boundary # "Silence" => \A j \in DOMAIN delivered :
       /\ delivered[j] # <<>> /\ delivered[j][1].frame # 0
       /\ delivered[j] = Whole(delivered[j][1].frame)
       /\ j > 1 => delivered[j][1].frame > delivered[j - 1][1].frame
       /\ failures = 0 => delivered[j][1].frame = j
  /\ boundary = "Silence" /\ failures = 0 /\ ~closed => \A j \in DOMAIN delivered :
       LET b == LastOf(delivered[j]) IN b.frame # 0 => b.at = frames[b.frame].len

\* TR-R-083, TR-R-046: where the length comes from the frame, the buffer begins at the
\* first byte of a frame, whatever has failed before; TR-R-044: on a self-locating framing
\* no byte of a failed attempt is left for the next receive.
Aligned ==
  /\ ~SelfLocating /\ buffer # <<>> => buffer[1].at = 1
  /\ SelfLocating /\ phase = "idle" /\ outcome \notin {"adu", "none", "latched", "abandoned"}
       => buffer = <<>>

\* TR-R-013: what is buffered stays below one ADU and one read, however long a peer
\* goes on without ending a frame.
BufferBounded == Len(buffer) < MaxAduLen + ReadChunk

\* x was sent before y.
Sooner(x, y) == x.frame < y.frame \/ (x.frame = y.frame /\ x.at < y.at)

\* Everything that came in and was not thrown away: what was returned, ADU by ADU, and what
\* is still buffered or unread.
Carried == Append(delivered, buffer \o pipe)

\* TR-R-082: whatever is dropped, abandoned or heard between the frames, the bytes of the
\* peer's frames are returned and kept in the order they were sent, none of them twice and
\* none that was not sent; and until a receive fails, every one of them is there.
NothingLost ==
  /\ \A a, c \in DOMAIN Carried : \A i \in DOMAIN Carried[a], j \in DOMAIN Carried[c] :
       LET x == Carried[a][i]
           y == Carried[c][j]
       IN  /\ x.frame # 0 => x.at \in 1..frames[x.frame].len /\ Sooner(x, place)
           /\ x.frame # 0 /\ y.frame # 0 /\ (a < c \/ (a = c /\ i < j)) => Sooner(x, y)
  /\ failures = 0 => \A k \in DOMAIN frames : \A n \in 1..frames[k].len :
       Sooner(Byte(k, n), place) => \E a \in DOMAIN Carried : Byte(k, n) \in Range(Carried[a])

\* TR-R-012, TR-R-045: a receive does not read on while its buffer holds a whole frame,
\* a terminator that came in two reads included.
NothingWithheld ==
  boundary # "Silence" /\ phase = "waiting" =>
    \A k \in DOMAIN frames : ~({Byte(k, 1), Byte(k, frames[k].len)} \subseteq Range(buffer))

-----------------------------------------------------------------------------
(* Statements of the repository's own documents that the code does not      *)
(* keep; README.md says how each one fails.                                 *)

\* FR-R-091: "An RTU ADU is at most 256 bytes", so one of exactly that length is legal.
LegalLengthAccepted ==
  outcome = "too_large" => \E k \in DOMAIN frames : frames[k].len > MaxAduLen

\* TR-E-008: "the read buffer never grows past that bound".
BufferWithinOneAdu == Len(buffer) <= MaxAduLen

\* TR-E-001: "Two ADUs arrive in one read": "Both are delivered, one per recv call".
OneAduPerReceive ==
  \A j \in DOMAIN delivered : \A x, y \in Range(delivered[j]) : x.frame = y.frame

\* TR-R-088: "A stream that ends part-way through an ADU reports a connection-closed
\* error", so no part of a frame is returned as an ADU.
SeveredIsReported ==
  \A j \in DOMAIN delivered : \A k \in DOMAIN frames :
    LET b == LastOf(delivered[j]) IN b.frame = k => b.at = frames[k].len

=============================================================================
