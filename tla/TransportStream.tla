--------------------------- MODULE TransportStream ---------------------------
(***************************************************************************)
(* The byte stream between a peer that sends frames and a reader that cuts *)
(* it into ADUs: the inductive invariant of Transport, what the peer's     *)
(* steps do to the stream, and what the end of a step of a receive does,   *)
(* once what was cut is known.  TransportProofs says what is cut.          *)
(***************************************************************************)
EXTENDS Transport, TLAPS

\* A leaf that names no prover is for Zenon, or else for the SMT solver.
USE ZenonT(5), SMTT(30)

-----------------------------------------------------------------------------
(* The inductive invariant.                                                 *)

\* What was sent and is not yet cut.
Stream == buffer \o pipe

Data(x) == x.frame # 0
Ends(x) == x.at = frames[x.frame].len
Starts(x) == Data(x) /\ x.at = 1

\* The bytes of w are bytes of the peer's frames, or noise.
Genuine(w) ==
  \A i \in 1..Len(w) :
    IF Data(w[i]) THEN w[i].at \in 1..frames[w[i].frame].len /\ w[i].says = "sent"
    ELSE w[i].at = 0 /\ w[i].says # "sent"

\* The bytes of a frame come one after the other, nothing between them.
Contiguous(w) ==
  \A i, j \in 1..Len(w) :
    i <= j /\ Data(w[i]) /\ w[i].at + (j - i) <= frames[w[i].frame].len =>
      w[j] = Byte(w[i].frame, w[i].at + (j - i))

\* A frame comes after the frames before it, and another one, or noise, after its last byte.
Ascending(w) ==
  /\ \A i, j \in 1..Len(w) : i < j /\ Data(w[i]) /\ Data(w[j]) => Sooner(w[i], w[j])
  /\ \A i \in 1..(Len(w) - 1) : Data(w[i]) /\ Ends(w[i]) /\ Data(w[i + 1]) => w[i + 1].at = 1

\* The byte the peer sends next comes after those of w.
Upcoming(w) ==
  /\ \A i \in 1..Len(w) : Data(w[i]) => Sooner(w[i], place)
  /\ w # <<>> =>
       IF Data(w[Len(w)]) /\ ~Ends(w[Len(w)])
       THEN place.frame = w[Len(w)].frame /\ place.at = w[Len(w)].at + 1
       ELSE place.at = 1

InOrder(w) == Genuine(w) /\ Contiguous(w) /\ Ascending(w) /\ Upcoming(w)

\* Where the length comes from the frame, what is not yet cut begins with a frame.
FromStart(w) ==
  ~SelfLocating =>
    /\ \A i \in 1..Len(w) : Data(w[i])
    /\ IF w = <<>> THEN place.at = 1 ELSE w[1].at = 1

\* Everything not yet cut is later than what was returned last; until a receive fails, the frames
\* that follow it are all there.
Ahead(w) ==
  boundary # "Silence" =>
    /\ delivered # <<>> =>
         LET k == LastOf(delivered)[1].frame IN
         k < place.frame /\ \A i \in 1..Len(w) : Data(w[i]) => k < w[i].frame
    /\ failures = 0 =>
         /\ Len(delivered) < place.frame
         /\ \A k \in (Len(delivered) + 1)..place.frame :
              (k < place.frame \/ place.at > 1) => \E j \in 1..Len(w) : w[j] = Byte(k, 1)

\* What a waiting receive holds: less than the bound, less than a frame, searched to the last byte.
Partial(b, s) ==
  /\ Len(b) < MaxAduLen
  /\ boundary # "Silence" /\ b # <<>> => Starts(b[1]) /\ Len(b) < frames[b[1].frame].len
  /\ s \in Nat /\ s <= IF b = <<>> THEN 0 ELSE Len(b) - 1

PlaceKept ==
  IF place.frame <= NumFrames THEN place.at <= frames[place.frame].len ELSE place.at = 1

Waiting ==
  /\ phase = "waiting" => Partial(buffer, searched)
  /\ failures <= receives /\ (phase = "waiting" => failures < receives)

IInv ==
  /\ TypeOK /\ PlaceKept /\ Waiting /\ BufferBounded
  /\ InOrder(Stream) /\ FromStart(Stream) /\ Ahead(Stream)
  /\ ExactFrames /\ Aligned

-----------------------------------------------------------------------------
(* Sequences.                                                               *)

LEMMA LenNat ==
  ASSUME NEW S, NEW w \in Seq(S)
  PROVE  Len(w) \in Nat
  OBVIOUS

\* What is left of a sequence without its first d elements.
LEMMA DropFacts ==
  ASSUME NEW S, NEW w \in Seq(S), NEW d \in 0..Len(w)
  PROVE  /\ SubSeq(w, d + 1, Len(w)) \in Seq(S)
         /\ Len(SubSeq(w, d + 1, Len(w))) = Len(w) - d
         /\ \A i \in 1..(Len(w) - d) : SubSeq(w, d + 1, Len(w))[i] = w[i + d]
  OBVIOUS

\* One more element.
LEMMA AppendFacts ==
  ASSUME NEW S, NEW s \in Seq(S), NEW x \in S
  PROVE  /\ Append(s, x) \in Seq(S) /\ Append(s, x) # <<>> /\ Len(Append(s, x)) = Len(s) + 1
         /\ \A i \in 1..Len(s) : Append(s, x)[i] = s[i]
         /\ Append(s, x)[Len(s) + 1] = x
  OBVIOUS

\* A sequence is its elements.
LEMMA SameSequence ==
  ASSUME NEW S, NEW s \in Seq(S), NEW t \in Seq(S), Len(s) = Len(t),
         \A i \in 1..Len(s) : s[i] = t[i]
  PROVE  s = t
  OBVIOUS

\* Two sequences, one after the other.
LEMMA JoinFacts ==
  ASSUME NEW S, NEW b \in Seq(S), NEW p \in Seq(S)
  PROVE  /\ b \o p \in Seq(S) /\ Len(b \o p) = Len(b) + Len(p)
         /\ \A i \in 1..Len(b) : (b \o p)[i] = b[i]
         /\ \A i \in 1..Len(p) : (b \o p)[Len(b) + i] = p[i]
  OBVIOUS

\* All of a sequence, and nothing of it.
LEMMA WholeSequence ==
  ASSUME NEW S, NEW w \in Seq(S)
  PROVE  SubSeq(w, 1, Len(w)) = w
  OBVIOUS

LEMMA NoSequence ==
  ASSUME NEW w, NEW m \in Int, NEW n \in Int, n < m
  PROVE  SubSeq(w, m, n) = <<>>
  OBVIOUS

\* To cut the front of a buffer is to cut the front of the stream.
LEMMA CutJoins ==
  ASSUME NEW S, NEW b \in Seq(S), NEW p \in Seq(S), NEW d \in 0..Len(b)
  PROVE  SubSeq(b, d + 1, Len(b)) \o p = SubSeq(b \o p, d + 1, Len(b \o p))
<1>1. PICK w : w = b \o p
  BY Zenon
<1>2. PICK c : c = SubSeq(b, d + 1, Len(b))
  BY Zenon
<1>3. Len(b) \in Nat /\ Len(p) \in Nat
  OBVIOUS
<1>4. /\ w \in Seq(S) /\ Len(w) = Len(b) + Len(p)
      /\ \A i \in 1..Len(b) : w[i] = b[i]
  BY <1>1, JoinFacts
<1>5. c \in Seq(S) /\ Len(c) = Len(b) - d /\ \A i \in 1..(Len(b) - d) : c[i] = b[i + d]
  BY <1>2, DropFacts
<1>6. PICK x : x = c \o p
  BY Zenon
<1>7. /\ x \in Seq(S) /\ Len(x) = Len(c) + Len(p)
      /\ \A i \in 1..Len(c) : x[i] = c[i]
      /\ \A i \in 1..Len(p) : x[Len(c) + i] = p[i]
  <2>1. c \in Seq(S)
    BY <1>5
  <2>2. /\ c \o p \in Seq(S) /\ Len(c \o p) = Len(c) + Len(p)
        /\ \A i \in 1..Len(c) : (c \o p)[i] = c[i]
        /\ \A i \in 1..Len(p) : (c \o p)[Len(c) + i] = p[i]
    BY SMTT(30), <2>1, JoinFacts
  <2> QED
    BY <1>6, <2>2, Zenon
<1>8. PICK y : y = SubSeq(w, d + 1, Len(w))
  BY Zenon
<1>9. y \in Seq(S) /\ Len(y) = Len(w) - d /\ \A i \in 1..(Len(w) - d) : y[i] = w[i + d]
  BY SMTT(30), <1>3, <1>4, <1>8, DropFacts
<1>10. \A i \in 1..Len(p) : w[Len(b) + i] = p[i]
  BY SMTT(30), <1>1, JoinFacts
<1>11. ASSUME NEW i \in 1..Len(x) PROVE x[i] = y[i]
  <2>1. CASE i <= Len(b) - d
    <3>1. i \in 1..Len(c) /\ i \in 1..(Len(b) - d) /\ i + d \in 1..Len(b) /\ i \in 1..(Len(w) - d)
      BY <1>3, <1>4, <1>5, <1>7, <2>1
    <3> QED
      BY <1>4, <1>5, <1>7, <1>9, <3>1
  <2>2. CASE ~(i <= Len(b) - d)
    <3>1. PICK j \in 1..Len(p) : i = Len(c) + j
      <4>1. i - Len(c) \in 1..Len(p) /\ i = Len(c) + (i - Len(c))
        BY <1>3, <1>5, <1>7, <2>2
      <4> QED
        BY <4>1, Zenon
    <3>2. i + d = Len(b) + j /\ i \in 1..(Len(w) - d)
      BY <1>3, <1>4, <1>5, <1>7, <3>1
    <3> QED
      BY <1>7, <1>9, <1>10, <3>1, <3>2, Zenon
  <2> QED
    BY <2>1, <2>2
<1>12. Len(x) = Len(y)
  BY <1>3, <1>4, <1>5, <1>7, <1>9
<1>13. x = y
  BY <1>7, <1>9, <1>11, <1>12, SameSequence
<1> QED
  BY <1>1, <1>2, <1>6, <1>8, <1>13, Zenon

\* A byte that is sent goes to the end of the stream.
LEMMA SendJoins ==
  ASSUME NEW S, NEW b \in Seq(S), NEW p \in Seq(S), NEW x \in S
  PROVE  b \o Append(p, x) = Append(b \o p, x)
  OBVIOUS

-----------------------------------------------------------------------------
(* The stream: what a cut, a byte of a frame and a byte of noise keep.      *)

LEMMA Bounds ==
  /\ MaxAduLen \in Nat /\ MaxAduLen >= 1 /\ ReadChunk \in Nat /\ ReadChunk >= 1
  /\ Known \in Nat /\ 1 <= Known /\ Known <= MaxAduLen
  /\ NumFrames \in Nat /\ MaxNoise \in Nat /\ MaxReceives \in Nat
<1>1. /\ MaxAduLen \in Nat \ {0} /\ ReadChunk \in Nat \ {0} /\ Known \in 1..MaxAduLen
      /\ NumFrames \in Nat /\ MaxNoise \in Nat /\ MaxReceives \in Nat
  BY TransportAssumption, Zenon
<1> QED
  BY <1>1

\* Frames have a length.
Lengths == \A k \in 1..NumFrames : frames[k].len \in Nat /\ frames[k].len >= 1

LEMMA FrameFacts ==
  ASSUME TypeOK
  PROVE  /\ Lengths
         /\ \A k \in 1..NumFrames : /\ frames[k].len >= Known /\ frames[k].good \in BOOLEAN
                                    /\ boundary = "Delimited" => frames[k].len >= 3
<1>1. boundary \in Boundaries /\ frames \in [1..NumFrames -> Frames[boundary]]
  BY DEF TypeOK
<1>2. \A f \in Frames[boundary] :
        /\ f.len \in Nat /\ f.len >= Known /\ f.good \in BOOLEAN
        /\ boundary = "Delimited" => f.len >= 3
  BY <1>1, TransportAssumption, Zenon
<1>3. \A k \in 1..NumFrames : frames[k] \in Frames[boundary]
  BY <1>1
<1>4. \A k \in 1..NumFrames :
        /\ frames[k].len \in Nat /\ frames[k].len >= Known /\ frames[k].good \in BOOLEAN
        /\ boundary = "Delimited" => frames[k].len >= 3
  BY <1>2, <1>3, Zenon
<1> QED
  BY <1>4, Bounds DEF Lengths

LEMMA ByteFacts ==
  ASSUME NEW x \in Bytes
  PROVE  x.frame \in Nat /\ x.frame <= NumFrames /\ x.at \in Nat
         /\ (Data(x) => x.frame \in 1..NumFrames)
<1>1. x.frame \in 0..NumFrames /\ x.at \in Nat
  BY DEF Bytes
<1> QED
  BY <1>1, Bounds DEF Data

LEMMA PlaceFacts ==
  ASSUME place \in [frame : 1..(NumFrames + 1), at : Nat \ {0}]
  PROVE  /\ place.frame \in Nat /\ 1 <= place.frame /\ place.frame <= NumFrames + 1
         /\ place.at \in Nat /\ 1 <= place.at /\ place = [frame |-> place.frame, at |-> place.at]
<1>1. place.frame \in 1..(NumFrames + 1) /\ place.at \in Nat \ {0}
  OBVIOUS
<1>2. place = [frame |-> place.frame, at |-> place.at]
  OBVIOUS
<1> QED
  BY SMTT(30), <1>1, <1>2, Bounds

\* Where the peer is after its next byte.
LEMMA NextPlace ==
  ASSUME place \in [frame : 1..(NumFrames + 1), at : Nat \ {0}], place.frame <= NumFrames,
         Lengths, PlaceKept,
         place' = IF place.at < frames[place.frame].len
                  THEN [place EXCEPT !.at = @ + 1]
                  ELSE [frame |-> place.frame + 1, at |-> 1]
  PROVE  /\ place.frame \in 1..NumFrames /\ frames[place.frame].len \in Nat
         /\ place.at <= frames[place.frame].len
         /\ place'.at \in Nat /\ place'.frame \in Nat
         /\ \/ /\ place.at < frames[place.frame].len
               /\ place'.frame = place.frame /\ place'.at = place.at + 1
            \/ /\ place.at = frames[place.frame].len
               /\ place'.frame = place.frame + 1 /\ place'.at = 1
<1>1. place.frame \in 1..NumFrames /\ place.at \in Nat
  BY PlaceFacts, Bounds
<1>2. frames[place.frame].len \in Nat /\ place.at <= frames[place.frame].len
  BY <1>1 DEF Lengths, PlaceKept
<1>3. place = [frame |-> place.frame, at |-> place.at]
  BY PlaceFacts
<1>4. CASE place.at < frames[place.frame].len
  <2>1. place' = [place EXCEPT !.at = @ + 1]
    BY <1>4
  <2>2. place'.frame = place.frame /\ place'.at = place.at + 1
    BY <1>3, <2>1
  <2> QED
    BY SMTT(30), <1>1, <1>2, <1>4, <2>2
<1>5. CASE ~(place.at < frames[place.frame].len)
  <2>1. place' = [frame |-> place.frame + 1, at |-> 1]
    BY <1>5
  <2>2. place'.frame = place.frame + 1 /\ place'.at = 1
    BY <2>1
  <2> QED
    BY SMTT(30), <1>1, <1>2, <1>5, <2>2
<1> QED
  BY <1>4, <1>5

\* Cutting bytes off the front of the stream keeps its order.
LEMMA DropKeepsOrder ==
  ASSUME NEW w \in Seq(Bytes), NEW v \in Seq(Bytes), NEW d \in 0..Len(w), InOrder(w),
         Len(v) = Len(w) - d, \A i \in 1..Len(v) : v[i] = w[i + d]
  PROVE  InOrder(v)
<1>1. Len(w) \in Nat /\ Len(v) \in Nat /\ \A i \in 1..Len(v) : i + d \in 1..Len(w)
  OBVIOUS
<1>2. Genuine(v)
  BY <1>1 DEF InOrder, Genuine
<1>3. Contiguous(v)
  <2> SUFFICES ASSUME NEW i \in 1..Len(v), NEW j \in 1..Len(v), i <= j, Data(v[i]),
                      v[i].at + (j - i) <= frames[v[i].frame].len
               PROVE  v[j] = Byte(v[i].frame, v[i].at + (j - i))
    BY Zenon DEF Contiguous
  <2>1. i + d \in 1..Len(w) /\ j + d \in 1..Len(w) /\ i + d <= j + d /\ (j + d) - (i + d) = j - i
    BY <1>1
  <2>2. v[i] = w[i + d] /\ v[j] = w[j + d]
    OBVIOUS
  <2> QED
    BY <2>1, <2>2, Zenon DEF InOrder, Contiguous
<1>4. Ascending(v)
  <2>1. ASSUME NEW i \in 1..Len(v), NEW j \in 1..Len(v), i < j, Data(v[i]), Data(v[j])
        PROVE  Sooner(v[i], v[j])
    <3>1. i + d \in 1..Len(w) /\ j + d \in 1..Len(w) /\ i + d < j + d
      BY <1>1, <2>1
    <3> QED
      BY <2>1, <3>1, Zenon DEF InOrder, Ascending
  <2>2. ASSUME NEW i \in 1..(Len(v) - 1), Data(v[i]), Ends(v[i]), Data(v[i + 1])
        PROVE  v[i + 1].at = 1
    <3>1. i + d \in 1..(Len(w) - 1) /\ (i + 1) + d = (i + d) + 1 /\ i \in 1..Len(v) /\ i + 1 \in 1..Len(v)
      BY <1>1
    <3>2. v[i] = w[i + d] /\ v[i + 1] = w[(i + d) + 1]
      BY <3>1
    <3> QED
      BY <2>2, <3>1, <3>2 DEF InOrder, Ascending
  <2> QED
    BY <2>1, <2>2 DEF Ascending
<1>5. Upcoming(v)
  <2>1. \A i \in 1..Len(v) : Data(v[i]) => Sooner(v[i], place)
    BY <1>1 DEF InOrder, Upcoming
  <2>2. ASSUME v # <<>>
        PROVE  IF Data(v[Len(v)]) /\ ~Ends(v[Len(v)])
               THEN place.frame = v[Len(v)].frame /\ place.at = v[Len(v)].at + 1
               ELSE place.at = 1
    <3>1. Len(v) \in 1..Len(v) /\ Len(v) + d = Len(w) /\ w # <<>>
      BY <1>1, <2>2
    <3>2. v[Len(v)] = w[Len(w)]
      BY <3>1
    <3> QED
      BY <3>1, <3>2 DEF InOrder, Upcoming
  <2> QED
    BY <2>1, <2>2 DEF Upcoming
<1> QED
  BY <1>2, <1>3, <1>4, <1>5 DEF InOrder

\* The peer goes on where a frame of the stream is unfinished.
LEMMA Unfinished ==
  ASSUME NEW w \in Seq(Bytes), InOrder(w), Lengths, NEW i \in 1..Len(w), Data(w[i]),
         w[i].at + ((Len(w) + 1) - i) <= frames[w[i].frame].len
  PROVE  place.frame = w[i].frame /\ place.at = w[i].at + ((Len(w) + 1) - i)
<1>1. w[i] \in Bytes
  OBVIOUS
<1>2. PICK n \in Nat, L \in Nat, t \in Nat :
        n = Len(w) /\ L = frames[w[i].frame].len /\ t = w[i].at
  BY <1>1, ByteFacts DEF Lengths
<1>3. i \in 1..n /\ n \in 1..n /\ t + ((n + 1) - i) <= L
  BY <1>2
<1>4. PICK a \in Nat : a = t + (n - i)
  BY <1>3
<1>5. a < L /\ a + 1 = t + ((n + 1) - i) /\ t + (n - i) <= L /\ i <= n
  BY <1>3, <1>4
<1>6. w[n] = Byte(w[i].frame, a)
  <2>1. n \in 1..Len(w) /\ w[i].at + (n - i) <= frames[w[i].frame].len
    BY <1>2, <1>3, <1>5
  <2>2. w[n] = Byte(w[i].frame, w[i].at + (n - i))
    BY <1>5, <2>1 DEF InOrder, Contiguous
  <2> QED
    BY <1>2, <1>4, <2>2
<1>7. PICK y : y = w[n]
  OBVIOUS
<1>8. y.frame = w[i].frame /\ y.at = a
  BY <1>6, <1>7 DEF Byte
<1>9. Data(y) /\ ~Ends(y)
  BY <1>2, <1>5, <1>8 DEF Data, Ends
<1>10. w # <<>>
  BY <1>2, <1>3
<1>11. place.frame = y.frame /\ place.at = y.at + 1
  BY <1>2, <1>7, <1>9, <1>10 DEF InOrder, Upcoming
<1> QED
  BY <1>2, <1>5, <1>8, <1>11

\* The peer's next byte goes to the end of the stream, in its order.
LEMMA SendKeepsOrder ==
  ASSUME NEW w \in Seq(Bytes), NEW v \in Seq(Bytes), InOrder(w), Lengths, frames' = frames,
         place.frame \in 1..NumFrames, place.at \in 1..frames[place.frame].len,
         place'.at \in Nat, place'.frame \in Nat,
         \/ /\ place.at < frames[place.frame].len
            /\ place'.frame = place.frame /\ place'.at = place.at + 1
         \/ /\ place.at = frames[place.frame].len
            /\ place'.frame = place.frame + 1 /\ place'.at = 1,
         Len(v) = Len(w) + 1, \A i \in 1..Len(w) : v[i] = w[i],
         v[Len(v)] = Byte(place.frame, place.at)
  PROVE  InOrder(v)'
<1>1. Len(w) \in Nat /\ Len(v) \in Nat /\ \A i \in 1..Len(v) : i \in 1..Len(w) \/ i = Len(v)
  BY SMTT(30)
<1>2. PICK x \in Bytes : x = v[Len(v)]
  BY SMTT(30), <1>1
<1>3. /\ x.frame = place.frame /\ x.at = place.at /\ x.says = "sent"
      /\ x = Byte(place.frame, place.at)
      /\ place.frame \in Nat /\ place.frame >= 1 /\ place.at \in Nat /\ place.at >= 1
      /\ frames[place.frame].len \in Nat /\ place.at <= frames[place.frame].len
  <2>1. x = Byte(place.frame, place.at)
    BY <1>2
  <2>2. x.frame = place.frame /\ x.at = place.at /\ x.says = "sent"
    BY <2>1 DEF Byte
  <2> QED
    BY SMTT(30), <2>1, <2>2, Bounds DEF Lengths
<1>4. \A i \in 1..Len(w) : v[i] \in Bytes /\ v[i].at \in Nat /\ v[i].frame \in Nat
                           /\ (Data(v[i]) => frames[v[i].frame].len \in Nat)
  BY SMTT(30), ByteFacts DEF Lengths
<1>6. Genuine(v)'
  <2> SUFFICES ASSUME NEW i \in 1..Len(v)
               PROVE  IF Data(v[i]) THEN v[i].at \in 1..frames[v[i].frame].len /\ v[i].says = "sent"
                      ELSE v[i].at = 0 /\ v[i].says # "sent"
    BY DEF Genuine, Data
  <2>1. CASE i \in 1..Len(w)
    BY <2>1 DEF InOrder, Genuine
  <2>2. CASE i = Len(v)
    <3>1. v[i] = x
      BY <1>2, <2>2
    <3> QED
      BY <1>3, <3>1 DEF Data
  <2> QED
    BY <1>1, <2>1, <2>2
<1>7. Contiguous(v)'
  <2> SUFFICES ASSUME NEW i \in 1..Len(v), NEW j \in 1..Len(v), i <= j, Data(v[i]),
                      v[i].at + (j - i) <= frames[v[i].frame].len
               PROVE  v[j] = Byte(v[i].frame, v[i].at + (j - i))
    BY DEF Contiguous, Data, Byte
  <2>1. CASE j \in 1..Len(w)
    <3>1. i \in 1..Len(w)
      BY SMTT(30), <1>1, <2>1
    <3> QED
      BY <2>1, <3>1 DEF InOrder, Contiguous
  <2>2. CASE j = Len(v) /\ i = Len(v)
    <3>1. v[i] = x /\ v[j] = x
      BY <1>2, <2>2
    <3>2. x.at + (j - i) = x.at
      BY SMTT(30), <1>1, <1>3, <2>2
    <3>3. x = Byte(x.frame, x.at)
      BY <1>3, Zenon
    <3> QED
      BY <3>1, <3>2, <3>3, Zenon
  <2>3. CASE j = Len(v) /\ i \in 1..Len(w)
    <3>1. i \in 1..Len(w) /\ v[i] = w[i] /\ j = Len(w) + 1
      BY <2>3
    <3>2. place.frame = w[i].frame /\ place.at = w[i].at + ((Len(w) + 1) - i)
      BY <3>1, Unfinished
    <3> QED
      BY <1>2, <1>3, <2>3, <3>1, <3>2
  <2> QED
    BY <1>1, <2>1, <2>2, <2>3
<1>8. Ascending(v)'
  <2>1. ASSUME NEW i \in 1..Len(v), NEW j \in 1..Len(v), i < j, Data(v[i]), Data(v[j])
        PROVE  Sooner(v[i], v[j])
    <3>1. i \in 1..Len(w)
      BY SMTT(30), <1>1, <2>1
    <3>2. CASE j \in 1..Len(w)
      BY <2>1, <3>1, <3>2 DEF InOrder, Ascending
    <3>3. CASE j = Len(v)
      <4>1. Sooner(w[i], place)
        BY <2>1, <3>1 DEF InOrder, Upcoming
      <4> QED
        BY <1>2, <1>3, <3>1, <3>3, <4>1 DEF Sooner
    <3> QED
      BY <1>1, <3>2, <3>3
  <2>2. ASSUME NEW i \in 1..(Len(v) - 1), Data(v[i]), Ends(v[i]), Data(v[i + 1])
        PROVE  v[i + 1].at = 1
    <3>1. i \in 1..Len(w) /\ v[i] = w[i]
      BY SMTT(30), <1>1
    <3>2. CASE i < Len(w)
      <4>1. i \in 1..(Len(w) - 1) /\ i + 1 \in 1..Len(w)
        BY SMTT(30), <1>1, <3>2
      <4>2. v[i + 1] = w[i + 1]
        BY <4>1
      <4> QED
        BY <2>2, <3>1, <4>1, <4>2 DEF InOrder, Ascending
    <3>3. CASE i = Len(w)
      <4>1. w # <<>> /\ i + 1 = Len(v)
        BY <1>1, <3>1, <3>3
      <4>2. place.at = 1
        BY <2>2, <3>1, <3>3, <4>1 DEF InOrder, Upcoming
      <4> QED
        BY <1>2, <1>3, <4>1, <4>2
    <3> QED
      BY SMTT(30), <1>1, <3>1, <3>2, <3>3
  <2> QED
    BY <2>1, <2>2 DEF Ascending, Data, Ends, Sooner
<1>9. Upcoming(v)'
  <2>1. ASSUME NEW i \in 1..Len(v), Data(v[i]) PROVE Sooner(v[i], place')
    <3>1. CASE i \in 1..Len(w)
      <4>1. Sooner(v[i], place)
        BY <2>1, <3>1 DEF InOrder, Upcoming
      <4> QED
        BY <1>3, <1>4, <3>1, <4>1, SMTT(30) DEF Sooner
    <3>2. CASE i = Len(v)
      <4>1. v[i] = x
        BY <1>2, <3>2
      <4> QED
        BY <1>3, <4>1 DEF Sooner
    <3> QED
      BY <1>1, <3>1, <3>2
  <2>2. IF Data(v[Len(v)]) /\ ~Ends(v[Len(v)])
        THEN place'.frame = v[Len(v)].frame /\ place'.at = v[Len(v)].at + 1
        ELSE place'.at = 1
    <3>1. Data(x) /\ (Ends(x) <=> place.at = frames[place.frame].len)
      BY <1>3 DEF Data, Ends
    <3> QED
      BY SMTT(30), <1>2, <1>3, <3>1
  <2> QED
    BY <2>1, <2>2 DEF Upcoming, Data, Ends, Sooner
<1> QED
  BY <1>6, <1>7, <1>8, <1>9 DEF InOrder

\* So does a byte of noise between two frames.
LEMMA NoiseKeepsOrder ==
  ASSUME NEW w \in Seq(Bytes), NEW v \in Seq(Bytes), InOrder(w), Lengths, frames' = frames,
         place.at = 1, place' = place, NEW u, u # "sent",
         Len(v) = Len(w) + 1, \A i \in 1..Len(w) : v[i] = w[i], v[Len(v)] = Noise(u)
  PROVE  InOrder(v)'
<1>1. Len(w) \in Nat /\ Len(v) \in Nat /\ \A i \in 1..Len(v) : i \in 1..Len(w) \/ i = Len(v)
  OBVIOUS
<1>2. PICK x : x = v[Len(v)]
  OBVIOUS
<1>3. x.frame = 0 /\ x.at = 0 /\ x.says # "sent" /\ ~Data(x)
  BY <1>2 DEF Noise, Data
<1>4. ASSUME NEW i \in 1..Len(v), Data(v[i])
      PROVE  i \in 1..Len(w) /\ v[i] = w[i] /\ Data(w[i])
  BY <1>1, <1>2, <1>3, <1>4
<1>6. Genuine(v)'
  <2> SUFFICES ASSUME NEW i \in 1..Len(v)
               PROVE  IF Data(v[i]) THEN v[i].at \in 1..frames[v[i].frame].len /\ v[i].says = "sent"
                      ELSE v[i].at = 0 /\ v[i].says # "sent"
    BY DEF Genuine, Data
  <2>1. CASE i \in 1..Len(w)
    BY <2>1 DEF InOrder, Genuine
  <2>2. CASE i = Len(v)
    BY <1>2, <1>3, <2>2
  <2> QED
    BY <1>1, <2>1, <2>2
<1>7. Contiguous(v)'
  <2> SUFFICES ASSUME NEW i \in 1..Len(v), NEW j \in 1..Len(v), i <= j, Data(v[i]),
                      v[i].at + (j - i) <= frames[v[i].frame].len
               PROVE  v[j] = Byte(v[i].frame, v[i].at + (j - i))
    BY DEF Contiguous, Data, Byte
  <2>1. i \in 1..Len(w) /\ v[i] = w[i] /\ Data(w[i])
    BY <1>4
  <2>2. CASE j \in 1..Len(w)
    BY <2>1, <2>2 DEF InOrder, Contiguous
  <2>3. CASE j = Len(w) + 1
    <3>1. place.at = w[i].at + ((Len(w) + 1) - i)
      BY <2>1, <2>3, Unfinished
    <3>2. w[i].at \in Nat /\ w[i].at >= 1
      <4>1. w[i] \in Bytes
        BY <2>1
      <4>2. w[i].at \in 1..frames[w[i].frame].len
        BY <2>1 DEF InOrder, Genuine
      <4> QED
        BY SMTT(30), <4>1, <4>2, ByteFacts DEF Lengths
    <3> QED
      BY <1>1, <2>1, <3>1, <3>2
  <2> QED
    BY <1>1, <2>2, <2>3
<1>8. Ascending(v)'
  <2>1. ASSUME NEW i \in 1..Len(v), NEW j \in 1..Len(v), i < j, Data(v[i]), Data(v[j])
        PROVE  Sooner(v[i], v[j])
    <3>1. i \in 1..Len(w) /\ j \in 1..Len(w) /\ v[i] = w[i] /\ v[j] = w[j]
      BY <1>4, <2>1
    <3> QED
      BY <2>1, <3>1 DEF InOrder, Ascending
  <2>2. ASSUME NEW i \in 1..(Len(v) - 1), Data(v[i]), Ends(v[i]), Data(v[i + 1])
        PROVE  v[i + 1].at = 1
    <3>1. i \in 1..Len(v) /\ i + 1 \in 1..Len(v)
      BY <1>1
    <3>2. i + 1 \in 1..Len(w) /\ v[i] = w[i] /\ v[i + 1] = w[i + 1]
      BY <1>4, <2>2, <3>1
    <3>3. i \in 1..(Len(w) - 1)
      BY <1>1, <3>2
    <3> QED
      BY <2>2, <3>2, <3>3 DEF InOrder, Ascending
  <2> QED
    BY <2>1, <2>2 DEF Ascending, Data, Ends, Sooner
<1>9. Upcoming(v)'
  <2>1. ASSUME NEW i \in 1..Len(v), Data(v[i]) PROVE Sooner(v[i], place)
    BY <1>4, <2>1 DEF InOrder, Upcoming
  <2>2. IF Data(v[Len(v)]) /\ ~Ends(v[Len(v)])
        THEN place.frame = v[Len(v)].frame /\ place.at = v[Len(v)].at + 1
        ELSE place.at = 1
    BY <1>2, <1>3
  <2> QED
    BY <2>1, <2>2 DEF Upcoming, Data, Ends, Sooner
<1> QED
  BY <1>6, <1>7, <1>8, <1>9 DEF InOrder

-----------------------------------------------------------------------------
(* The steps of the peer and of the line.                                   *)

\* The buffer is the front of the stream, and so is the buffer after a read.
LEMMA StreamFacts ==
  ASSUME IInv
  PROVE  /\ buffer \in Seq(Bytes) /\ pipe \in Seq(Bytes) /\ Stream \in Seq(Bytes)
         /\ Len(Stream) = Len(buffer) + Len(pipe)
         /\ \A i \in 1..Len(buffer) : Stream[i] = buffer[i]
<1>1. buffer \in Seq(Bytes) /\ pipe \in Seq(Bytes)
  BY DEF IInv, TypeOK
<1> QED
  BY <1>1, JoinFacts, Zenon DEF Stream

\* The stream with one more byte.
LEMMA StreamGrows ==
  ASSUME IInv, NEW x \in Bytes, pipe' = Append(pipe, x), buffer' = buffer
  PROVE  /\ pipe' \in Seq(Bytes) /\ Stream' \in Seq(Bytes) /\ Len(Stream') = Len(Stream) + 1
         /\ \A i \in 1..Len(Stream) : Stream'[i] = Stream[i]
         /\ Stream'[Len(Stream')] = x
<1>1. buffer \in Seq(Bytes) /\ pipe \in Seq(Bytes) /\ Stream \in Seq(Bytes)
  BY StreamFacts
<1>2. PICK w : w = Stream
  BY Zenon
<1>3. PICK v : v = Stream'
  BY Zenon
<1>4. v = Append(w, x)
  <2>1. v = buffer \o Append(pipe, x)
    BY <1>3, Zenon DEF Stream
  <2>2. buffer \o Append(pipe, x) = Append(buffer \o pipe, x)
    <3>1. PICK c \in Seq(Bytes), q \in Seq(Bytes) : c = buffer /\ q = pipe
      BY <1>1
    <3>2. c \o Append(q, x) = Append(c \o q, x)
      BY SMTT(30), SendJoins
    <3> QED
      BY <3>1, <3>2, Zenon
  <2> QED
    BY <1>2, <2>1, <2>2, Zenon DEF Stream
<1>5. w \in Seq(Bytes)
  BY <1>1, <1>2
<1>6. /\ v \in Seq(Bytes) /\ Len(v) = Len(w) + 1
      /\ \A i \in 1..Len(w) : v[i] = w[i]
      /\ v[Len(w) + 1] = x
  BY SMTT(30), <1>4, <1>5, AppendFacts
<1>7. pipe' \in Seq(Bytes)
  BY <1>1, AppendFacts
<1> QED
  BY <1>2, <1>3, <1>6, <1>7, Zenon

\* What a step of the peer leaves alone.
LEMMA ReceiverKept ==
  ASSUME IInv, UNCHANGED <<boundary, frames, closed, buffer, receiving, phase, searched, delivered,
                           outcome, receives, failures>>
  PROVE  Waiting' /\ BufferBounded' /\ ExactFrames' /\ Aligned'
<1>1. Partial(buffer, searched)' = Partial(buffer, searched)
  BY Zenon DEF Partial, Starts, Data
<1>2. Waiting'
  BY <1>1, Zenon DEF IInv, Waiting
<1>3. BufferBounded'
  BY DEF IInv, BufferBounded
<1>4. \A k : Whole(k)' = Whole(k)
  BY Zenon DEF Whole, Byte
<1>5. ExactFrames'
  BY <1>4, Zenon DEF IInv, ExactFrames
<1>6. Aligned'
  BY Zenon DEF IInv, Aligned, SelfLocating
<1> QED
  BY <1>2, <1>3, <1>5, <1>6

LEMMA PeerSendsKeeps ==
  ASSUME IInv, PeerSends
  PROVE  IInv'
<1>1. /\ TypeOK /\ PlaceKept /\ Lengths
      /\ place \in [frame : 1..(NumFrames + 1), at : Nat \ {0}] /\ place.frame <= NumFrames
      /\ pipe' = Append(pipe, Byte(place.frame, place.at))
      /\ place' = IF place.at < frames[place.frame].len
                  THEN [place EXCEPT !.at = @ + 1]
                  ELSE [frame |-> place.frame + 1, at |-> 1]
  BY FrameFacts, Zenon DEF IInv, TypeOK, PeerSends
<1>2. UNCHANGED <<boundary, frames, noise, closed, buffer, receiving, phase, searched, delivered,
                  outcome, receives, failures>>
  BY DEF PeerSends
<1>3. /\ place.frame \in 1..NumFrames /\ frames[place.frame].len \in Nat
      /\ place.at <= frames[place.frame].len /\ place'.at \in Nat /\ place'.frame \in Nat
      /\ \/ /\ place.at < frames[place.frame].len
            /\ place'.frame = place.frame /\ place'.at = place.at + 1
         \/ /\ place.at = frames[place.frame].len
            /\ place'.frame = place.frame + 1 /\ place'.at = 1
  BY <1>1, NextPlace, Zenon
<1>4. place.at \in Nat /\ place.at >= 1 /\ place.frame \in Nat
  BY <1>1, PlaceFacts
<1>5. PICK x \in Bytes : x = Byte(place.frame, place.at) /\ Data(x) /\ x.frame = place.frame
                         /\ x.at = place.at
  <2>1. Byte(place.frame, place.at) \in Bytes
    BY <1>3, <1>4, Bounds DEF Byte, Bytes
  <2>2. PICK x : x = Byte(place.frame, place.at)
    BY Zenon
  <2>3. x.frame = place.frame /\ x.at = place.at /\ Data(x)
    BY <1>3, <2>2, Bounds DEF Byte, Data
  <2> QED
    BY <2>1, <2>2, <2>3, Zenon
<1>6. PICK w : w = Stream
  BY Zenon
<1>7. PICK v : v = Stream'
  BY Zenon
<1>8. /\ pipe' \in Seq(Bytes) /\ w \in Seq(Bytes) /\ v \in Seq(Bytes) /\ Len(v) = Len(w) + 1
      /\ \A i \in 1..Len(w) : v[i] = w[i]
      /\ v[Len(v)] = x
  BY <1>1, <1>2, <1>5, <1>6, <1>7, StreamGrows, StreamFacts, Zenon
<1>9. TypeOK'
  <2>1. place' \in [frame : 1..(NumFrames + 1), at : Nat \ {0}]
    <3>1. CASE place.at < frames[place.frame].len
      <4>1. place' = [place EXCEPT !.at = @ + 1] /\ place.at + 1 \in Nat \ {0}
        BY SMTT(30), <1>1, <1>4, <3>1
      <4> QED
        BY <1>1, <4>1
    <3>2. CASE ~(place.at < frames[place.frame].len)
      <4>1. place' = [frame |-> place.frame + 1, at |-> 1] /\ place.frame + 1 \in 1..(NumFrames + 1)
        BY SMTT(30), <1>1, <1>3, <3>2, Bounds
      <4> QED
        BY <4>1
    <3> QED
      BY <3>1, <3>2
  <2> QED
    BY <1>1, <1>2, <1>8, <2>1, Zenon DEF TypeOK
<1>10. PlaceKept'
  <2>1. Lengths'
    BY <1>1, <1>2 DEF Lengths
  <2>2. place'.frame <= NumFrames => frames'[place'.frame].len \in Nat /\ frames'[place'.frame].len >= 1
    BY <1>3, <2>1, Bounds DEF Lengths
  <2>3. frames' = frames
    BY <1>2
  <2> QED
    BY <1>3, <1>4, <2>2, <2>3, Bounds DEF PlaceKept
<1>11. InOrder(Stream)'
  <2>1. InOrder(w) /\ frames' = frames /\ place.at \in 1..frames[place.frame].len
    BY <1>2, <1>3, <1>4, <1>6 DEF IInv
  <2>2. v[Len(v)] = Byte(place.frame, place.at)
    BY <1>5, <1>8, Zenon
  <2>3. InOrder(v)'
    BY <1>1, <1>3, <1>8, <2>1, <2>2, SendKeepsOrder, Zenon
  <2>4. Genuine(Stream)' /\ Contiguous(Stream)'
    BY <1>7, <2>3, Zenon DEF InOrder, Genuine, Contiguous
  <2>5. Ascending(Stream)' /\ Upcoming(Stream)'
    BY <1>7, <2>3, Zenon DEF InOrder, Ascending, Upcoming
  <2> QED
    BY <2>4, <2>5 DEF InOrder
<1>12. PICK n \in Nat : n = Len(w) /\ Len(v) = n + 1
  BY <1>8
<1>13. \A i \in 1..Len(v) : i \in 1..n \/ i = n + 1
  BY <1>12
<1>14. FromStart(Stream)'
  <2>1. ASSUME ~SelfLocating
        PROVE  (\A i \in 1..Len(v) : Data(v[i])) /\ v # <<>> /\ v[1].at = 1
    <3>1. /\ \A i \in 1..Len(w) : Data(w[i])
          /\ w = <<>> => place.at = 1
          /\ w # <<>> => w[1].at = 1
      BY <1>6, <2>1 DEF IInv, FromStart
    <3>2. \A i \in 1..Len(v) : Data(v[i])
      BY <1>5, <1>8, <1>12, <1>13, <3>1
    <3>3. v # <<>>
      BY <1>8, <1>12
    <3>4. CASE w = <<>>
      BY SMTT(30), <1>5, <1>8, <3>1, <3>3, <3>4
    <3>5. CASE w # <<>>
      <4>1. 1 \in 1..Len(w)
        BY <1>8, <3>5
      <4>2. v[1] = w[1]
        BY <1>8, <4>1
      <4> QED
        BY <3>1, <3>2, <3>3, <3>5, <4>2, Zenon
    <3> QED
      BY <3>2, <3>3, <3>4, <3>5
  <2>2. v = Stream' /\ (SelfLocating' <=> SelfLocating)
    BY <1>2, <1>7 DEF SelfLocating
  <2> QED
    BY <2>1, <2>2 DEF FromStart, Data
<1>15. Ahead(Stream)'
  <2>1. ASSUME boundary # "Silence" PROVE Ahead(v)'
    <3>1. ASSUME delivered # <<>>
          PROVE  LET k == LastOf(delivered)[1].frame IN
                 k < place'.frame /\ \A i \in 1..Len(v) : Data(v[i]) => k < v[i].frame
      <4>1. PICK k : k = LastOf(delivered)[1].frame
        BY Zenon
      <4>2. k < place.frame /\ \A i \in 1..Len(w) : Data(w[i]) => k < w[i].frame
        BY <1>6, <2>1, <3>1, <4>1, Zenon DEF IInv, Ahead
      <4>3. k \in Int
        <5>1. Len(delivered) \in DOMAIN delivered /\ delivered \in Seq(Seq(Bytes))
          BY SMTT(30), <1>1, <3>1 DEF TypeOK
        <5>2. LastOf(delivered) \in Seq(Bytes) /\ LastOf(delivered) # <<>>
          <6>1. PICK m : m = Len(delivered)
            BY Zenon
          <6>2. delivered[m] \in Seq(Bytes)
            BY <5>1, <6>1
          <6>3. delivered[m] # <<>>
            BY <2>1, <5>1, <6>1, Zenon DEF IInv, ExactFrames
          <6> QED
            BY <6>1, <6>2, <6>3, Zenon DEF LastOf
        <5>3. PICK y : y = LastOf(delivered)
          BY Zenon
        <5>4. y[1] \in Bytes
          BY <5>2, <5>3
        <5> QED
          BY <4>1, <5>3, <5>4, ByteFacts
      <4>4. k < place'.frame
        BY <1>3, <1>4, <4>2, <4>3
      <4>5. ASSUME NEW i \in 1..Len(v), Data(v[i]) PROVE k < v[i].frame
        <5>1. CASE i \in 1..n
          BY <1>8, <1>12, <4>2, <4>5, <5>1
        <5>2. CASE i = n + 1
          BY <1>5, <1>8, <1>12, <4>2, <5>2
        <5> QED
          BY <1>13, <5>1, <5>2
      <4> QED
        BY <4>1, <4>4, <4>5, Zenon
    <3>2. ASSUME failures = 0
          PROVE  /\ Len(delivered) < place'.frame
                 /\ \A k \in (Len(delivered) + 1)..place'.frame :
                      (k < place'.frame \/ place'.at > 1) => \E j \in 1..Len(v) : v[j] = Byte(k, 1)
      <4>1. PICK m \in Nat : m = Len(delivered)
        <5>1. delivered \in Seq(Seq(Bytes))
          BY <1>1 DEF TypeOK
        <5> QED
          BY <5>1
      <4>2. /\ m < place.frame
            /\ \A k \in (m + 1)..place.frame :
                 (k < place.frame \/ place.at > 1) => \E j \in 1..Len(w) : w[j] = Byte(k, 1)
        BY <1>6, <2>1, <3>2, <4>1, Zenon DEF IInv, Ahead
      <4>3. ASSUME NEW k \in (m + 1)..place'.frame, k < place'.frame \/ place'.at > 1
            PROVE  \E j \in 1..Len(v) : v[j] = Byte(k, 1)
        <5>1. k \in (m + 1)..place.frame
          BY <1>3, <1>4, <4>3
        <5>2. CASE k < place.frame \/ place.at > 1
          <6>1. PICK j \in 1..Len(w) : w[j] = Byte(k, 1)
            BY <4>2, <5>1, <5>2
          <6>2. j \in 1..Len(v) /\ v[j] = w[j]
            BY <1>8, <1>12
          <6> QED
            BY <6>1, <6>2, Zenon
        <5>3. CASE ~(k < place.frame \/ place.at > 1)
          <6>1. k = place.frame /\ place.at = 1
            BY <1>4, <5>1, <5>3
          <6>2. v[Len(v)] = Byte(k, 1) /\ Len(v) \in 1..Len(v)
            BY SMTT(30), <1>5, <1>8, <1>12, <6>1
          <6> QED
            BY <6>2, Zenon
        <5> QED
          BY <5>2, <5>3
      <4>4. m < place'.frame
        BY <1>3, <1>4, <4>2
      <4> QED
        BY <4>1, <4>3, <4>4, Zenon
    <3> QED
      BY <1>2, <3>1, <3>2, Zenon DEF Ahead, Data
  <2>2. boundary = "Silence" => Ahead(Stream)'
    BY <1>2, Zenon DEF Ahead
  <2> QED
    BY <1>7, <2>1, <2>2, Zenon DEF Ahead
<1> QED
  BY <1>2, <1>9, <1>10, <1>11, <1>14, <1>15, ReceiverKept, Zenon DEF IInv

LEMMA LineNoiseKeeps ==
  ASSUME IInv, LineNoise
  PROVE  IInv'
<1>1. /\ TypeOK /\ Lengths /\ place.at = 1 /\ noise < MaxNoise /\ noise' = noise + 1
  BY FrameFacts, Zenon DEF IInv, LineNoise
<1>2. /\ UNCHANGED <<boundary, frames, closed, buffer, receiving, phase, searched, delivered,
                     outcome, receives, failures>>
      /\ place' = place
  BY DEF LineNoise
<1>3. PICK u \in NoiseBytes[boundary] : pipe' = Append(pipe, Noise(u))
  BY DEF LineNoise
<1>4. boundary \in Boundaries /\ u \in {"data", "cr"} /\ SelfLocating
  <2>1. boundary \in Boundaries
    BY <1>1 DEF TypeOK
  <2>2. NoiseBytes \in [Boundaries -> SUBSET {"data", "cr"}]
    BY TransportAssumption, Zenon
  <2>3. boundary \notin {"Delimited", "Silence"} => NoiseBytes[boundary] = {}
    BY <2>1, TransportAssumption, Zenon
  <2> QED
    BY <1>3, <2>1, <2>2, <2>3 DEF SelfLocating
<1>5. PICK x \in Bytes : x = Noise(u) /\ ~Data(x)
  <2>1. Noise(u) \in Bytes
    BY SMTT(30), <1>4, Bounds DEF Noise, Bytes
  <2>2. ~Data(Noise(u))
    BY DEF Noise, Data
  <2> QED
    BY <2>1, <2>2
<1>6. PICK w : w = Stream
  BY Zenon
<1>7. PICK v : v = Stream'
  BY Zenon
<1>8. /\ pipe' \in Seq(Bytes) /\ w \in Seq(Bytes) /\ v \in Seq(Bytes) /\ Len(v) = Len(w) + 1
      /\ \A i \in 1..Len(w) : v[i] = w[i]
      /\ v[Len(v)] = x
  BY <1>2, <1>3, <1>5, <1>6, <1>7, StreamGrows, StreamFacts, Zenon
<1>9. TypeOK'
  <2>1. noise' \in 0..MaxNoise
    BY SMTT(30), <1>1, Bounds DEF TypeOK
  <2> QED
    BY <1>1, <1>2, <1>8, <2>1, Zenon DEF TypeOK
<1>10. PlaceKept'
  BY <1>2 DEF IInv, PlaceKept
<1>11. InOrder(Stream)'
  <2>1. InOrder(w) /\ frames' = frames /\ u # "sent"
    BY <1>2, <1>4, <1>6 DEF IInv
  <2>2. v[Len(v)] = Noise(u)
    BY <1>5, <1>8, Zenon
  <2>3. InOrder(v)'
    BY <1>1, <1>2, <1>8, <2>1, <2>2, NoiseKeepsOrder, Zenon
  <2>4. Genuine(Stream)' /\ Contiguous(Stream)'
    BY <1>7, <2>3, Zenon DEF InOrder, Genuine, Contiguous
  <2>5. Ascending(Stream)' /\ Upcoming(Stream)'
    BY <1>7, <2>3, Zenon DEF InOrder, Ascending, Upcoming
  <2> QED
    BY <2>4, <2>5 DEF InOrder
<1>12. FromStart(Stream)'
  BY <1>2, <1>4, Zenon DEF FromStart, SelfLocating
<1>13. Ahead(Stream)'
  <2>1. PICK n \in Nat : n = Len(w) /\ Len(v) = n + 1
    BY <1>8
  <2>2. ASSUME boundary # "Silence" PROVE Ahead(v)'
    <3>1. ASSUME delivered # <<>>
          PROVE  LET k == LastOf(delivered)[1].frame IN
                 k < place.frame /\ \A i \in 1..Len(v) : Data(v[i]) => k < v[i].frame
      <4>1. PICK k : k = LastOf(delivered)[1].frame
        BY Zenon
      <4>2. k < place.frame /\ \A i \in 1..Len(w) : Data(w[i]) => k < w[i].frame
        BY <1>6, <2>2, <3>1, <4>1, Zenon DEF IInv, Ahead
      <4>3. ASSUME NEW i \in 1..Len(v), Data(v[i]) PROVE k < v[i].frame
        <5>1. i # n + 1
          BY <1>5, <1>8, <2>1, <4>3
        <5>2. i \in 1..Len(w)
          BY <2>1, <5>1
        <5> QED
          BY <1>8, <4>2, <4>3, <5>2
      <4> QED
        BY <4>1, <4>2, <4>3, Zenon
    <3>2. ASSUME failures = 0
          PROVE  /\ Len(delivered) < place.frame
                 /\ \A k \in (Len(delivered) + 1)..place.frame :
                      (k < place.frame \/ place.at > 1) => \E j \in 1..Len(v) : v[j] = Byte(k, 1)
      <4>1. /\ Len(delivered) < place.frame
            /\ \A k \in (Len(delivered) + 1)..place.frame :
                 (k < place.frame \/ place.at > 1) => \E j \in 1..Len(w) : w[j] = Byte(k, 1)
        BY <1>6, <2>2, <3>2, Zenon DEF IInv, Ahead
      <4>2. \A j \in 1..Len(w) : j \in 1..Len(v) /\ v[j] = w[j]
        BY SMTT(30), <1>8, <2>1
      <4>3. ASSUME NEW k \in (Len(delivered) + 1)..place.frame, k < place.frame \/ place.at > 1
            PROVE  \E j \in 1..Len(v) : v[j] = Byte(k, 1)
        <5>1. PICK j \in 1..Len(w) : w[j] = Byte(k, 1)
          BY <4>1, <4>3, Zenon
        <5> QED
          BY <4>2, <5>1, Zenon
      <4> QED
        BY <4>1, <4>3, Zenon
    <3> QED
      BY <1>2, <3>1, <3>2, Zenon DEF Ahead, Data
  <2>3. boundary = "Silence" => Ahead(Stream)'
    BY <1>2, Zenon DEF Ahead
  <2> QED
    BY <1>7, <2>2, <2>3, Zenon DEF Ahead
<1> QED
  BY <1>2, <1>9, <1>10, <1>11, <1>12, <1>13, ReceiverKept, Zenon DEF IInv

LEMMA InitHolds ==
  ASSUME Init
  PROVE  IInv
<1>1. /\ boundary \in Boundaries /\ frames \in [1..NumFrames -> Frames[boundary]]
      /\ place = [frame |-> 1, at |-> 1] /\ noise = 0 /\ closed = FALSE
      /\ pipe = <<>> /\ buffer = <<>> /\ receiving = FALSE /\ phase = "idle" /\ searched = 0
      /\ delivered = <<>> /\ outcome = "none" /\ receives = 0 /\ failures = 0
  BY DEF Init
<1>2. place.frame = 1 /\ place.at = 1
  BY <1>1
<1>3. TypeOK
  <2>1. place \in [frame : 1..(NumFrames + 1), at : Nat \ {0}] /\ noise \in 0..MaxNoise
    BY <1>1, Bounds
  <2>2. pipe \in Seq(Bytes) /\ buffer \in Seq(Bytes) /\ delivered \in Seq(Seq(Bytes))
    <3>1. PICK T : T = Seq(Bytes)
      BY Zenon
    <3>2. pipe \in Seq(Bytes) /\ buffer \in Seq(Bytes) /\ delivered \in Seq(T)
      BY <1>1
    <3> QED
      BY <3>1, <3>2, Zenon
  <2>3. searched \in Nat /\ receives \in 0..MaxReceives /\ failures \in 0..MaxReceives
    <3>1. searched = 0 /\ receives = 0 /\ failures = 0
      BY <1>1
    <3> QED
      BY <3>1, Bounds
  <2>4. /\ closed \in BOOLEAN /\ receiving \in BOOLEAN /\ phase # "waiting"
        /\ phase \in {"idle", "waiting"}
        /\ outcome \in {"none", "adu", "length", "too_large", "eof", "severed", "io", "stalled",
                        "latched", "abandoned"}
    BY <1>1, Zenon
  <2> QED
    BY <1>1, <2>1, <2>2, <2>3, <2>4, Zenon DEF TypeOK
<1>4. PlaceKept
  BY SMTT(30), <1>2, <1>3, FrameFacts, Bounds DEF PlaceKept, Lengths
<1>5. Waiting
  BY <1>1 DEF Waiting
<1>6. BufferBounded
  BY <1>1, Bounds DEF BufferBounded
<1>7. Stream = <<>>
  BY <1>1 DEF Stream
<1>8. InOrder(Stream)
  BY <1>7 DEF InOrder, Genuine, Contiguous, Ascending, Upcoming
<1>9. FromStart(Stream)
  BY <1>2, <1>7 DEF FromStart
<1>10. Ahead(Stream)
  <2>1. delivered = <<>> /\ Len(delivered) = 0
    BY <1>1
  <2> QED
    BY <1>2, <2>1 DEF Ahead
<1>11. ExactFrames
  BY <1>1 DEF ExactFrames
<1>12. Aligned
  BY <1>1 DEF Aligned
<1> QED
  BY <1>3, <1>4, <1>5, <1>6, <1>8, <1>9, <1>10, <1>11, <1>12 DEF IInv

-----------------------------------------------------------------------------
(* What was returned and what is not yet cut are together what was sent.    *)

Sent(x) == x.at \in 1..frames[x.frame].len /\ Sooner(x, place)

\* What was returned was sent, and is in order.
Past(D) ==
  /\ \A a \in 1..Len(D) : \A i \in 1..Len(D[a]) : Data(D[a][i]) => Sent(D[a][i])
  /\ \A a, c \in 1..Len(D) : \A i \in 1..Len(D[a]), j \in 1..Len(D[c]) :
       Data(D[a][i]) /\ Data(D[c][j]) /\ (a < c \/ (a = c /\ i < j)) => Sooner(D[a][i], D[c][j])

\* What is not yet cut was sent after it.
Before(D, w) ==
  \A a \in 1..Len(D) : \A i \in 1..Len(D[a]), j \in 1..Len(w) :
    Data(D[a][i]) /\ Data(w[j]) => Sooner(D[a][i], w[j])

\* A byte is among what was returned, or not yet cut.
Among(x, D, w) ==
  \/ \E a \in 1..Len(D) : \E i \in 1..Len(D[a]) : D[a][i] = x
  \/ \E j \in 1..Len(w) : w[j] = x

\* Until a receive fails, every byte sent is.
Here(D, w) ==
  failures = 0 => \A k \in 1..NumFrames : \A n \in 1..frames[k].len :
    Sooner(Byte(k, n), place) => Among(Byte(k, n), D, w)

Kept == Past(delivered) /\ Before(delivered, Stream) /\ Here(delivered, Stream)

\* Kept, in a state that differs from this one in what was returned, what is not yet cut and
\* the count of failures.
LEMMA KeptThen ==
  ASSUME frames' = frames, place' = place, NEW E, E = delivered', NEW v, v = Stream',
         Past(E), Before(E, v),
         failures' = 0 => \A k \in 1..NumFrames : \A n \in 1..frames[k].len :
                            Sooner(Byte(k, n), place) => Among(Byte(k, n), E, v)
  PROVE  Kept'
<1>1. Past(E)' /\ Before(E, v)'
  <2>1. Before(E, v)'
    BY Zenon DEF Before, Sooner, Data
  <2>2. \A x : Sent(x) => Sent(x)'
    BY Zenon DEF Sent, Sooner
  <2> QED
    BY <2>1, <2>2, Zenon DEF Past, Sooner, Data
<1>2. Here(E, v)'
  BY Zenon DEF Here, Among, Byte, Sooner
<1>3. Past(delivered)' /\ Before(delivered, Stream)'
  BY <1>1, Zenon DEF Past, Before
<1>4. Here(delivered, Stream)'
  BY <1>2, Zenon DEF Here, Among
<1> QED
  BY <1>3, <1>4 DEF Kept

\* What a step of a receive does to the stream: bytes are dropped from its front, d of them, which
\* are none of a frame's unless a receive has failed, and the next n are returned.
TakenOff(w, v, d, n) ==
  /\ d + n <= Len(w) /\ Len(v) = Len(w) - (d + n)
  /\ \A i \in 1..Len(v) : v[i] = w[i + (d + n)]
  /\ failures' = 0 => failures = 0 /\ \A i \in 1..d : ~Data(w[i])
  /\ \/ n = 0 /\ delivered' = delivered
     \/ \E a \in Seq(Bytes) : /\ Len(a) = n /\ \A i \in 1..n : a[i] = w[d + i]
                              /\ delivered' = Append(delivered, a)

Shrinks ==
  frames' = frames /\ place' = place /\ \E d, n \in Nat : TakenOff(Stream, Stream', d, n)

\* Of a stream that has lost its first e bytes, the rest is where it was.
RestFrom(v, w, e) ==
  /\ \A j \in 1..Len(v) : j + e \in 1..Len(w) /\ j + e > e /\ v[j] = w[j + e]
  /\ \A j \in 1..Len(w) : j > e => \E i \in 1..Len(v) : v[i] = w[j]

LEMMA RestOfStream ==
  ASSUME NEW w \in Seq(Bytes), NEW e \in Nat, NEW v, Len(v) = Len(w) - e, e <= Len(w),
         \A i \in 1..Len(v) : v[i] = w[i + e]
  PROVE  RestFrom(v, w, e)
<1>1. PICK q \in Nat : q = Len(w) /\ Len(v) = q - e /\ e <= q
  BY LenNat, Zenon
<1>2. \A j \in 1..(q - e) : j + e \in 1..q /\ j + e > e
  BY <1>1
<1>3. ASSUME NEW j \in 1..q, j > e PROVE \E i \in 1..(q - e) : v[i] = w[j]
  <2>1. j - e \in 1..(q - e) /\ (j - e) + e = j
    BY <1>1, <1>3
  <2>2. v[j - e] = w[(j - e) + e]
    BY <1>1, <2>1, Zenon
  <2> QED
    BY <2>1, <2>2, Zenon
<1> QED
  BY <1>1, <1>2, <1>3, Zenon DEF RestFrom

\* Bytes are dropped.
LEMMA DropKeeps ==
  ASSUME IInv, Kept, frames' = frames, place' = place, delivered' = delivered, NEW d \in Nat,
         d <= Len(Stream), Len(Stream') = Len(Stream) - d,
         \A i \in 1..Len(Stream') : Stream'[i] = Stream[i + d],
         failures' = 0 => failures = 0 /\ \A i \in 1..d : ~Data(Stream[i])
  PROVE  Kept'
<1>1. PICK w \in Seq(Bytes) : w = Stream
  BY StreamFacts, Zenon
<1>2. PICK v : v = Stream'
  BY Zenon
<1>3. RestFrom(v, w, d)
  <2>1. d <= Len(w) /\ Len(v) = Len(w) - d /\ \A i \in 1..Len(v) : v[i] = w[i + d]
    BY <1>1, <1>2, Zenon
  <2> QED
    BY <2>1, RestOfStream, Zenon
<1>4. Past(delivered) /\ Before(delivered, w) /\ Here(delivered, w)
  BY <1>1, Zenon DEF Kept
<1>5. Before(delivered, v)
  BY <1>3, <1>4, Zenon DEF Before, RestFrom
<1>6. ASSUME failures' = 0, NEW k \in 1..NumFrames, NEW n \in 1..frames[k].len,
             Sooner(Byte(k, n), place)
      PROVE  Among(Byte(k, n), delivered, v)
  <2>1. Among(Byte(k, n), delivered, w)
    BY <1>4, <1>6, Zenon DEF Here
  <2>2. ASSUME NEW j \in 1..Len(w), w[j] = Byte(k, n) PROVE \E i \in 1..Len(v) : v[i] = Byte(k, n)
    <3>1. Data(w[j])
      <4>1. k # 0
        OBVIOUS
      <4>2. Byte(k, n).frame = k
        BY DEF Byte
      <4> QED
        BY <2>2, <4>1, <4>2, Zenon DEF Data
    <3>2. ~(j \in 1..d)
      BY <1>1, <1>6, <3>1, Zenon
    <3>3. j > d
      BY <3>2
    <3> QED
      BY <1>3, <2>2, <3>3, Zenon DEF RestFrom
  <2> QED
    BY <2>1, <2>2, Zenon DEF Among
<1> QED
  BY <1>2, <1>4, <1>5, <1>6, KeptThen, Zenon

\* Bytes are returned.
LEMMA TakeKeeps ==
  ASSUME IInv, Kept, frames' = frames, place' = place, NEW d \in Nat, NEW n \in Nat,
         d + n <= Len(Stream), Len(Stream') = Len(Stream) - (d + n),
         \A i \in 1..Len(Stream') : Stream'[i] = Stream[i + (d + n)],
         failures' = 0 => failures = 0 /\ \A i \in 1..d : ~Data(Stream[i]),
         NEW a \in Seq(Bytes), Len(a) = n, \A i \in 1..n : a[i] = Stream[d + i],
         delivered' = Append(delivered, a)
  PROVE  Kept'
<1>1. PICK w \in Seq(Bytes) : w = Stream /\ InOrder(w)
  BY StreamFacts, Zenon DEF IInv
<1>2. PICK v : v = Stream'
  BY Zenon
<1>3. PICK e \in Nat : e = d + n
  OBVIOUS
<1>4. RestFrom(v, w, e)
  <2>1. e <= Len(w) /\ Len(v) = Len(w) - e /\ \A i \in 1..Len(v) : v[i] = w[i + e]
    BY <1>1, <1>2, <1>3, Zenon
  <2> QED
    BY <2>1, RestOfStream, Zenon
<1>5. PICK D, m : D = delivered /\ m = Len(D) /\ m \in Nat
  <2>1. delivered \in Seq(Seq(Bytes))
    BY DEF IInv, TypeOK
  <2>2. Len(delivered) \in Nat
    BY <2>1, LenNat, Zenon
  <2> QED
    BY <2>2, Zenon
<1>6. PICK E : /\ E = delivered' /\ Len(E) = m + 1 /\ E[m + 1] = a
               /\ \A i \in 1..m : E[i] = D[i]
  <2>1. PICK T : T = Seq(Bytes)
    BY Zenon
  <2>2. D \in Seq(T) /\ a \in T
    BY <1>5, <2>1, Zenon DEF IInv, TypeOK
  <2>3. /\ Len(Append(D, a)) = Len(D) + 1
        /\ \A i \in 1..Len(D) : Append(D, a)[i] = D[i]
        /\ Append(D, a)[Len(D) + 1] = a
    BY SMTT(30), <2>2, AppendFacts
  <2> QED
    BY <1>5, <2>3, Zenon
<1>7. /\ \A c \in 1..Len(E) : c \in 1..m \/ c = m + 1
      /\ m + 1 \in 1..Len(E) /\ \A c \in 1..m : c \in 1..Len(E)
  BY SMTT(30), <1>5, <1>6
<1>8. \A i \in 1..n : d + i \in 1..Len(w) /\ a[i] = w[d + i] /\ d + i <= e
  <2>1. PICK q \in Nat : q = Len(w) /\ d + n <= q
    BY <1>1, LenNat, Zenon
  <2>2. \A i \in 1..n : d + i \in 1..q /\ d + i <= e
    BY <1>3, <2>1
  <2> QED
    BY <1>1, <2>1, <2>2, Zenon
<1>9. Past(D) /\ Before(D, w) /\ Here(D, w)
  BY <1>1, <1>5, Zenon DEF Kept
<1>10. \A i \in 1..n : Data(a[i]) => Sent(a[i])
  BY <1>1, <1>8, Zenon DEF InOrder, Genuine, Upcoming, Sent
<1>11. ASSUME NEW c \in 1..m, NEW i \in 1..Len(D[c]), NEW j \in 1..n, Data(D[c][i]), Data(a[j])
       PROVE  Sooner(D[c][i], a[j])
  <2>1. d + j \in 1..Len(w) /\ a[j] = w[d + j] /\ c \in 1..Len(D)
    BY <1>5, <1>8, Zenon
  <2> QED
    BY <1>9, <1>11, <2>1, Zenon DEF Before
<1>12. ASSUME NEW i \in 1..n, NEW j \in 1..n, i < j, Data(a[i]), Data(a[j]) PROVE Sooner(a[i], a[j])
  <2>1. d + i < d + j
    BY SMTT(30), <1>12
  <2> QED
    BY <1>1, <1>8, <1>12, <2>1, Zenon DEF InOrder, Ascending
<1>13. Past(E)
  <2>1. ASSUME NEW c \in 1..Len(E), NEW i \in 1..Len(E[c]), Data(E[c][i]) PROVE Sent(E[c][i])
    <3>1. CASE c \in 1..m
      BY <1>5, <1>6, <1>9, <2>1, <3>1, Zenon DEF Past
    <3>2. CASE c = m + 1
      BY <1>6, <1>10, <2>1, <3>2, Zenon
    <3> QED
      BY <1>7, <3>1, <3>2, Zenon
  <2>2. ASSUME NEW b \in 1..Len(E), NEW c \in 1..Len(E), NEW i \in 1..Len(E[b]),
               NEW j \in 1..Len(E[c]), Data(E[b][i]), Data(E[c][j]), b < c \/ (b = c /\ i < j)
        PROVE  Sooner(E[b][i], E[c][j])
    <3>1. CASE b \in 1..m /\ c \in 1..m
      <4>1. E[b] = D[b] /\ E[c] = D[c]
        BY <1>6, <3>1, Zenon
      <4> QED
        BY <1>5, <1>9, <2>2, <3>1, <4>1, Zenon DEF Past
    <3>2. CASE b \in 1..m /\ c = m + 1
      BY <1>6, <1>11, <2>2, <3>2, Zenon
    <3>3. CASE b = m + 1
      <4>0. m \in Nat /\ c \in 1..(m + 1)
        BY <1>5, <1>6, Zenon
      <4>1. ~(b < c)
        BY <3>3, <4>0
      <4>2. b = c /\ i < j
        BY <2>2, <4>1, Zenon
      <4> QED
        BY <1>6, <1>12, <2>2, <3>3, <4>2, ZenonT(30)
    <3> QED
      BY <1>7, <3>1, <3>2, <3>3, Zenon
  <2> QED
    BY <2>1, <2>2, Zenon DEF Past
<1>14. Before(E, v)
  <2>1. ASSUME NEW c \in 1..Len(E), NEW i \in 1..Len(E[c]), NEW j \in 1..Len(v), Data(E[c][i]),
               Data(v[j])
        PROVE  Sooner(E[c][i], v[j])
    <3>1. j + e \in 1..Len(w) /\ j + e > e /\ v[j] = w[j + e]
      BY <1>4, Zenon DEF RestFrom
    <3>2. CASE c \in 1..m
      BY <1>5, <1>6, <1>9, <2>1, <3>1, <3>2, Zenon DEF Before
    <3>3. CASE c = m + 1
      <4>1. i \in 1..n /\ E[c][i] = w[d + i] /\ d + i \in 1..Len(w) /\ d + i <= e
        BY <1>6, <1>8, <3>3, Zenon
      <4>2. d + i < j + e
        BY <3>1, <4>1
      <4> QED
        BY <1>1, <2>1, <3>1, <4>1, <4>2, Zenon DEF InOrder, Ascending
    <3> QED
      BY <1>7, <3>2, <3>3, Zenon
  <2> QED
    BY <2>1, Zenon DEF Before
<1>15. ASSUME failures' = 0, NEW k \in 1..NumFrames, NEW h \in 1..frames[k].len,
              Sooner(Byte(k, h), place)
       PROVE  Among(Byte(k, h), E, v)
  <2>1. Among(Byte(k, h), D, w)
    BY <1>9, <1>15, Zenon DEF Here
  <2>2. ASSUME NEW c \in 1..m, NEW i \in 1..Len(D[c]), D[c][i] = Byte(k, h)
        PROVE  Among(Byte(k, h), E, v)
    <3>1. c \in 1..Len(E) /\ E[c] = D[c]
      BY <1>6, <1>7, Zenon
    <3> QED
      BY <2>2, <3>1, Zenon DEF Among
  <2>3. ASSUME NEW j \in 1..Len(w), w[j] = Byte(k, h) PROVE Among(Byte(k, h), E, v)
    <3>1. Data(w[j])
      <4>1. Data(Byte(k, h))
        BY DEF Byte, Data
      <4> QED
        BY <2>3, <4>1, Zenon
    <3>2. ~(j \in 1..d)
      BY <1>1, <1>15, <3>1, Zenon
    <3>3. CASE j <= e
      <4>1. PICK i \in 1..n : d + i = j
        <5>1. j - d \in 1..n /\ d + (j - d) = j
          BY SMTT(30), <1>3, <3>2, <3>3
        <5> QED
          BY <5>1
      <4>2. i \in 1..Len(E[m + 1]) /\ E[m + 1][i] = Byte(k, h)
        BY <1>6, <1>8, <2>3, <4>1, Zenon
      <4> QED
        BY <1>7, <4>2, Zenon DEF Among
    <3>4. CASE j > e
      <4>1. PICK i \in 1..Len(v) : v[i] = w[j]
        BY <1>4, <3>4, Zenon DEF RestFrom
      <4> QED
        BY <2>3, <4>1, Zenon DEF Among
    <3>5. j <= e \/ j > e
      OBVIOUS
    <3> QED
      BY <3>3, <3>4, <3>5, Zenon
  <2> QED
    BY <1>5, <2>1, <2>2, <2>3, Zenon DEF Among
<1> QED
  BY <1>2, <1>6, <1>13, <1>14, <1>15, KeptThen, Zenon

LEMMA ShrinksKeeps ==
  ASSUME IInv, Kept, Shrinks
  PROVE  Kept'
<1>1. frames' = frames /\ place' = place
  BY DEF Shrinks
<1>2. PICK d, n \in Nat :
        /\ d + n <= Len(Stream) /\ Len(Stream') = Len(Stream) - (d + n)
        /\ \A i \in 1..Len(Stream') : Stream'[i] = Stream[i + (d + n)]
        /\ failures' = 0 => failures = 0 /\ \A i \in 1..d : ~Data(Stream[i])
        /\ \/ n = 0 /\ delivered' = delivered
           \/ \E a \in Seq(Bytes) : /\ Len(a) = n /\ \A i \in 1..n : a[i] = Stream[d + i]
                                    /\ delivered' = Append(delivered, a)
  BY Zenon DEF Shrinks, TakenOff
<1>3. CASE n = 0 /\ delivered' = delivered
  <2>1. d + n = d
    BY <1>3
  <2> QED
    BY <1>1, <1>2, <1>3, <2>1, DropKeeps, Zenon
<1>4. CASE delivered' # delivered \/ n # 0
  <2>1. PICK a \in Seq(Bytes) : /\ Len(a) = n /\ \A i \in 1..n : a[i] = Stream[d + i]
                                /\ delivered' = Append(delivered, a)
    BY <1>2, <1>4, Zenon
  <2> QED
    BY <1>1, <1>2, <2>1, TakeKeeps, Zenon
<1> QED
  BY <1>3, <1>4, Zenon

\* A byte of noise is heard.
LEMMA NoiseKeeps ==
  ASSUME IInv, Kept, LineNoise
  PROVE  Kept'
<1>1. /\ frames' = frames /\ place' = place /\ delivered' = delivered /\ failures' = failures
      /\ buffer' = buffer /\ boundary \in Boundaries
  BY DEF LineNoise, IInv, TypeOK
<1>2. PICK u \in NoiseBytes[boundary] : pipe' = Append(pipe, Noise(u))
  BY DEF LineNoise
<1>3. PICK x \in Bytes : x = Noise(u) /\ ~Data(x)
  <2>1. u \in {"data", "cr"}
    <3>1. NoiseBytes \in [Boundaries -> SUBSET {"data", "cr"}]
      BY TransportAssumption, Zenon
    <3> QED
      BY <1>1, <3>1
  <2>2. Noise(u) \in Bytes
    BY SMTT(30), <2>1, Bounds DEF Noise, Bytes
  <2>3. ~Data(Noise(u))
    BY DEF Noise, Data
  <2> QED
    BY <2>2, <2>3
<1>4. PICK w \in Seq(Bytes) : w = Stream
  BY StreamFacts, Zenon
<1>5. PICK v : v = Stream'
  BY Zenon
<1>6. Len(v) = Len(w) + 1 /\ (\A i \in 1..Len(w) : v[i] = w[i]) /\ v[Len(v)] = x
  BY <1>1, <1>2, <1>3, <1>4, <1>5, StreamGrows, Zenon
<1>7. /\ \A j \in 1..Len(v) : j \in 1..Len(w) \/ j = Len(v)
      /\ \A j \in 1..Len(w) : j \in 1..Len(v)
  <2>1. PICK q \in Nat : q = Len(w) /\ Len(v) = q + 1
    BY <1>6, LenNat, Zenon
  <2>2. (\A j \in 1..(q + 1) : j \in 1..q \/ j = q + 1) /\ \A j \in 1..q : j \in 1..(q + 1)
    OBVIOUS
  <2> QED
    BY <2>1, <2>2, Zenon
<1>8. PICK D : D = delivered /\ Past(D) /\ Before(D, w) /\ Here(D, w)
  BY <1>4, Zenon DEF Kept
<1>9. ASSUME NEW a \in 1..Len(D), NEW i \in 1..Len(D[a]), NEW j \in 1..Len(v), Data(D[a][i]), Data(v[j])
      PROVE  Sooner(D[a][i], v[j])
  <2>1. j \in 1..Len(w) /\ v[j] = w[j]
    BY <1>3, <1>6, <1>7, <1>9, Zenon
  <2> QED
    BY <1>8, <1>9, <2>1, Zenon DEF Before
<1>10. ASSUME failures' = 0, NEW k \in 1..NumFrames, NEW n \in 1..frames[k].len,
              Sooner(Byte(k, n), place)
       PROVE  Among(Byte(k, n), D, v)
  <2>1. Among(Byte(k, n), D, w)
    BY <1>1, <1>8, <1>10, Zenon DEF Here
  <2> QED
    BY <1>6, <1>7, <2>1, Zenon DEF Among
<1>11. Before(D, v)
  BY <1>9, Zenon DEF Before
<1> QED
  BY <1>1, <1>5, <1>8, <1>10, <1>11, KeptThen, Zenon

\* The peer's next byte is sent.
LEMMA SendKeeps ==
  ASSUME IInv, Kept, PeerSends
  PROVE  Kept'
<1>1. /\ TypeOK /\ PlaceKept /\ Lengths
      /\ place \in [frame : 1..(NumFrames + 1), at : Nat \ {0}] /\ place.frame <= NumFrames
      /\ pipe' = Append(pipe, Byte(place.frame, place.at))
      /\ place' = IF place.at < frames[place.frame].len
                  THEN [place EXCEPT !.at = @ + 1]
                  ELSE [frame |-> place.frame + 1, at |-> 1]
  BY FrameFacts, Zenon DEF IInv, TypeOK, PeerSends
<1>2. frames' = frames /\ delivered' = delivered /\ failures' = failures /\ buffer' = buffer
  BY DEF PeerSends
<1>3. /\ place.frame \in 1..NumFrames /\ frames[place.frame].len \in Nat
      /\ place.at <= frames[place.frame].len /\ place'.at \in Nat /\ place'.frame \in Nat
      /\ \/ /\ place.at < frames[place.frame].len
            /\ place'.frame = place.frame /\ place'.at = place.at + 1
         \/ /\ place.at = frames[place.frame].len
            /\ place'.frame = place.frame + 1 /\ place'.at = 1
  BY <1>1, NextPlace, Zenon
<1>4. place.at \in Nat /\ place.at >= 1 /\ place.frame \in Nat
  BY <1>1, PlaceFacts
<1>5. PICK x \in Bytes : /\ x = Byte(place.frame, place.at) /\ x.frame = place.frame
                         /\ x.at = place.at
  <2>1. Byte(place.frame, place.at) \in Bytes
    BY <1>3, <1>4, Bounds DEF Byte, Bytes
  <2>2. Byte(place.frame, place.at).frame = place.frame /\ Byte(place.frame, place.at).at = place.at
    BY DEF Byte
  <2> QED
    BY <2>1, <2>2, Zenon
<1>6. ASSUME NEW y \in Bytes, Sooner(y, place) PROVE Sooner(y, place)' /\ Sooner(y, x)
  <2>1. y.frame \in Nat /\ y.at \in Nat
    BY ByteFacts
  <2>2. y.frame < place.frame \/ (y.frame = place.frame /\ y.at < place.at)
    BY <1>6 DEF Sooner
  <2>3. y.frame < place'.frame \/ (y.frame = place'.frame /\ y.at < place'.at)
    BY SMTT(30), <1>3, <1>4, <2>1, <2>2
  <2> QED
    BY <1>5, <2>2, <2>3, Zenon DEF Sooner
<1>7. ASSUME NEW k \in 1..NumFrames, NEW n \in 1..frames[k].len, Sooner(Byte(k, n), place)'
      PROVE  Sooner(Byte(k, n), place) \/ Byte(k, n) = x
  <2>1. k \in Nat /\ n \in Nat /\ n >= 1 /\ frames[k].len \in Nat /\ n <= frames[k].len
    <3>1. frames[k].len \in Nat
      BY <1>1, Zenon DEF Lengths
    <3> QED
      BY <3>1, Bounds
  <2>2. k < place'.frame \/ (k = place'.frame /\ n < place'.at)
    BY <1>7 DEF Sooner, Byte
  <2>3. k = place.frame => frames[k].len = frames[place.frame].len
    OBVIOUS
  <2>4. k < place.frame \/ (k = place.frame /\ n < place.at) \/ (k = place.frame /\ n = place.at)
    BY SMTT(30), <1>3, <1>4, <2>1, <2>2, <2>3
  <2>5. k = place.frame /\ n = place.at => Byte(k, n) = x
    BY <1>5, Zenon
  <2>6. Byte(k, n).frame = k /\ Byte(k, n).at = n
    BY DEF Byte
  <2> QED
    BY <2>4, <2>5, <2>6, Zenon DEF Sooner
<1>8. PICK w \in Seq(Bytes) : w = Stream
  BY StreamFacts, Zenon
<1>9. PICK v : v = Stream'
  BY Zenon
<1>10. Len(v) = Len(w) + 1 /\ (\A i \in 1..Len(w) : v[i] = w[i]) /\ v[Len(v)] = x
  BY <1>1, <1>2, <1>5, <1>8, <1>9, StreamGrows, Zenon
<1>11. /\ \A j \in 1..Len(v) : j \in 1..Len(w) \/ j = Len(v)
       /\ Len(v) \in 1..Len(v) /\ \A j \in 1..Len(w) : j \in 1..Len(v)
  <2>1. PICK q \in Nat : q = Len(w) /\ Len(v) = q + 1
    BY <1>10, LenNat, Zenon
  <2>2. /\ \A j \in 1..(q + 1) : j \in 1..q \/ j = q + 1
        /\ q + 1 \in 1..(q + 1) /\ \A j \in 1..q : j \in 1..(q + 1)
    OBVIOUS
  <2> QED
    BY <2>1, <2>2, Zenon
<1>12. PICK D : D = delivered /\ Past(D) /\ Before(D, w) /\ Here(D, w)
  BY <1>8, Zenon DEF Kept
<1>13. \A a \in 1..Len(D) : \A i \in 1..Len(D[a]) : D[a][i] \in Bytes
  <2>1. PICK T : T = Seq(Bytes)
    BY Zenon
  <2>2. D \in Seq(T)
    BY <1>1, <1>12, <2>1, Zenon DEF TypeOK
  <2>3. \A a \in 1..Len(D) : D[a] \in T
    BY <2>2
  <2>4. \A s \in Seq(Bytes) : \A i \in 1..Len(s) : s[i] \in Bytes
    OBVIOUS
  <2> QED
    BY <2>1, <2>3, <2>4, Zenon
<1>14. ASSUME NEW a \in 1..Len(D), NEW i \in 1..Len(D[a]), Data(D[a][i])
       PROVE  Sent(D[a][i])' /\ Sooner(D[a][i], x)
  <2>1. PICK y \in Bytes : y = D[a][i]
    BY <1>13
  <2>2. y.at \in 1..frames[y.frame].len /\ Sooner(y, place)
    BY <1>12, <1>14, <2>1, Zenon DEF Past, Sent
  <2>3. Sooner(y, place)' /\ Sooner(y, x)
    BY <1>6, <2>2
  <2>4. Sent(y)'
    BY <1>2, <2>2, <2>3 DEF Sent
  <2> QED
    BY <2>1, <2>3, <2>4, Zenon DEF Sent, Sooner
<1>15. Past(delivered)'
  <2>1. \A a \in 1..Len(D) : \A i \in 1..Len(D[a]) : Data(D[a][i])' => Sent(D[a][i])'
    BY <1>14, Zenon DEF Data
  <2>2. \A a, c \in 1..Len(D) : \A i \in 1..Len(D[a]), j \in 1..Len(D[c]) :
          Data(D[a][i])' /\ Data(D[c][j])' /\ (a < c \/ (a = c /\ i < j)) => Sooner(D[a][i], D[c][j])'
    BY <1>12, Zenon DEF Past, Data, Sooner
  <2>3. Past(D)'
    BY <2>1, <2>2, Zenon DEF Past
  <2>4. D = delivered'
    BY <1>2, <1>12, Zenon
  <2> QED
    BY <2>3, <2>4, Zenon DEF Past
<1>16. Before(delivered, Stream)'
  <2>1. ASSUME NEW a \in 1..Len(D), NEW i \in 1..Len(D[a]), NEW j \in 1..Len(v), Data(D[a][i]),
               Data(v[j])
        PROVE  Sooner(D[a][i], v[j])
    <3>1. CASE j \in 1..Len(w)
      BY <1>10, <1>12, <2>1, <3>1, Zenon DEF Before
    <3>2. CASE j = Len(v)
      BY <1>10, <1>14, <2>1, <3>2, Zenon
    <3> QED
      BY <1>11, <3>1, <3>2, Zenon
  <2>2. Before(D, v)'
    BY <2>1, Zenon DEF Before, Data, Sooner
  <2> QED
    BY <1>2, <1>9, <1>12, <2>2, Zenon DEF Before
<1>17. Here(delivered, Stream)'
  <2>1. ASSUME failures = 0, NEW k \in 1..NumFrames, NEW n \in 1..frames[k].len,
               Sooner(Byte(k, n), place)'
        PROVE  Among(Byte(k, n), D, v)
    <3>1. CASE Sooner(Byte(k, n), place)
      <4>1. Among(Byte(k, n), D, w)
        BY <1>12, <2>1, <3>1, Zenon DEF Here
      <4> QED
        BY <1>10, <1>11, <4>1, Zenon DEF Among
    <3>2. CASE Byte(k, n) = x
      BY <1>10, <1>11, <3>2, Zenon DEF Among
    <3> QED
      BY <1>7, <2>1, <3>1, <3>2, Zenon
  <2>2. Here(D, v)'
    BY <1>2, <2>1, Zenon DEF Here, Among, Byte, Sooner
  <2> QED
    BY <1>2, <1>9, <1>12, <2>2, Zenon DEF Here, Among
<1> QED
  BY <1>15, <1>16, <1>17 DEF Kept

\* Nothing has been sent, returned or buffered.
LEMMA InitKept ==
  ASSUME Init
  PROVE  Kept
<1>1. /\ place = [frame |-> 1, at |-> 1] /\ pipe = <<>> /\ buffer = <<>> /\ delivered = <<>>
      /\ boundary \in Boundaries /\ frames \in [1..NumFrames -> Frames[boundary]]
  BY DEF Init
<1>2. Past(delivered) /\ Before(delivered, Stream)
  BY <1>1 DEF Past, Before
<1>3. ASSUME NEW k \in 1..NumFrames, NEW n \in 1..frames[k].len PROVE ~Sooner(Byte(k, n), place)
  <2>1. k \in Nat /\ k >= 1
    BY Bounds
  <2>2. frames[k].len \in Nat
    BY InitHolds, FrameFacts DEF IInv, Lengths
  <2>3. n \in Nat /\ n >= 1
    BY <2>2
  <2> QED
    BY <1>1, <2>1, <2>3 DEF Sooner, Byte
<1> QED
  BY <1>2, <1>3, Zenon DEF Kept, Here

-----------------------------------------------------------------------------
(* The end of a step of a receive, with b the front of the stream.          *)

\* What a rule may rely on.
StreamFront(b) ==
  /\ Genuine(b) /\ Contiguous(b) /\ Ascending(b)
  /\ ~SelfLocating => /\ \A i \in 1..Len(b) : Data(b[i])
                      /\ b # <<>> => b[1].at = 1

\* The search begins before the terminator.
Sought(b, s) ==
  /\ s \in Nat
  /\ boundary = "Delimited" /\ b # <<>> => (Starts(b[1]) => s + 2 <= frames[b[1].frame].len)

\* What a rule does: it drops bytes d that begin no frame, and then waits, takes a frame or fails.
Drops(b, d) == (\A i \in 1..d : ~Starts(b[i])) /\ (boundary # "Delimited" => d = 0)

Waits(b, r) ==
  \E d \in 0..Len(b) :
    /\ Drops(b, d) /\ r.buffer = SubSeq(b, d + 1, Len(b)) /\ Partial(r.buffer, r.searched)

Takes(b, r) ==
  \E d \in 0..Len(b) : \E k \in 1..NumFrames :
    /\ Drops(b, d) /\ d + frames[k].len <= Len(b)
    /\ b[d + 1] = Byte(k, 1) /\ r.adu = Whole(k)
    /\ r.buffer = SubSeq(b, d + frames[k].len + 1, Len(b))

GivesUp(b, r) ==
  /\ r.why \in {"length", "too_large", "eof", "severed", "io", "stalled"}
  /\ ~SelfLocating => r.buffer = b

Cuts(b, r) ==
  \/ r.is = "more" /\ Waits(b, r)
  \/ r.is = "adu" /\ Takes(b, r) /\ r.searched = 0 /\ boundary # "Silence"
  \/ r.is = "fail" /\ GivesUp(b, r) /\ r.searched = 0

\* A receive that has b to work on, of the stream as it was.
Gathered(b) ==
  /\ IInv /\ UNCHANGED peerVars
  /\ b \in Seq(Bytes) /\ pipe' \in Seq(Bytes) /\ b \o pipe' = Stream
  /\ Len(b) < MaxAduLen + ReadChunk
  /\ receives' \in 0..MaxReceives /\ failures < receives'

\* What it leaves when it takes e bytes off the front.
LEMMA Leaves ==
  ASSUME NEW b, Gathered(b), NEW e \in 0..Len(b), buffer' = SubSeq(b, e + 1, Len(b)),
         ~SelfLocating => e = 0 \/ (Data(Stream[e]) /\ Ends(Stream[e]))
  PROVE  /\ buffer' \in Seq(Bytes) /\ Stream \in Seq(Bytes) /\ Stream' \in Seq(Bytes)
         /\ e \in 0..Len(Stream) /\ Len(Stream') = Len(Stream) - e
         /\ \A i \in 1..Len(Stream') : Stream'[i] = Stream[i + e]
         /\ BufferBounded' /\ InOrder(Stream)' /\ FromStart(Stream)' /\ PlaceKept'
         /\ ~SelfLocating /\ buffer' # <<>> => buffer'[1].at = 1
<1>1. /\ b \in Seq(Bytes) /\ pipe' \in Seq(Bytes) /\ InOrder(Stream) /\ FromStart(Stream)
      /\ b \o pipe' = Stream /\ Len(b) < MaxAduLen + ReadChunk /\ PlaceKept
      /\ boundary' = boundary /\ frames' = frames /\ place' = place
  BY DEF Gathered, IInv, peerVars
<1>2. PICK w : w = Stream
  BY Zenon
<1>3. PICK v : v = Stream'
  BY Zenon
<1>4. PICK n \in Nat, m \in Nat : n = Len(b) /\ m = Len(pipe')
  BY <1>1
<1>5. /\ w \in Seq(Bytes) /\ Len(w) = n + m
      /\ \A i \in 1..n : w[i] = b[i]
  BY <1>1, <1>2, <1>4, JoinFacts, Zenon
<1>6. v = SubSeq(w, e + 1, Len(w))
  <2>1. v = SubSeq(b, e + 1, Len(b)) \o pipe'
    BY <1>3 DEF Stream
  <2>2. SubSeq(b, e + 1, Len(b)) \o pipe' = SubSeq(b \o pipe', e + 1, Len(b \o pipe'))
    BY <1>1, CutJoins, Zenon
  <2> QED
    BY <1>1, <1>2, <2>1, <2>2, Zenon
<1>7. e \in 0..Len(w) /\ e \in 0..n
  BY <1>4, <1>5
<1>8. v \in Seq(Bytes) /\ Len(v) = Len(w) - e /\ \A i \in 1..(Len(w) - e) : v[i] = w[i + e]
  BY <1>5, <1>6, <1>7, DropFacts
<1>9. \A i \in 1..Len(v) : v[i] = w[i + e]
  BY <1>8
<1>10. buffer' \in Seq(Bytes) /\ Len(buffer') = n - e /\ \A i \in 1..(n - e) : buffer'[i] = b[i + e]
  BY <1>1, <1>4, DropFacts
<1>11. BufferBounded'
  <2>1. n < MaxAduLen + ReadChunk /\ Len(buffer') \in Nat /\ Len(buffer') <= n
    BY <1>1, <1>4, <1>7, <1>10
  <2> QED
    BY SMTT(30), <1>4, <2>1, Bounds DEF BufferBounded
<1>12. InOrder(Stream)'
  <2>1. InOrder(v)
    <3>1. InOrder(w) /\ w \in Seq(Bytes) /\ v \in Seq(Bytes) /\ Len(v) = Len(w) - e
      BY <1>1, <1>2, <1>5, <1>8, Zenon
    <3> QED
      BY <1>7, <1>9, <3>1, DropKeepsOrder, Zenon
  <2>2. InOrder(v)'
    BY <1>1, <2>1, Zenon DEF InOrder, Genuine, Contiguous, Ascending, Upcoming, Data, Ends, Sooner, Byte
  <2>3. Genuine(Stream)' /\ Contiguous(Stream)'
    BY <1>3, <2>2, Zenon DEF InOrder, Genuine, Contiguous
  <2>4. Ascending(Stream)' /\ Upcoming(Stream)'
    BY <1>3, <2>2, Zenon DEF InOrder, Ascending, Upcoming
  <2> QED
    BY <2>3, <2>4 DEF InOrder
<1>13. ASSUME ~SelfLocating
       PROVE  /\ \A i \in 1..Len(v) : Data(v[i])
              /\ v = <<>> => place.at = 1
              /\ v # <<>> => v[1].at = 1
  <2>1. /\ \A i \in 1..Len(w) : Data(w[i])
        /\ w = <<>> => place.at = 1
        /\ w # <<>> => w[1].at = 1
    BY <1>1, <1>2, <1>13 DEF FromStart
  <2>2. ASSUME NEW i \in 1..Len(v) PROVE Data(v[i])
    <3>1. i + e \in 1..Len(w)
      BY SMTT(30), <1>5, <1>7, <1>8
    <3> QED
      BY <1>9, <2>1, <3>1
  <2>3. CASE e = 0
    <3>1. v = w
      BY SMTT(30), <1>5, <1>6, <2>3, WholeSequence
    <3> QED
      BY <2>1, <3>1
  <2>4. CASE e # 0
    <3>1. Data(w[e]) /\ Ends(w[e]) /\ e \in 1..Len(w)
      BY SMTT(30), <1>2, <1>5, <1>7, <1>13, <2>4
    <3>2. ASSUME v # <<>> PROVE v[1].at = 1
      <4>1. 1 \in 1..Len(v) /\ e \in 1..(Len(w) - 1) /\ e + 1 \in 1..Len(w) /\ 1 + e = e + 1
        BY SMTT(30), <1>5, <1>7, <1>8, <2>4, <3>2
      <4>2. v[1] = w[e + 1] /\ Data(w[e + 1])
        BY <1>9, <2>1, <4>1
      <4>3. w[e + 1].at = 1
        BY <1>1, <1>2, <3>1, <4>1, <4>2 DEF InOrder, Ascending
      <4> QED
        BY <4>2, <4>3
    <3>3. ASSUME v = <<>> PROVE place.at = 1
      <4>1. e = Len(w) /\ w # <<>>
        BY <1>5, <1>7, <1>8, <3>1, <3>3
      <4> QED
        BY <1>1, <1>2, <3>1, <4>1 DEF InOrder, Upcoming
    <3> QED
      BY <2>2, <3>2, <3>3
  <2> QED
    BY <2>2, <2>3, <2>4
<1>14. FromStart(Stream)'
  <2>1. v = Stream' /\ (SelfLocating' <=> SelfLocating)
    BY <1>1, <1>3 DEF SelfLocating
  <2> QED
    BY <1>1, <1>13, <2>1 DEF FromStart, Data
<1>15. PlaceKept'
  BY <1>1 DEF PlaceKept
<1>16. ASSUME ~SelfLocating, buffer' # <<>> PROVE buffer'[1].at = 1
  <2>1. 1 \in 1..(n - e) /\ 1 + e \in 1..n /\ 1 \in 1..Len(v) /\ v # <<>>
    BY SMTT(30), <1>4, <1>5, <1>7, <1>8, <1>10, <1>16
  <2>2. buffer'[1] = w[1 + e] /\ v[1] = w[1 + e]
    BY <1>5, <1>9, <1>10, <2>1
  <2> QED
    BY <1>13, <1>16, <2>1, <2>2
<1> QED
  BY <1>2, <1>3, <1>5, <1>7, <1>8, <1>9, <1>10, <1>11, <1>12, <1>14, <1>15, <1>16, Zenon

LEMMA TypeKept ==
  ASSUME NEW b, Gathered(b), buffer' \in Seq(Bytes), receiving' \in BOOLEAN,
         phase' \in {"idle", "waiting"}, phase' = "waiting" => receiving', searched' \in Nat,
         delivered' \in Seq(Seq(Bytes)), failures' \in Nat, failures' <= receives',
         outcome' \in {"none", "adu", "length", "too_large", "eof", "severed", "io", "stalled",
                       "latched", "abandoned"}
  PROVE  TypeOK'
<1>1. /\ boundary' = boundary /\ frames' = frames /\ place' = place /\ noise' = noise
      /\ closed' = closed /\ TypeOK /\ pipe' \in Seq(Bytes) /\ receives' \in 0..MaxReceives
  BY DEF Gathered, IInv, peerVars
<1>2. failures' \in 0..MaxReceives
  BY SMTT(30), <1>1, Bounds
<1>3. /\ boundary' \in Boundaries /\ frames' \in [1..NumFrames -> Frames[boundary']]
      /\ place' \in [frame : 1..(NumFrames + 1), at : Nat \ {0}]
      /\ noise' \in 0..MaxNoise /\ closed' \in BOOLEAN
  BY <1>1, Zenon DEF TypeOK
<1> QED
  BY <1>1, <1>2, <1>3, Zenon DEF TypeOK

LEMMA OnlyDrops ==
  ASSUME frames' = frames, place' = place, delivered' = delivered, Stream \in Seq(Bytes),
         NEW d \in 0..Len(Stream), Len(Stream') = Len(Stream) - d,
         \A i \in 1..Len(Stream') : Stream'[i] = Stream[i + d],
         failures' = 0 => failures = 0 /\ \A i \in 1..d : ~Data(Stream[i])
  PROVE  Shrinks
<1>1. PICK w, v : w = Stream /\ v = Stream'
  BY Zenon
<1>2. PICK q \in Nat : q = Len(w) /\ d \in 0..q /\ Len(v) = q - d
  BY <1>1, LenNat, Zenon
<1>3. d \in Nat /\ 0 \in Nat /\ d + 0 = d /\ d + 0 <= q /\ Len(v) = q - (d + 0)
  BY <1>2
<1>4. \A i \in 1..Len(v) : v[i] = w[i + (d + 0)]
  BY <1>1, <1>3, Zenon
<1> QED
  BY <1>1, <1>2, <1>3, <1>4, Zenon DEF Shrinks, TakenOff

\* Until a receive fails, bytes in front of the next frame's first belong to no frame.
LEMMA NoneOfAFrame ==
  ASSUME IInv, boundary # "Silence", failures = 0, NEW w, w = Stream, w \in Seq(Bytes),
         NEW d \in 0..Len(w), \A i \in 1..d : ~Starts(w[i])
  PROVE  \A i \in 1..d : ~Data(w[i])
<1>1. TypeOK /\ InOrder(w) /\ Ahead(w) /\ ExactFrames
  BY Zenon DEF IInv
<1>2. PICK q \in Nat : q = Len(w) /\ d \in 0..q
  BY LenNat, Zenon
<1> SUFFICES ASSUME NEW i \in 1..d, Data(w[i]) PROVE FALSE
  BY Zenon
<1>3. i \in 1..q /\ i <= d
  BY <1>2
<1>4. PICK x \in Bytes : x = w[i]
  BY <1>2, <1>3
<1>5. PICK k \in 1..NumFrames : k = x.frame
  BY <1>4, ByteFacts
<1>6. x.at \in Nat /\ x.at >= 1
  <2>1. x.at \in 1..frames[x.frame].len
    BY <1>1, <1>2, <1>3, <1>4, Zenon DEF InOrder, Genuine
  <2>2. frames[k].len \in Nat
    BY <1>1, FrameFacts, Zenon DEF Lengths
  <2> QED
    BY SMTT(30), <1>5, <2>1, <2>2
<1>7. k < place.frame \/ (k = place.frame /\ x.at < place.at)
  <2>1. Sooner(x, place)
    BY <1>1, <1>2, <1>3, <1>4, Zenon DEF InOrder, Upcoming
  <2> QED
    BY <1>5, <2>1, Zenon DEF Sooner
<1>8. place.frame \in Nat /\ place.at \in Nat
  BY <1>1, PlaceFacts DEF TypeOK
<1>9. PICK m \in Nat : m = Len(delivered) /\ delivered \in Seq(Seq(Bytes)) /\ DOMAIN delivered = 1..m
  <2>1. delivered \in Seq(Seq(Bytes))
    BY <1>1 DEF TypeOK
  <2> QED
    BY SMTT(30), <2>1
<1>10. m < k
  <2>1. CASE m = 0
    BY <2>1
  <2>2. CASE m # 0
    <3>1. delivered # <<>> /\ m \in DOMAIN delivered
      BY SMTT(30), <1>9, <2>2
    <3>2. delivered[m][1].frame = m
      BY <1>1, <3>1, Zenon DEF ExactFrames
    <3>3. LastOf(delivered)[1].frame < k
      BY <1>1, <1>2, <1>3, <1>4, <1>5, <3>1, Zenon DEF Ahead
    <3> QED
      BY <1>9, <3>2, <3>3, Zenon DEF LastOf
  <2> QED
    BY <2>1, <2>2
<1>11. k \in (m + 1)..place.frame /\ (k < place.frame \/ place.at > 1)
  BY SMTT(30), <1>6, <1>7, <1>8, <1>10
<1>12. PICK j \in 1..q : w[j] = Byte(k, 1)
  BY <1>1, <1>2, <1>9, <1>11, Zenon DEF Ahead
<1>13. PICK y : y = w[j] /\ y.frame = k /\ y.at = 1 /\ Data(y) /\ Starts(y)
  <2>1. PICK y : y = Byte(k, 1)
    BY Zenon
  <2>2. y.frame = k /\ y.at = 1 /\ Data(y) /\ Starts(y)
    BY <2>1 DEF Byte, Data, Starts
  <2> QED
    BY <1>12, <2>1, <2>2, Zenon
<1>14. ~(j \in 1..d)
  BY <1>13, Zenon
<1>15. i < j
  BY SMTT(30), <1>3, <1>14
<1>16. Sooner(x, y)
  BY <1>1, <1>2, <1>3, <1>4, <1>13, <1>15, Zenon DEF InOrder, Ascending
<1> QED
  BY SMTT(30), <1>5, <1>6, <1>13, <1>16 DEF Sooner

\* Bytes that begin no frame may be dropped, and after a failure any.
LEMMA AheadDrops ==
  ASSUME NEW w \in Seq(Bytes), NEW v \in Seq(Bytes), NEW e \in 0..Len(w), Len(v) = Len(w) - e,
         \A i \in 1..Len(v) : v[i] = w[i + e], Ahead(w), boundary' = boundary, place' = place,
         delivered' = delivered, delivered \in Seq(Seq(Bytes)),
         failures' = 0 => failures = 0 /\ \A i \in 1..e : ~Starts(w[i])
  PROVE  Ahead(v)'
<1> SUFFICES ASSUME boundary # "Silence" PROVE Ahead(v)'
  BY DEF Ahead
<1>1. Len(w) \in Nat /\ \A i \in 1..Len(v) : i + e \in 1..Len(w)
  BY SMTT(30)
<1>2. ASSUME delivered # <<>>
      PROVE  /\ LastOf(delivered)[1].frame < place.frame
             /\ \A i \in 1..Len(v) : Data(v[i]) => LastOf(delivered)[1].frame < v[i].frame
  <2>1. /\ LastOf(delivered)[1].frame < place.frame
        /\ \A i \in 1..Len(w) : Data(w[i]) => LastOf(delivered)[1].frame < w[i].frame
    BY <1>2, Zenon DEF Ahead
  <2>2. ASSUME NEW i \in 1..Len(v), Data(v[i]) PROVE LastOf(delivered)[1].frame < v[i].frame
    <3>1. i + e \in 1..Len(w) /\ v[i] = w[i + e]
      BY <1>1
    <3> QED
      BY <2>1, <2>2, <3>1, Zenon
  <2> QED
    BY <2>1, <2>2, Zenon
<1>3. ASSUME failures' = 0
      PROVE  /\ Len(delivered) < place.frame
             /\ \A k \in (Len(delivered) + 1)..place.frame :
                  (k < place.frame \/ place.at > 1) => \E j \in 1..Len(v) : v[j] = Byte(k, 1)
  <2>1. /\ Len(delivered) < place.frame
        /\ \A k \in (Len(delivered) + 1)..place.frame :
             (k < place.frame \/ place.at > 1) => \E j \in 1..Len(w) : w[j] = Byte(k, 1)
    BY <1>3 DEF Ahead
  <2>2. ASSUME NEW k \in (Len(delivered) + 1)..place.frame, k # 0, NEW j \in 1..Len(w),
               w[j] = Byte(k, 1)
        PROVE  \E i \in 1..Len(v) : v[i] = Byte(k, 1)
    <3>1. Starts(w[j])
      <4>1. PICK x : x = w[j]
        BY Zenon
      <4>2. x.frame = k /\ x.at = 1
        BY SMTT(30), <2>2, <4>1 DEF Byte
      <4> QED
        BY <2>2, <4>1, <4>2 DEF Starts, Data
    <3>2. j > e
      BY SMTT(30), <1>1, <1>3, <3>1
    <3>3. PICK i \in 1..Len(v) : i + e = j
      <4>1. j - e \in 1..Len(v) /\ (j - e) + e = j
        BY <1>1, <3>2
      <4> QED
        BY <4>1
    <3>4. v[i] = w[i + e]
      BY <3>3
    <3> QED
      BY <2>2, <3>3, <3>4, Zenon
  <2>3. \A k \in (Len(delivered) + 1)..place.frame : k # 0
    <3>1. Len(delivered) \in Nat
      OBVIOUS
    <3> QED
      BY <3>1
  <2> QED
    BY <2>1, <2>2, <2>3, Zenon
<1> QED
  BY <1>2, <1>3 DEF Ahead, Data

\* The receive waits for more.
LEMMA SettleWaits ==
  ASSUME NEW b, Gathered(b), NEW r, r.is = "more", Waits(b, r), Settle(r)
  PROVE  IInv' /\ Shrinks
<1>1. /\ IInv /\ TypeOK /\ boundary' = boundary /\ frames' = frames /\ place' = place
      /\ closed' = closed /\ b \in Seq(Bytes) /\ pipe' \in Seq(Bytes) /\ b \o pipe' = Stream
      /\ receives' \in 0..MaxReceives /\ failures < receives'
  BY DEF Gathered, IInv, peerVars
<1>2. /\ searched' = r.searched /\ phase' = "waiting" /\ receiving' = TRUE /\ buffer' = r.buffer
      /\ delivered' = delivered /\ outcome' = outcome /\ failures' = failures
  BY Zenon DEF Settle
<1>3. PICK d \in 0..Len(b) :
        Drops(b, d) /\ r.buffer = SubSeq(b, d + 1, Len(b)) /\ Partial(r.buffer, r.searched)
  BY DEF Waits
<1>4. boundary \in {"Prefixed", "Delimited", "Silence", "ContentLength"}
  BY <1>1, TransportAssumption, Zenon DEF TypeOK
<1>5. ~SelfLocating => d = 0
  BY <1>3, <1>4 DEF Drops, SelfLocating
<1>6. /\ buffer' \in Seq(Bytes) /\ Stream \in Seq(Bytes) /\ Stream' \in Seq(Bytes)
      /\ d \in 0..Len(Stream) /\ Len(Stream') = Len(Stream) - d
      /\ \A i \in 1..Len(Stream') : Stream'[i] = Stream[i + d]
      /\ BufferBounded' /\ InOrder(Stream)' /\ FromStart(Stream)' /\ PlaceKept'
      /\ ~SelfLocating /\ buffer' # <<>> => buffer'[1].at = 1
  BY <1>2, <1>3, <1>5, Leaves, Zenon
<1>7. failures' \in Nat /\ failures' <= receives' /\ receives' \in Nat
  BY SMTT(30), <1>1, <1>2, Bounds DEF TypeOK
<1>8. TypeOK'
  <2>1. searched' \in Nat
    BY <1>2, <1>3 DEF Partial
  <2>2. receiving' \in BOOLEAN /\ phase' \in {"idle", "waiting"} /\ (phase' = "waiting" => receiving')
    BY <1>2
  <2>3. /\ delivered' \in Seq(Seq(Bytes))
        /\ outcome' \in {"none", "adu", "length", "too_large", "eof", "severed", "io", "stalled",
                         "latched", "abandoned"}
    BY <1>1, <1>2, Zenon DEF TypeOK
  <2> QED
    BY <1>6, <1>7, <2>1, <2>2, <2>3, TypeKept, Zenon
<1>9. Waiting'
  <2>1. Partial(buffer, searched)'
    BY <1>1, <1>2, <1>3, Zenon DEF Partial, Starts, Data
  <2>2. failures' <= receives' /\ failures' < receives'
    BY <1>1, <1>2, <1>7
  <2> QED
    BY <2>1, <2>2 DEF Waiting
<1>10. Ahead(Stream)'
  <2>1. PICK w : w = Stream
    BY Zenon
  <2>2. PICK v : v = Stream'
    BY Zenon
  <2>3. \A i \in 1..d : ~Starts(w[i])
    <3>1. \A i \in 1..Len(b) : w[i] = b[i]
      BY <1>1, <2>1, JoinFacts, Zenon
    <3>2. \A i \in 1..d : i \in 1..Len(b)
      BY <1>1
    <3> QED
      BY <1>3, <3>1, <3>2 DEF Drops
  <2>4. Ahead(w) /\ delivered \in Seq(Seq(Bytes))
    BY <1>1, <2>1, Zenon DEF IInv, TypeOK
  <2>5. Ahead(v)'
    <3>1. /\ w \in Seq(Bytes) /\ v \in Seq(Bytes) /\ d \in 0..Len(w) /\ Len(v) = Len(w) - d
          /\ \A i \in 1..Len(v) : v[i] = w[i + d]
      BY <1>6, <2>1, <2>2, Zenon
    <3>2. failures' = 0 => failures = 0
      BY <1>2
    <3> QED
      BY <1>1, <1>2, <2>3, <2>4, <3>1, <3>2, AheadDrops, Zenon
  <2> QED
    BY <2>2, <2>5, Zenon DEF Ahead
<1>11. ExactFrames'
  BY <1>1, <1>2, Zenon DEF ExactFrames, IInv, Whole, Byte
<1>12. Aligned'
  <2>1. SelfLocating' <=> SelfLocating
    BY <1>1 DEF SelfLocating
  <2> QED
    BY <1>2, <1>6, <2>1 DEF Aligned
<1>13. Shrinks
  <2>1. ASSUME failures = 0 PROVE \A i \in 1..d : ~Data(Stream[i])
    <3>1. CASE boundary = "Silence"
      BY SMTT(30), <1>3, <3>1 DEF Drops
    <3>2. CASE boundary # "Silence"
      <4>1. \A i \in 1..Len(b) : Stream[i] = b[i]
        BY <1>1, JoinFacts, Zenon
      <4>2. \A i \in 1..d : i \in 1..Len(b)
        BY SMTT(30), <1>1
      <4>3. \A i \in 1..d : ~Starts(Stream[i])
        BY <1>3, <4>1, <4>2, Zenon DEF Drops
      <4> QED
        BY <1>1, <1>6, <2>1, <3>2, <4>3, NoneOfAFrame, Zenon
    <3> QED
      BY <3>1, <3>2, Zenon
  <2> QED
    BY <1>1, <1>2, <1>6, <2>1, OnlyDrops, Zenon
<1> QED
  BY <1>6, <1>8, <1>9, <1>10, <1>11, <1>12, <1>13, Zenon DEF IInv

\* The receive fails.
LEMMA SettleGivesUp ==
  ASSUME NEW b, Gathered(b), NEW r, r.is = "fail", GivesUp(b, r), r.searched = 0, Settle(r)
  PROVE  IInv' /\ Shrinks
<1>1. /\ IInv /\ TypeOK /\ boundary' = boundary /\ frames' = frames /\ place' = place
      /\ closed' = closed /\ b \in Seq(Bytes) /\ pipe' \in Seq(Bytes) /\ b \o pipe' = Stream
      /\ receives' \in 0..MaxReceives /\ failures < receives'
  BY DEF Gathered, IInv, peerVars
<1>2. /\ searched' = 0 /\ phase' = "idle" /\ ~receiving' /\ receiving' \in BOOLEAN
      /\ delivered' = delivered /\ outcome' = r.why /\ failures' = failures + 1
      /\ SelfLocating => buffer' = <<>>
      /\ ~SelfLocating => buffer' = b
  <2>1. r.is # "more" /\ r.is # "adu" /\ r.is = "fail" /\ (~SelfLocating => r.buffer = b)
    BY DEF GivesUp
  <2> QED
    BY <2>1, Zenon DEF Settle
<1>3. PICK e \in 0..Len(b) : buffer' = SubSeq(b, e + 1, Len(b)) /\ (~SelfLocating => e = 0)
  <2>1. Len(b) \in Nat
    BY <1>1
  <2>2. CASE SelfLocating
    <3>1. Len(b) \in 0..Len(b) /\ Len(b) + 1 \in Int /\ Len(b) \in Int /\ Len(b) < Len(b) + 1
      BY <2>1
    <3>2. SubSeq(b, Len(b) + 1, Len(b)) = <<>>
      BY <3>1, NoSequence
    <3> QED
      BY <1>2, <2>2, <3>1, <3>2
  <2>3. CASE ~SelfLocating
    <3>1. SubSeq(b, 1, Len(b)) = b
      BY <1>1, WholeSequence
    <3>2. 0 \in 0..Len(b) /\ 0 + 1 = 1
      BY <2>1
    <3> QED
      BY <1>2, <2>3, <3>1, <3>2
  <2> QED
    BY <2>2, <2>3
<1>6. /\ buffer' \in Seq(Bytes) /\ Stream \in Seq(Bytes) /\ Stream' \in Seq(Bytes)
      /\ e \in 0..Len(Stream) /\ Len(Stream') = Len(Stream) - e
      /\ \A i \in 1..Len(Stream') : Stream'[i] = Stream[i + e]
      /\ BufferBounded' /\ InOrder(Stream)' /\ FromStart(Stream)' /\ PlaceKept'
      /\ ~SelfLocating /\ buffer' # <<>> => buffer'[1].at = 1
  BY <1>3, Leaves, Zenon
<1>7. failures' \in Nat /\ failures' <= receives' /\ receives' \in Nat /\ failures' # 0
  BY SMTT(30), <1>1, <1>2, Bounds DEF TypeOK
<1>8. TypeOK'
  <2>1. searched' \in Nat
    BY <1>2
  <2>2. receiving' \in BOOLEAN /\ phase' \in {"idle", "waiting"} /\ (phase' = "waiting" => receiving')
    BY <1>2
  <2>3. outcome' \in {"none", "adu", "length", "too_large", "eof", "severed", "io", "stalled",
                      "latched", "abandoned"}
    BY <1>2 DEF GivesUp
  <2>4. delivered' \in Seq(Seq(Bytes))
    BY <1>1, <1>2, Zenon DEF TypeOK
  <2> QED
    BY <1>6, <1>7, <2>1, <2>2, <2>3, <2>4, TypeKept, Zenon
<1>9. Waiting'
  BY <1>2, <1>7 DEF Waiting
<1>10. Ahead(Stream)'
  <2>1. PICK w : w = Stream
    BY Zenon
  <2>2. PICK v : v = Stream'
    BY Zenon
  <2>4. Ahead(w) /\ delivered \in Seq(Seq(Bytes))
    BY <1>1, <2>1, Zenon DEF IInv, TypeOK
  <2>5. Ahead(v)'
    <3>1. /\ w \in Seq(Bytes) /\ v \in Seq(Bytes) /\ e \in 0..Len(w) /\ Len(v) = Len(w) - e
          /\ \A i \in 1..Len(v) : v[i] = w[i + e]
      BY <1>6, <2>1, <2>2, Zenon
    <3> QED
      BY <1>1, <1>2, <1>7, <2>4, <3>1, AheadDrops, Zenon
  <2> QED
    BY <2>2, <2>5, Zenon DEF Ahead
<1>11. ExactFrames'
  <2>1. ASSUME boundary # "Silence", NEW j \in DOMAIN delivered
        PROVE  /\ delivered[j] # <<>> /\ delivered[j][1].frame # 0
               /\ delivered[j] = Whole(delivered[j][1].frame)
               /\ j > 1 => delivered[j][1].frame > delivered[j - 1][1].frame
    BY <1>1, <2>1, Zenon DEF ExactFrames, IInv
  <2>2. \A k : Whole(k)' = Whole(k)
    BY <1>1, Zenon DEF Whole, Byte
  <2>3. (boundary # "Silence") => \A j \in DOMAIN delivered' :
          /\ delivered'[j] # <<>> /\ delivered'[j][1].frame # 0
          /\ delivered'[j] = Whole(delivered[j][1].frame)'
          /\ j > 1 => delivered'[j][1].frame > delivered'[j - 1][1].frame
    BY <1>2, <2>1, <2>2
  <2> QED
    BY <1>1, <1>7, <2>3, Zenon DEF ExactFrames
<1>12. Aligned'
  <2>1. SelfLocating' <=> SelfLocating
    BY <1>1 DEF SelfLocating
  <2> QED
    BY <1>2, <1>6, <2>1, Zenon DEF Aligned
<1>13. Shrinks
  BY <1>1, <1>2, <1>6, <1>7, OnlyDrops, Zenon
<1> QED
  BY <1>6, <1>8, <1>9, <1>10, <1>11, <1>12, <1>13, Zenon DEF IInv

\* Which frame a receive takes: one that was sent whole, later than every frame taken before, and
\* the very next one as long as no receive has failed.
LEMMA TakenInTurn ==
  ASSUME IInv, boundary # "Silence", NEW w, w = Stream, w \in Seq(Bytes), NEW d \in Nat,
         NEW k \in 1..NumFrames, d + frames[k].len <= Len(w), w[d + 1] = Byte(k, 1),
         \A i \in 1..d : ~Starts(w[i])
  PROVE  /\ \A i \in 1..frames[k].len : w[d + i] = Byte(k, i)
         /\ k < place.frame
         /\ \A i \in 1..Len(w) : i > d + frames[k].len /\ Data(w[i]) => k < w[i].frame
         /\ delivered # <<>> => LastOf(delivered)[1].frame < k
         /\ failures = 0 => k = Len(delivered) + 1
<1>1. /\ TypeOK /\ PlaceKept /\ InOrder(w) /\ Ahead(w) /\ ExactFrames
  BY Zenon DEF IInv
<1>2. PICK L \in Nat, n \in Nat : L = frames[k].len /\ L >= 1 /\ n = Len(w) /\ d + L <= n
  BY SMTT(30), <1>1, FrameFacts DEF Lengths
<1>3. place.frame \in Nat /\ place.at \in Nat /\ 1 <= place.frame
  BY <1>1, PlaceFacts DEF TypeOK
<1>4. d + 1 \in 1..n /\ w[d + 1].frame = k /\ w[d + 1].at = 1 /\ Data(w[d + 1])
  <2>1. PICK x : x = w[d + 1]
    BY Zenon
  <2>2. x.frame = k /\ x.at = 1 /\ Data(x)
    BY <2>1, Bounds DEF Byte, Data
  <2> QED
    BY <1>2, <2>1, <2>2
<1>5. ASSUME NEW i \in 1..L PROVE w[d + i] = Byte(k, i)
  <2>1. PICK j \in 1..n : j = d + i /\ d + 1 <= j /\ 1 + (j - (d + 1)) = i
    <3>1. d + L <= n
      BY <1>2, Zenon
    <3>2. /\ d + i \in 1..n /\ d + i = d + i /\ d + 1 <= d + i
          /\ 1 + ((d + i) - (d + 1)) = i
      BY <3>1
    <3> QED
      BY <3>2, Zenon
  <2>2. w[d + 1].at + (j - (d + 1)) <= frames[w[d + 1].frame].len
    <3>1. w[d + 1].at + (j - (d + 1)) = i /\ frames[w[d + 1].frame].len = L
      BY <1>2, <1>4, <2>1, Zenon
    <3> QED
      BY <3>1
  <2>3. w[j] = Byte(w[d + 1].frame, w[d + 1].at + (j - (d + 1)))
    BY <1>1, <1>2, <1>4, <2>1, <2>2, Zenon DEF InOrder, Contiguous
  <2> QED
    BY <1>4, <2>1, <2>3
<1>6. PICK e \in 1..n : e = d + L
  BY <1>2
<1>7. w[e].frame = k /\ w[e].at = L /\ Data(w[e])
  <2>1. w[e] = Byte(k, L)
    BY SMTT(30), <1>2, <1>5, <1>6
  <2>2. PICK x : x = w[e]
    BY Zenon
  <2>3. x.frame = k /\ x.at = L /\ Data(x)
    BY <2>1, <2>2, Bounds DEF Byte, Data
  <2> QED
    BY <2>2, <2>3
<1>8. k < place.frame
  <2>1. Sooner(w[e], place)
    BY <1>1, <1>2, <1>6, <1>7 DEF InOrder, Upcoming
  <2>2. k < place.frame \/ (k = place.frame /\ L < place.at)
    BY <1>7, <2>1 DEF Sooner
  <2>3. k = place.frame => place.at <= L
    BY <1>1, <1>2, Bounds DEF PlaceKept
  <2> QED
    BY <1>2, <1>3, <2>2, <2>3
<1>9. ASSUME NEW i \in 1..n, i > e, Data(w[i]) PROVE k < w[i].frame
  <2>1. Sooner(w[e], w[i])
    BY <1>1, <1>2, <1>6, <1>7, <1>9 DEF InOrder, Ascending
  <2>2. k < w[i].frame \/ (k = w[i].frame /\ L < w[i].at)
    BY <1>7, <2>1 DEF Sooner
  <2>3. w[i].at \in 1..frames[w[i].frame].len
    BY <1>1, <1>2, <1>9 DEF InOrder, Genuine
  <2> QED
    BY SMTT(30), <1>2, <2>2, <2>3
<1>10. ASSUME delivered # <<>> PROVE LastOf(delivered)[1].frame < k
  <2>1. \A i \in 1..Len(w) : Data(w[i]) => LastOf(delivered)[1].frame < w[i].frame
    BY <1>1, <1>10, Zenon DEF Ahead
  <2> QED
    BY <1>2, <1>4, <2>1
<1>11. ASSUME failures = 0 PROVE k = Len(delivered) + 1
  <2>1. PICK m \in Nat : m = Len(delivered)
    <3>1. PICK T : T = Seq(Bytes)
      BY Zenon
    <3>2. delivered \in Seq(T)
      BY <1>1, <3>1 DEF TypeOK
    <3>3. Len(delivered) \in Nat
      BY <3>2, SMT
    <3> QED
      BY <3>3
  <2>2. k >= m + 1
    <3>1. CASE m = 0
      BY <3>1
    <3>2. CASE m # 0
      <4>1. delivered # <<>> /\ m \in DOMAIN delivered
        <5>1. delivered \in Seq(Seq(Bytes))
          BY <1>1 DEF TypeOK
        <5> QED
          BY SMTT(30), <2>1, <3>2, <5>1
      <4>2. LastOf(delivered)[1].frame = m
        <5>1. delivered[m][1].frame = m
          BY <1>1, <1>11, <4>1, Zenon DEF ExactFrames
        <5> QED
          BY <2>1, <5>1, Zenon DEF LastOf
      <4> QED
        BY <1>10, <2>1, <4>1, <4>2
    <3> QED
      BY <3>1, <3>2
  <2>3. ASSUME k > m + 1 PROVE FALSE
    <3>1. PICK h \in Nat : h = m + 1
      BY SMTT(30)
    <3>2. h \in (Len(delivered) + 1)..place.frame /\ h < place.frame
      BY SMTT(30), <1>3, <1>8, <2>1, <2>3, <3>1
    <3>3. PICK j \in 1..Len(w) : w[j] = Byte(h, 1)
      BY <1>1, <1>11, <3>2 DEF Ahead
    <3>4. w[j].frame = h /\ w[j].at = 1 /\ Data(w[j]) /\ Starts(w[j])
      <4>1. PICK x : x = w[j]
        BY Zenon
      <4>2. x.frame = h /\ x.at = 1 /\ Data(x) /\ Starts(x)
        BY SMTT(30), <3>1, <3>3, <4>1 DEF Byte, Data, Starts
      <4> QED
        BY <4>1, <4>2
    <3>5. j > d /\ j # d + 1
      BY SMTT(30), <1>4, <2>3, <3>1, <3>4
    <3>6. d + 1 < j
      BY <3>5
    <3>7. Sooner(w[d + 1], w[j])
      BY <1>1, <1>2, <1>4, <3>4, <3>6 DEF InOrder, Ascending
    <3> QED
      BY SMTT(30), <1>4, <2>3, <3>1, <3>4, <3>7 DEF Sooner
  <2> QED
    BY SMTT(30), <2>1, <2>2, <2>3
<1> QED
  BY <1>2, <1>5, <1>6, <1>8, <1>9, <1>10, <1>11

\* The receive returns an ADU.
LEMMA SettleTakes ==
  ASSUME NEW b, Gathered(b), NEW r, r.is = "adu", Takes(b, r), r.searched = 0,
         boundary # "Silence", Settle(r)
  PROVE  IInv' /\ Shrinks
<1>1. /\ IInv /\ TypeOK /\ boundary' = boundary /\ frames' = frames /\ place' = place
      /\ closed' = closed /\ b \in Seq(Bytes) /\ pipe' \in Seq(Bytes) /\ b \o pipe' = Stream
      /\ receives' \in 0..MaxReceives /\ failures < receives'
  BY DEF Gathered, IInv, peerVars
<1>2. /\ searched' = 0 /\ phase' = "idle" /\ ~receiving' /\ receiving' \in BOOLEAN
      /\ buffer' = r.buffer /\ delivered' = Append(delivered, r.adu) /\ outcome' = "adu"
      /\ failures' = failures
  <2>1. r.is # "more" /\ r.is # "fail" /\ r.is = "adu"
    OBVIOUS
  <2> QED
    BY <2>1, Zenon DEF Settle
<1>3. PICK d \in 0..Len(b), k \in 1..NumFrames :
        /\ Drops(b, d) /\ d + frames[k].len <= Len(b)
        /\ b[d + 1] = Byte(k, 1) /\ r.adu = Whole(k)
        /\ r.buffer = SubSeq(b, d + frames[k].len + 1, Len(b))
  BY Zenon DEF Takes
<1>4. PICK L \in Nat, n \in Nat : L = frames[k].len /\ L >= 1 /\ n = Len(b) /\ d + L <= n
  <2>1. frames[k].len \in Nat /\ frames[k].len >= 1
    BY <1>1, FrameFacts, Zenon DEF Lengths
  <2>2. b \in Seq(Bytes) /\ d + frames[k].len <= Len(b)
    BY <1>1, <1>3, Zenon
  <2>3. Len(b) \in Nat
    BY <2>2
  <2> QED
    BY <2>1, <2>2, <2>3, Zenon
<1>5. PICK w : w = Stream
  BY Zenon
<1>6. PICK v : v = Stream'
  BY Zenon
<1>7. w \in Seq(Bytes) /\ (\A i \in 1..n : w[i] = b[i]) /\ n <= Len(w)
  <2>1. w \in Seq(Bytes) /\ Len(w) = Len(b) + Len(pipe') /\ \A i \in 1..Len(b) : w[i] = b[i]
    BY <1>1, <1>5, JoinFacts, ZenonT(30)
  <2>2. n = Len(b) /\ pipe' \in Seq(Bytes)
    BY <1>1, <1>4, Zenon
  <2> QED
    BY SMTT(30), <2>1, <2>2
<1>8. PICK e \in 0..Len(b) : e = d + L
  BY <1>4
<1>9. /\ \A i \in 1..L : w[d + i] = Byte(k, i)
      /\ k < place.frame
      /\ \A i \in 1..Len(w) : i > d + L /\ Data(w[i]) => k < w[i].frame
      /\ delivered # <<>> => LastOf(delivered)[1].frame < k
      /\ failures = 0 => k = Len(delivered) + 1
  <2>1. PICK q \in Nat : q = Len(w)
    BY <1>7
  <2>2. d \in Nat /\ d + L <= q /\ d + 1 \in 1..n /\ \A i \in 1..d : i \in 1..n
    BY SMTT(30), <1>4, <1>7, <2>1
  <2>3. w[d + 1] = Byte(k, 1)
    BY <1>3, <1>7, <2>2, Zenon
  <2>4. \A i \in 1..d : ~Starts(w[i])
    BY <1>3, <1>7, <2>2, Zenon DEF Drops
  <2>5. d + frames[k].len <= Len(w)
    BY <1>4, <2>1, <2>2, Zenon
  <2>6. /\ \A i \in 1..frames[k].len : w[d + i] = Byte(k, i)
        /\ k < place.frame
        /\ \A i \in 1..Len(w) : i > d + frames[k].len /\ Data(w[i]) => k < w[i].frame
        /\ delivered # <<>> => LastOf(delivered)[1].frame < k
        /\ failures = 0 => k = Len(delivered) + 1
    <3>1. IInv /\ w \in Seq(Bytes) /\ d \in Nat
      BY <1>1, <1>7, <2>2, Zenon
    <3> QED
      BY SMTT(30), <1>5, <2>3, <2>4, <2>5, <3>1, TakenInTurn
  <2> QED
    BY <1>4, <2>6, Zenon
<1>10. Data(w[e]) /\ Ends(w[e])
  <2>1. w[e] = Byte(k, L)
    BY SMTT(30), <1>4, <1>8, <1>9
  <2>2. PICK x : x = w[e]
    BY Zenon
  <2>3. x.frame = k /\ x.at = L
    BY <2>1, <2>2 DEF Byte
  <2> QED
    BY SMTT(30), <1>4, <2>2, <2>3, Bounds DEF Data, Ends
<1>11. /\ buffer' \in Seq(Bytes) /\ v \in Seq(Bytes)
       /\ e \in 0..Len(w) /\ Len(v) = Len(w) - e
       /\ \A i \in 1..Len(v) : v[i] = w[i + e]
       /\ BufferBounded' /\ InOrder(Stream)' /\ FromStart(Stream)' /\ PlaceKept'
       /\ ~SelfLocating /\ buffer' # <<>> => buffer'[1].at = 1
  <2>1. buffer' = SubSeq(b, e + 1, Len(b))
    BY <1>2, <1>3, <1>4, <1>8, Zenon
  <2>2. ~SelfLocating => e = 0 \/ (Data(Stream[e]) /\ Ends(Stream[e]))
    BY <1>5, <1>10, Zenon
  <2> QED
    BY <1>5, <1>6, <2>1, <2>2, Leaves, Zenon
<1>12. PICK D : D = delivered'
  BY Zenon
<1>13. PICK m \in Nat : m = Len(delivered) /\ delivered \in Seq(Seq(Bytes)) /\ DOMAIN delivered = 1..m
  <2>1. delivered \in Seq(Seq(Bytes))
    BY <1>1 DEF TypeOK
  <2> QED
    BY SMTT(30), <2>1
<1>14. PICK a \in Seq(Bytes) : a = Whole(k) /\ a # <<>> /\ a[1].frame = k
  <2>1. \A i \in 1..L : Byte(k, i) \in Bytes
    BY Bounds DEF Byte, Bytes
  <2>2. Whole(k) \in [1..L -> Bytes]
    BY <1>4, <2>1 DEF Whole
  <2>3. Whole(k) \in Seq(Bytes) /\ Len(Whole(k)) = L
    BY SMTT(30), <1>4, <2>2
  <2>4. Whole(k)[1] = Byte(k, 1)
    BY SMTT(30), <1>4 DEF Whole
  <2>5. Byte(k, 1).frame = k
    BY DEF Byte
  <2> QED
    BY <1>4, <2>3, <2>4, <2>5
<1>15. /\ D \in Seq(Seq(Bytes)) /\ D # <<>> /\ Len(D) = m + 1 /\ D[m + 1] = a
       /\ \A i \in 1..m : D[i] = delivered[i]
  <2>1. D = Append(delivered, a)
    BY <1>2, <1>3, <1>12, <1>14, Zenon
  <2>2. delivered \in Seq(Seq(Bytes)) /\ a \in Seq(Bytes)
    BY <1>13
  <2>3. /\ D \in Seq(Seq(Bytes)) /\ D # <<>> /\ Len(D) = Len(delivered) + 1
        /\ \A i \in 1..Len(delivered) : D[i] = delivered[i]
        /\ D[Len(delivered) + 1] = a
    <3>1. PICK T : T = Seq(Bytes)
      BY Zenon
    <3>2. delivered \in Seq(T) /\ a \in T
      BY <2>2, <3>1, Zenon
    <3>3. /\ Append(delivered, a) \in Seq(T) /\ Append(delivered, a) # <<>>
          /\ Len(Append(delivered, a)) = Len(delivered) + 1
          /\ \A i \in 1..Len(delivered) : Append(delivered, a)[i] = delivered[i]
          /\ Append(delivered, a)[Len(delivered) + 1] = a
      BY SMTT(30), <3>2, AppendFacts
    <3> QED
      BY <2>1, <3>1, <3>3, Zenon
  <2> QED
    BY <1>13, <2>3, Zenon
<1>16. failures' \in Nat /\ failures' <= receives' /\ receives' \in Nat
  BY SMTT(30), <1>1, <1>2, Bounds DEF TypeOK
<1>17. TypeOK'
  <2>1. searched' \in Nat /\ phase' \in {"idle", "waiting"} /\ (phase' = "waiting" => receiving')
    BY <1>2
  <2>2. outcome' \in {"none", "adu", "length", "too_large", "eof", "severed", "io", "stalled",
                      "latched", "abandoned"}
    BY <1>2
  <2> QED
    BY <1>2, <1>11, <1>12, <1>15, <1>16, <2>1, <2>2, TypeKept, Zenon
<1>18. Waiting'
  BY <1>2, <1>16 DEF Waiting
<1>19. Ahead(Stream)'
  <2>1. LastOf(D)[1].frame = k
    BY <1>14, <1>15, Zenon DEF LastOf
  <2>2. ASSUME NEW i \in 1..Len(v), Data(v[i]) PROVE k < v[i].frame
    <3>1. i + e \in 1..Len(w) /\ i + e > d + L
      <4>1. PICK q \in Nat : q = Len(w) /\ e \in 0..q /\ i \in 1..(q - e) /\ e = d + L
        BY SMTT(30), <1>7, <1>8, <1>11
      <4>2. i + e \in 1..q /\ i + e > e
        BY <4>1
      <4> QED
        BY <4>1, <4>2
    <3>2. v[i] = w[i + e]
      BY <1>11
    <3> QED
      BY <1>9, <2>2, <3>1, <3>2, Zenon
  <2>3. ASSUME failures = 0
        PROVE  /\ Len(D) < place.frame
               /\ \A h \in (Len(D) + 1)..place.frame :
                    (h < place.frame \/ place.at > 1) => \E j \in 1..Len(v) : v[j] = Byte(h, 1)
    <3>1. Len(D) = k /\ k < place.frame
      BY <1>9, <1>13, <1>15, <2>3
    <3>2. ASSUME NEW h \in (Len(D) + 1)..place.frame, h < place.frame \/ place.at > 1
          PROVE  \E j \in 1..Len(v) : v[j] = Byte(h, 1)
      <4>1. h \in (m + 1)..place.frame /\ h # k /\ h # 0
        BY SMTT(30), <1>15, <3>1
      <4>2. PICK j \in 1..Len(w) : w[j] = Byte(h, 1)
        BY <1>1, <1>5, <1>13, <2>3, <3>2, <4>1, Zenon DEF IInv, Ahead
      <4>3. w[j].frame = h /\ Starts(w[j])
        <5>1. PICK x : x = w[j]
          BY Zenon
        <5>2. x.frame = h /\ x.at = 1
          BY SMTT(30), <4>2, <5>1 DEF Byte
        <5> QED
          BY <4>1, <5>1, <5>2 DEF Starts, Data
      <4>4. ~(j \in 1..d)
        <5>1. j \in 1..d => j \in 1..n /\ w[j] = b[j]
          <6>1. j \in 1..d => j \in 1..n
            BY SMTT(30), <1>4
          <6> QED
            BY <1>7, <6>1, Zenon
        <5> QED
          BY <1>3, <4>3, <5>1, Zenon DEF Drops
      <4>5. ~(j > d /\ j <= d + L)
        <5> SUFFICES ASSUME j > d, j <= d + L PROVE FALSE
          OBVIOUS
        <5>1. PICK i \in 1..L : d + i = j
          <6>1. j - d \in 1..L /\ d + (j - d) = j
            BY <1>4
          <6> QED
            BY <6>1
        <5>2. w[j] = Byte(k, i)
          BY <1>9, <5>1
        <5>3. Byte(k, i).frame = k
          BY DEF Byte
        <5> QED
          BY <4>1, <4>3, <5>2, <5>3
      <4>6. PICK i \in 1..Len(v) : i + e = j
        <5>1. j - e \in 1..Len(v) /\ (j - e) + e = j
          <6>1. PICK q \in Nat : q = Len(w) /\ e \in 0..q /\ Len(v) = q - e /\ e = d + L
            BY SMTT(30), <1>7, <1>8, <1>11
          <6>2. j \in 1..q /\ j > d + L
            BY <1>4, <4>4, <4>5, <6>1
          <6>3. j - e \in 1..(q - e) /\ (j - e) + e = j
            BY <6>1, <6>2
          <6> QED
            BY <6>1, <6>3
        <5> QED
          BY <5>1
      <4>7. v[i] = Byte(h, 1)
        BY <1>11, <4>2, <4>6, Zenon
      <4> QED
        BY <4>7
    <3> QED
      BY <3>1, <3>2, Zenon
  <2>4. Ahead(v)'
    <3>1. LET z == LastOf(delivered')[1].frame
          IN  z < place.frame /\ \A i \in 1..Len(v) : Data(v[i]) => z < v[i].frame
      BY <1>9, <1>12, <2>1, <2>2, Zenon
    <3> QED
      BY <1>1, <1>2, <1>12, <2>3, <3>1, Zenon DEF Ahead, Data
  <2> QED
    BY <1>6, <2>4, Zenon DEF Ahead
<1>20. ExactFrames'
  <2>1. \A h : Whole(h)' = Whole(h)
    BY <1>1, Zenon DEF Whole, Byte
  <2>2. \A j \in 1..m :
          /\ delivered[j] # <<>> /\ delivered[j][1].frame # 0
          /\ delivered[j] = Whole(delivered[j][1].frame)
          /\ j > 1 => delivered[j][1].frame > delivered[j - 1][1].frame
          /\ failures = 0 => delivered[j][1].frame = j
    BY <1>1, <1>13, Zenon DEF ExactFrames, IInv
  <2>3. ASSUME NEW j \in 1..m
        PROVE  /\ D[j] # <<>> /\ D[j][1].frame # 0
               /\ D[j] = Whole(D[j][1].frame)
               /\ j > 1 => D[j][1].frame > D[j - 1][1].frame
               /\ failures = 0 => D[j][1].frame = j
    <3>1. j > 1 => j - 1 \in 1..m
      BY SMTT(30), <1>13
    <3>2. D[j] = delivered[j] /\ (j > 1 => D[j - 1] = delivered[j - 1])
      BY <1>15, <3>1
    <3> QED
      BY <2>2, <3>2, Zenon
  <2>4. /\ D[m + 1] # <<>> /\ D[m + 1][1].frame # 0
        /\ D[m + 1] = Whole(D[m + 1][1].frame)
        /\ m + 1 > 1 => D[m + 1][1].frame > D[(m + 1) - 1][1].frame
        /\ failures = 0 => D[m + 1][1].frame = m + 1
    <3>1. D[m + 1] # <<>> /\ D[m + 1][1].frame = k /\ D[m + 1] = Whole(k) /\ k # 0
      BY SMTT(30), <1>14, <1>15, Bounds
    <3>2. ASSUME m + 1 > 1 PROVE k > D[(m + 1) - 1][1].frame
      <4>1. m \in 1..m /\ (m + 1) - 1 = m /\ delivered # <<>>
        BY SMTT(30), <1>13, <3>2
      <4>2. D[(m + 1) - 1] = LastOf(delivered)
        BY <1>13, <1>15, <4>1 DEF LastOf
      <4>3. LastOf(delivered)[1].frame < k
        BY <1>9, <4>1
      <4> QED
        BY <4>2, <4>3
    <3> QED
      BY <1>9, <1>13, <3>1, <3>2, Zenon
  <2>5. DOMAIN D = 1..(m + 1) /\ \A j \in 1..(m + 1) : j \in 1..m \/ j = m + 1
    BY SMTT(30), <1>13, <1>15
  <2>6. \A j \in DOMAIN D :
          /\ D[j] # <<>> /\ D[j][1].frame # 0
          /\ D[j] = Whole(D[j][1].frame)'
          /\ j > 1 => D[j][1].frame > D[j - 1][1].frame
          /\ failures = 0 => D[j][1].frame = j
    BY <2>1, <2>3, <2>4, <2>5, Zenon
  <2> QED
    BY <1>1, <1>2, <1>12, <2>6, Zenon DEF ExactFrames
<1>21. Aligned'
  <2>1. SelfLocating' <=> SelfLocating
    BY <1>1 DEF SelfLocating
  <2> QED
    BY <1>2, <1>11, <2>1 DEF Aligned
<1>22. Shrinks
  <2>1. ASSUME failures = 0 PROVE \A i \in 1..d : ~Data(w[i])
    <3>1. d \in 0..Len(w) /\ \A i \in 1..d : i \in 1..n
      BY SMTT(30), <1>4, <1>7
    <3>2. \A i \in 1..d : ~Starts(w[i])
      BY <1>3, <1>7, <3>1, Zenon DEF Drops
    <3> QED
      BY <1>1, <1>5, <1>7, <2>1, <3>1, <3>2, NoneOfAFrame, Zenon
  <2>2. Len(a) = L /\ \A i \in 1..L : a[i] = w[d + i]
    <3>1. \A i \in 1..L : a[i] = Byte(k, i)
      BY <1>4, <1>14, Zenon DEF Whole
    <3>2. DOMAIN a = 1..L
      BY <1>4, <1>14, Zenon DEF Whole
    <3>3. Len(a) = L
      BY SMTT(30), <1>4, <3>2
    <3> QED
      BY <1>9, <3>1, <3>3, Zenon
  <2>3. d \in Nat /\ L \in Nat /\ d + L <= Len(w) /\ e = d + L
    BY <1>4, <1>7, <1>8
  <2>4. delivered' = Append(delivered, a)
    BY <1>2, <1>3, <1>14, Zenon
  <2> QED
    BY <1>1, <1>2, <1>5, <1>6, <1>11, <2>1, <2>2, <2>3, <2>4, ZenonT(30) DEF Shrinks, TakenOff
<1> QED
  BY <1>11, <1>17, <1>18, <1>19, <1>20, <1>21, <1>22, Zenon DEF IInv

\* A receive that waits for silence returns what it has gathered: it ends where a frame ends, unless
\* the stream was closed.
LEMMA SettleLine ==
  ASSUME Gathered(buffer), boundary = "Silence", buffer # <<>>, pipe = <<>>,
         closed \/ place.at = 1, Settle(Take(buffer, Len(buffer)))
  PROVE  IInv' /\ Shrinks
<1>1. /\ IInv /\ TypeOK /\ boundary' = boundary /\ frames' = frames /\ place' = place
      /\ closed' = closed /\ buffer \in Seq(Bytes) /\ pipe' \in Seq(Bytes)
      /\ receives' \in 0..MaxReceives /\ failures < receives'
  BY DEF Gathered, IInv, peerVars
<1>2. PICK r : r = Take(buffer, Len(buffer))
  BY Zenon
<1>3. /\ r.is = "adu" /\ r.searched = 0 /\ r.adu = SubSeq(buffer, 1, Len(buffer))
      /\ r.buffer = SubSeq(buffer, Len(buffer) + 1, Len(buffer))
  BY <1>2 DEF Take
<1>4. r.adu = buffer
  BY <1>1, <1>3, WholeSequence
<1>5. /\ searched' = 0 /\ phase' = "idle" /\ ~receiving' /\ receiving' \in BOOLEAN
      /\ buffer' = SubSeq(buffer, Len(buffer) + 1, Len(buffer))
      /\ delivered' = Append(delivered, buffer) /\ outcome' = "adu"
      /\ failures' = failures
  <2>1. r.is # "more" /\ r.is # "fail" /\ r.is = "adu"
    BY <1>3
  <2>2. Settle(r)
    BY <1>2, Zenon
  <2> QED
    BY <1>3, <1>4, <2>1, <2>2, Zenon DEF Settle
<1>6. PICK m \in Nat : m = Len(buffer) /\ m \in 0..Len(buffer) /\ m >= 1 /\ m \in 1..m
  BY <1>1
<1>7. SelfLocating
  BY DEF SelfLocating
<1>8. /\ buffer' \in Seq(Bytes) /\ BufferBounded' /\ InOrder(Stream)' /\ FromStart(Stream)'
      /\ PlaceKept' /\ Len(Stream') = Len(Stream) - m
      /\ \A i \in 1..Len(Stream') : Stream'[i] = Stream[i + m]
  BY <1>5, <1>6, <1>7, Leaves, Zenon
<1>9. failures' \in Nat /\ failures' <= receives' /\ receives' \in Nat
  BY SMTT(30), <1>1, <1>5, Bounds DEF TypeOK
<1>10. PICK n, D : /\ n \in Nat /\ n = Len(delivered) /\ DOMAIN delivered = 1..n /\ D = delivered'
                   /\ D \in Seq(Seq(Bytes)) /\ DOMAIN D = 1..(n + 1) /\ D[n + 1] = buffer
                   /\ \A i \in 1..n : D[i] = delivered[i]
  <2>1. PICK T : T = Seq(Bytes)
    BY Zenon
  <2>2. delivered \in Seq(T) /\ buffer \in T
    BY <1>1, <2>1, Zenon DEF TypeOK
  <2>3. PICK D : D = Append(delivered, buffer)
    BY Zenon
  <2>4. /\ Append(delivered, buffer) \in Seq(T)
        /\ Len(Append(delivered, buffer)) = Len(delivered) + 1
        /\ \A i \in 1..Len(delivered) : Append(delivered, buffer)[i] = delivered[i]
        /\ Append(delivered, buffer)[Len(delivered) + 1] = buffer
    BY SMTT(30), <2>2, AppendFacts
  <2>5. /\ D \in Seq(T) /\ Len(D) = Len(delivered) + 1
        /\ \A i \in 1..Len(delivered) : D[i] = delivered[i]
        /\ D[Len(delivered) + 1] = buffer
    BY <2>3, <2>4, Zenon
  <2>6. Len(delivered) \in Nat /\ DOMAIN delivered = 1..Len(delivered) /\ DOMAIN D = 1..Len(D)
    BY <2>2, <2>5
  <2> QED
    BY <1>5, <2>1, <2>3, <2>5, <2>6, Zenon
<1>11. TypeOK'
  <2>1. searched' \in Nat /\ phase' \in {"idle", "waiting"} /\ (phase' = "waiting" => receiving')
    BY <1>5
  <2>2. outcome' \in {"none", "adu", "length", "too_large", "eof", "severed", "io", "stalled",
                      "latched", "abandoned"}
    BY <1>5
  <2> QED
    BY <1>5, <1>8, <1>9, <1>10, <2>1, <2>2, TypeKept, Zenon
<1>12. Waiting'
  BY <1>5, <1>9 DEF Waiting
<1>13. Ahead(Stream)'
  BY <1>1, Zenon DEF Ahead
<1>14. ASSUME ~closed, LastOf(buffer).frame # 0
       PROVE  LastOf(buffer).at = frames[LastOf(buffer).frame].len
  <2>1. PICK x : x = buffer[m]
    BY Zenon
  <2>2. Stream = buffer
    BY <1>1 DEF Stream
  <2>3. x \in Bytes /\ Data(x) /\ LastOf(buffer) = x
    BY <1>1, <1>6, <1>14, <2>1 DEF LastOf, Data
  <2>4. Genuine(buffer) /\ Upcoming(buffer)
    BY <1>1, <2>2 DEF IInv, InOrder
  <2>5. x.at \in Nat /\ x.at # 0
    <3>1. x.at \in 1..frames[x.frame].len
      BY <1>6, <2>1, <2>3, <2>4 DEF Genuine
    <3>2. x.at \in Nat
      BY <2>3, ByteFacts
    <3> QED
      BY SMTT(30), <3>1, <3>2
  <2>6. ~Ends(x) => place.at = x.at + 1
    BY <1>6, <2>1, <2>3, <2>4 DEF Upcoming
  <2>7. Ends(x)
    BY SMTT(30), <1>14, <2>5, <2>6
  <2> QED
    BY <2>3, <2>7 DEF Ends
<1>15. ExactFrames'
  <2>1. ASSUME failures = 0, ~closed, NEW j \in 1..(n + 1), LastOf(D[j]).frame # 0
        PROVE  LastOf(D[j]).at = frames[LastOf(D[j]).frame].len
    <3>1. CASE j = n + 1
      BY <1>10, <1>14, <2>1, <3>1, Zenon
    <3>2. CASE j \in 1..n
      <4>1. D[j] = delivered[j]
        BY <1>10, <3>2
      <4> QED
        BY <1>1, <1>10, <2>1, <3>2, <4>1, Zenon DEF IInv, ExactFrames
    <3>3. n \in Nat
      BY <1>10, Zenon
    <3>4. j = n + 1 \/ j \in 1..n
      BY <3>3
    <3> QED
      BY <3>1, <3>2, <3>4
  <2> QED
    BY <1>1, <1>5, <1>10, <2>1, Zenon DEF ExactFrames
<1>16. Aligned'
  BY <1>1, <1>5, <1>7 DEF Aligned, SelfLocating
<1>17. Shrinks
  <2>1. PICK w, v : w = Stream /\ v = Stream' /\ w = buffer
    <3>1. Stream = buffer
      BY SMTT(30), <1>1 DEF Stream
    <3> QED
      BY <3>1, Zenon
  <2>2. 0 \in Nat /\ 0 + m <= m /\ 0 + m = m /\ \A i \in 1..m : 0 + i = i
    BY <1>6
  <2>3. \A i \in 1..0 : FALSE
    BY SMTT(30)
  <2>4. \A i \in 1..m : buffer[i] = w[0 + i]
    BY <2>1, <2>2, Zenon
  <2>5. /\ 0 + m <= Len(w) /\ Len(v) = Len(w) - (0 + m)
        /\ \A i \in 1..Len(v) : v[i] = w[i + (0 + m)]
    BY <1>6, <1>8, <2>1, <2>2, Zenon
  <2>6. \E a \in Seq(Bytes) : /\ Len(a) = m /\ \A i \in 1..m : a[i] = w[0 + i]
                              /\ delivered' = Append(delivered, a)
    BY <1>1, <1>5, <1>6, <2>4, Zenon
  <2>7. failures' = 0 => failures = 0 /\ \A i \in 1..0 : ~Data(w[i])
    BY <1>5, <2>3, Zenon
  <2>8. TakenOff(w, v, 0, m)
    BY <2>5, <2>6, <2>7, Zenon DEF TakenOff
  <2> QED
    BY <1>1, <1>6, <2>1, <2>2, <2>8, Zenon DEF Shrinks
<1> QED
  BY <1>8, <1>11, <1>12, <1>13, <1>15, <1>16, <1>17, Zenon DEF IInv

\* However a step of a receive ends.
LEMMA SettleKeeps ==
  ASSUME NEW b, Gathered(b), NEW r, Cuts(b, r), Settle(r)
  PROVE  IInv' /\ Shrinks
  BY SettleWaits, SettleTakes, SettleGivesUp, Zenon DEF Cuts

\* A failure leaves the bytes where they are.
LEMMA FailsCuts ==
  ASSUME NEW b, NEW why \in {"length", "too_large", "eof", "severed", "io", "stalled"}
  PROVE  Cuts(b, Fails(b, why))
<1>1. PICK r : r = Fails(b, why)
  BY Zenon
<1>2. r.is = "fail" /\ r.buffer = b /\ r.why = why /\ r.searched = 0
  BY <1>1 DEF Fails
<1>3. Cuts(b, r)
  BY <1>2 DEF Cuts, GivesUp
<1> QED
  BY <1>1, <1>3

LEMMA FailureKeeps ==
  ASSUME NEW b, Gathered(b), NEW why \in {"eof", "severed", "io", "stalled"},
         Settle(Fails(b, why))
  PROVE  IInv' /\ Shrinks
  BY FailsCuts, SettleKeeps

\* Steps that leave the stream alone.
LEMMA StandsStill ==
  ASSUME IInv, frames' = frames, place' = place, delivered' = delivered, Stream' = Stream,
         failures' = 0 => failures = 0
  PROVE  Shrinks
<1>1. PICK w \in Seq(Bytes) : w = Stream
  BY StreamFacts, Zenon
<1>2. /\ 0 \in 0..Len(w) /\ Len(w) = Len(w) - 0
      /\ (\A i \in 1..Len(w) : w[i] = w[i + 0]) /\ \A i \in 1..0 : FALSE
  <2>1. PICK q \in Nat : q = Len(w)
    BY LenNat, Zenon
  <2>2. 0 \in 0..q /\ q = q - 0 /\ (\A i \in 1..q : i = i + 0) /\ \A i \in 1..0 : FALSE
    OBVIOUS
  <2> QED
    BY <2>1, <2>2, Zenon
<1> QED
  BY <1>1, <1>2, OnlyDrops, Zenon

\* A step that leaves the stream and the peer alone.
LEMMA StreamKept ==
  ASSUME IInv, boundary' = boundary, frames' = frames, place' = place, Stream' = Stream
  PROVE  PlaceKept' /\ InOrder(Stream)' /\ FromStart(Stream)'
<1>1. PICK v : v = Stream
  BY Zenon
<1>2. InOrder(v) /\ FromStart(v) /\ PlaceKept
  BY <1>1, Zenon DEF IInv
<1>3. InOrder(v)'
  <2>1. Genuine(v)' /\ Contiguous(v)'
    BY <1>2 DEF InOrder, Genuine, Contiguous, Data, Byte
  <2>2. Ascending(v)' /\ Upcoming(v)'
    BY <1>2 DEF InOrder, Ascending, Upcoming, Data, Ends, Sooner
  <2> QED
    BY <2>1, <2>2 DEF InOrder
<1>4. FromStart(v)'
  BY <1>2 DEF FromStart, SelfLocating, Data
<1>5. v = Stream'
  BY <1>1
<1>6. Genuine(Stream)' /\ Contiguous(Stream)'
  <2>1. Genuine(v)' /\ Contiguous(v)'
    BY <1>3 DEF InOrder
  <2>2. Genuine(Stream)'
    BY <1>5, <2>1, Zenon DEF Genuine
  <2>3. Contiguous(Stream)'
    BY SMTT(30), <1>5, <2>1 DEF Contiguous
  <2> QED
    BY <2>2, <2>3
<1>7. Ascending(Stream)' /\ Upcoming(Stream)'
  BY <1>3, <1>5, Zenon DEF InOrder, Ascending, Upcoming
<1>8. FromStart(Stream)'
  BY <1>4, <1>5 DEF FromStart
<1>9. PlaceKept'
  BY <1>2 DEF PlaceKept
<1> QED
  BY <1>6, <1>7, <1>8, <1>9 DEF InOrder

\* Steps that cut nothing and send nothing: the peer closes, a receive is abandoned, nothing happens.
LEMMA RestKeeps ==
  ASSUME IInv, PeerCloses \/ Abandon \/ UNCHANGED vars
  PROVE  IInv' /\ Shrinks
<1>1. /\ boundary' = boundary /\ frames' = frames /\ place' = place /\ noise' = noise
      /\ pipe' = pipe /\ buffer' = buffer /\ receiving' = receiving /\ searched' = searched
      /\ delivered' = delivered /\ receives' = receives /\ failures' = failures
  BY DEF PeerCloses, Abandon, vars, peerVars
<1>2. /\ closed' = closed \/ closed' = TRUE
      /\ \/ phase' = phase /\ outcome' = outcome
         \/ phase' = "idle" /\ outcome' = "abandoned"
  BY DEF PeerCloses, Abandon, vars, peerVars
<1>3. TypeOK'
  <2>1. TypeOK
    BY DEF IInv
  <2>2. closed' \in BOOLEAN
    BY <1>2, <2>1, Zenon DEF TypeOK
  <2>3. phase' \in {"idle", "waiting"} /\ (phase' = "waiting" => receiving')
    BY <1>1, <1>2, <2>1, Zenon DEF TypeOK
  <2>4. outcome' \in {"none", "adu", "length", "too_large", "eof", "severed", "io", "stalled",
                      "latched", "abandoned"}
    BY <1>2, <2>1 DEF TypeOK
  <2> QED
    BY <1>1, <2>1, <2>2, <2>3, <2>4, Zenon DEF TypeOK
<1>4. Waiting'
  <2>1. Partial(buffer, searched)' = Partial(buffer, searched)
    BY <1>1, Zenon DEF Partial, Starts, Data
  <2>2. phase' = "waiting" => phase = "waiting"
    BY <1>2
  <2> QED
    BY <1>1, <2>1, <2>2, Zenon DEF IInv, Waiting
<1>5. BufferBounded'
  BY <1>1 DEF IInv, BufferBounded
<1>6. Stream' = Stream
  BY <1>1 DEF Stream
<1>7. PlaceKept' /\ InOrder(Stream)' /\ FromStart(Stream)'
  BY <1>1, <1>6, StreamKept
<1>8. Ahead(Stream)'
  BY <1>1, <1>6, Zenon DEF IInv, Ahead
<1>9. ExactFrames'
  <2>1. \A k : Whole(k)' = Whole(k)
    BY <1>1, Zenon DEF Whole, Byte
  <2>2. ~closed' => ~closed
    BY <1>2, Zenon
  <2> QED
    BY <1>1, <2>1, <2>2, Zenon DEF IInv, ExactFrames
<1>10. Aligned'
  <2>1. Aligned
    BY DEF IInv
  <2>2. phase' = "idle" /\ outcome' \notin {"adu", "none", "latched", "abandoned"} =>
          phase = "idle" /\ outcome \notin {"adu", "none", "latched", "abandoned"}
    BY <1>2
  <2> QED
    BY <1>1, <2>1, <2>2, Zenon DEF Aligned, SelfLocating
<1>11. Shrinks
  BY <1>1, <1>6, StandsStill, Zenon
<1> QED
  BY <1>3, <1>4, <1>5, <1>7, <1>8, <1>9, <1>10, <1>11, Zenon DEF IInv

=============================================================================
