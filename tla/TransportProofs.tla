--------------------------- MODULE TransportProofs ---------------------------
(***************************************************************************)
(* ADUs come out of the byte stream as they were sent, for any lengths,    *)
(* any bound, any size of a read and any division of the stream into       *)
(* reads, on every boundary rule.                                          *)
(***************************************************************************)
EXTENDS TransportStream, WellFoundedInduction

\* A leaf that names no prover is for Zenon, or else for the SMT solver.
USE ZenonT(5), SMTT(30)

-----------------------------------------------------------------------------
(* Least elements and sequences.                                            *)

Below == {p \in Nat \X Nat : p[1] < p[2]}

\* A set of naturals that is not empty has a least element, and Min is that.
LEMMA MinFacts ==
  ASSUME NEW T, T \subseteq Nat, T # {}
  PROVE  Min(T) \in T /\ \A y \in T : Min(T) <= y
<1>1. IsWellFoundedOn(Below, Nat)
  BY NatLessThanWellFounded DEF OpToRel, Below
<1>2. PICK x \in T : \A y \in T : ~(<<y, x>> \in Below)
  BY <1>1, WFMin, Zenon
<1>3. ASSUME NEW y \in T PROVE x <= y
  <2>1. x \in Nat /\ y \in Nat
    OBVIOUS
  <2>2. y < x => <<y, x>> \in Below
    BY <2>1 DEF Below
  <2> QED
    BY SMTT(30), <1>2, <2>1, <2>2
<1>4. \E z \in T : \A y \in T : z <= y
  BY <1>3
<1> QED
  BY <1>4, Zenon DEF Min

\* What fits behind d elements of n.
LEMMA Fits ==
  ASSUME NEW n \in Nat, NEW d \in 0..n, NEW m \in Nat, d + m <= n
  PROVE  m \in 0..(n - d) /\ m <= n - d
  OBVIOUS

\* The first n elements of a sequence.
LEMMA FirstFacts ==
  ASSUME NEW S, NEW w \in Seq(S), NEW n \in 0..Len(w)
  PROVE  /\ SubSeq(w, 1, n) \in Seq(S) /\ Len(SubSeq(w, 1, n)) = n
         /\ \A i \in 1..n : SubSeq(w, 1, n)[i] = w[i]
  OBVIOUS

\* A read moves bytes over and loses none.
LEMMA ReadJoins ==
  ASSUME NEW S, NEW b \in Seq(S), NEW p \in Seq(S), NEW n \in 0..Len(p)
  PROVE  (b \o SubSeq(p, 1, n)) \o SubSeq(p, n + 1, Len(p)) = b \o p
<1>1. PICK m \in Nat : m = Len(p) /\ n \in Nat /\ n <= m
  OBVIOUS
<1>2. PICK t, u : t = SubSeq(p, 1, n) /\ u = SubSeq(p, n + 1, Len(p))
  BY Zenon
<1>3. /\ t \in Seq(S) /\ Len(t) = n /\ (\A i \in 1..n : t[i] = p[i])
      /\ u \in Seq(S) /\ Len(u) = m - n /\ \A i \in 1..(m - n) : u[i] = p[i + n]
  BY <1>1, <1>2, FirstFacts, DropFacts
<1>4. PICK w : w = t \o u
  BY Zenon
<1>5. t \in Seq(S) /\ u \in Seq(S)
  BY <1>3
<1>6. /\ w \in Seq(S) /\ Len(w) = n + (m - n) /\ \A i \in 1..n : w[i] = t[i]
      /\ \A i \in 1..(m - n) : w[n + i] = u[i]
  <2>1. /\ t \o u \in Seq(S) /\ Len(t \o u) = Len(t) + Len(u)
        /\ \A i \in 1..Len(t) : (t \o u)[i] = t[i]
        /\ \A i \in 1..Len(u) : (t \o u)[Len(t) + i] = u[i]
    BY SMTT(30), <1>5, JoinFacts
  <2> QED
    BY <1>3, <1>4, <2>1, Zenon
<1>7. ASSUME NEW i \in 1..m PROVE w[i] = p[i]
  <2>1. CASE i <= n
    BY SMTT(30), <1>1, <1>3, <1>6, <2>1
  <2>2. CASE i > n
    <3>1. PICK j \in 1..(m - n) : i = j + n /\ i = n + j
      <4>1. i - n \in 1..(m - n) /\ i = (i - n) + n /\ i = n + (i - n)
        BY SMTT(30), <1>1, <2>2
      <4> QED
        BY <4>1
    <3>2. u[j] = p[j + n] /\ w[n + j] = u[j]
      BY <1>3, <1>6, Zenon
    <3> QED
      BY <3>1, <3>2, Zenon
  <2> QED
    BY <1>1, <2>1, <2>2
<1>8. w \in Seq(S) /\ Len(w) = Len(p) /\ \A i \in 1..Len(w) : w[i] = p[i]
  BY SMTT(30), <1>1, <1>6, <1>7
<1>9. w = p
  BY <1>8, SameSequence, Zenon
<1>10. (b \o t) \o u = b \o (t \o u)
  BY <1>5
<1> QED
  BY <1>2, <1>4, <1>9, <1>10, Zenon

-----------------------------------------------------------------------------
(* The boundary rules, on a buffer b that is the front of the stream.       *)

LEMMA FrontOfStream ==
  ASSUME NEW b \in Seq(Bytes), NEW w \in Seq(Bytes), Len(b) <= Len(w),
         \A i \in 1..Len(b) : b[i] = w[i], InOrder(w), FromStart(w)
  PROVE  StreamFront(b)
<1>1. Len(b) \in Nat /\ Len(w) \in Nat /\ \A i \in 1..Len(b) : i \in 1..Len(w)
  OBVIOUS
<1>2. Genuine(b)
  BY <1>1 DEF InOrder, Genuine
<1>3. Contiguous(b)
  BY <1>1 DEF InOrder, Contiguous
<1>4. Ascending(b)
  <2>1. \A i \in 1..(Len(b) - 1) : i \in 1..Len(b) /\ i + 1 \in 1..Len(b) /\ i \in 1..(Len(w) - 1)
    BY <1>1
  <2>2. \A i \in 1..(Len(b) - 1) : Data(b[i]) /\ Ends(b[i]) /\ Data(b[i + 1]) => b[i + 1].at = 1
    BY SMTT(30), <2>1 DEF InOrder, Ascending
  <2>3. \A i, j \in 1..Len(b) : i < j /\ Data(b[i]) /\ Data(b[j]) => Sooner(b[i], b[j])
    BY <1>1 DEF InOrder, Ascending
  <2> QED
    BY <2>2, <2>3 DEF Ascending
<1>5. ASSUME ~SelfLocating, b # <<>> PROVE b[1].at = 1
  <2>1. 1 \in 1..Len(b) /\ w # <<>>
    BY SMTT(30), <1>1, <1>5
  <2> QED
    BY <1>5, <2>1 DEF FromStart
<1>6. ~SelfLocating => \A i \in 1..Len(b) : Data(b[i])
  BY <1>1 DEF FromStart
<1> QED
  BY <1>2, <1>3, <1>4, <1>5, <1>6 DEF StreamFront

\* The bytes that follow the first byte of a frame are that frame's.
LEMMA FrameAt ==
  ASSUME NEW b \in Seq(Bytes), StreamFront(b), Lengths, NEW m \in 1..Len(b), Starts(b[m])
  PROVE  /\ b[m].frame \in 1..NumFrames /\ b[m] = Byte(b[m].frame, 1)
         /\ \A i \in 1..frames[b[m].frame].len :
              m + (i - 1) <= Len(b) => b[m + (i - 1)] = Byte(b[m].frame, i)
<1>1. b[m] \in Bytes /\ Data(b[m]) /\ b[m].at = 1
  BY DEF Starts
<1>2. PICK k \in 1..NumFrames : k = b[m].frame
  BY <1>1, ByteFacts
<1>3. PICK L \in Nat : L = frames[k].len /\ L >= 1
  BY <1>2 DEF Lengths
<1>4. ASSUME NEW i \in 1..L, m + (i - 1) <= Len(b) PROVE b[m + (i - 1)] = Byte(k, i)
  <2>1. PICK j \in 1..Len(b) : j = m + (i - 1)
    BY SMTT(30), <1>4
  <2>2. m <= j /\ 1 + (j - m) = i /\ i <= L
    BY <2>1
  <2>3. b[m].at + (j - m) <= frames[b[m].frame].len
    BY <1>1, <1>2, <1>3, <2>2
  <2>4. b[j] = Byte(b[m].frame, b[m].at + (j - m))
    BY <1>1, <2>1, <2>2, <2>3 DEF StreamFront, Contiguous
  <2> QED
    BY <1>1, <1>2, <2>1, <2>2, <2>4
<1>5. b[m] = Byte(k, 1)
  <2>1. m + (1 - 1) = m /\ m <= Len(b) /\ 1 \in 1..L
    BY <1>3
  <2>2. b[m + (1 - 1)] = Byte(k, 1)
    BY <1>4, <2>1
  <2> QED
    BY <2>1, <2>2
<1> QED
  BY <1>2, <1>3, <1>4, <1>5

\* A frame's bytes in order are the frame.
LEMMA WholeFrame ==
  ASSUME NEW y \in Seq(Bytes), NEW k, frames[k].len \in Nat, Len(y) = frames[k].len,
         \A i \in 1..frames[k].len : y[i] = Byte(k, i)
  PROVE  y = Whole(k)
<1>1. y = [i \in 1..Len(y) |-> y[i]]
  OBVIOUS
<1> QED
  BY <1>1 DEF Whole

\* What is cut from the first byte of a frame on, as long as the frame is, is the frame.
LEMMA CutsWhole ==
  ASSUME NEW b \in Seq(Bytes), StreamFront(b), Lengths, NEW d \in 0..Len(b), d < Len(b), Starts(b[d + 1]),
         d + frames[b[d + 1].frame].len <= Len(b)
  PROVE  \E k \in 1..NumFrames :
           /\ k = b[d + 1].frame /\ b[d + 1] = Byte(k, 1)
           /\ SubSeq(SubSeq(b, d + 1, Len(b)), 1, frames[k].len) = Whole(k)
<1>1. d + 1 \in 1..Len(b)
  OBVIOUS
<1>2. PICK k \in 1..NumFrames : k = b[d + 1].frame
  BY <1>1, FrameAt
<1>3. PICK L \in Nat : L = frames[k].len /\ L >= 1
  BY <1>2 DEF Lengths
<1>4. \A i \in 1..L : (d + 1) + (i - 1) <= Len(b) => b[(d + 1) + (i - 1)] = Byte(k, i)
  BY <1>1, <1>2, <1>3, FrameAt, Zenon
<1>5. PICK c : c = SubSeq(b, d + 1, Len(b))
  BY Zenon
<1>6. c \in Seq(Bytes) /\ Len(c) = Len(b) - d /\ \A i \in 1..(Len(b) - d) : c[i] = b[i + d]
  BY <1>5, DropFacts
<1>7. L \in 0..Len(c) /\ L <= Len(b) - d
  <2>1. d + L <= Len(b) /\ Len(b) \in Nat
    BY <1>2, <1>3, LenNat, Zenon
  <2> QED
    BY <1>6, <2>1, Fits, Zenon
<1>8. PICK y : y = SubSeq(c, 1, L)
  BY Zenon
<1>9. y \in Seq(Bytes) /\ Len(y) = L /\ \A i \in 1..L : y[i] = c[i]
  BY <1>6, <1>7, <1>8, FirstFacts
<1>10. ASSUME NEW i \in 1..L PROVE y[i] = Byte(k, i)
  <2>1. i \in 1..(Len(b) - d) /\ i + d = (d + 1) + (i - 1) /\ (d + 1) + (i - 1) <= Len(b)
    <3>1. PICK n \in Nat : n = Len(b)
      OBVIOUS
    <3>2. L <= n - d /\ d \in 0..n
      BY <1>7, <3>1, Zenon
    <3>3. i \in 1..(n - d) /\ i + d = (d + 1) + (i - 1) /\ (d + 1) + (i - 1) <= n
      BY SMTT(30), <1>3, <3>2
    <3> QED
      BY <3>1, <3>3
  <2>2. c[i] = b[(d + 1) + (i - 1)]
    BY <1>6, <2>1
  <2> QED
    BY <1>4, <1>9, <2>1, <2>2, Zenon
<1>11. y = Whole(k)
  BY <1>3, <1>9, <1>10, WholeFrame
<1>12. b[d + 1] = Byte(k, 1)
  BY <1>1, <1>2, FrameAt
<1> QED
  BY <1>2, <1>3, <1>5, <1>8, <1>11, <1>12, Zenon

LEMMA TakesWhole ==
  ASSUME NEW b \in Seq(Bytes), StreamFront(b), Lengths, NEW d \in 0..Len(b), d < Len(b), Starts(b[d + 1]),
         d + frames[b[d + 1].frame].len <= Len(b), Drops(b, d), NEW r,
         r.adu = SubSeq(SubSeq(b, d + 1, Len(b)), 1, frames[b[d + 1].frame].len),
         r.buffer = SubSeq(b, d + frames[b[d + 1].frame].len + 1, Len(b))
  PROVE  Takes(b, r)
<1>1. PICK k \in 1..NumFrames :
        /\ k = b[d + 1].frame /\ b[d + 1] = Byte(k, 1)
        /\ SubSeq(SubSeq(b, d + 1, Len(b)), 1, frames[k].len) = Whole(k)
  BY CutsWhole, Zenon
<1> QED
  BY <1>1, Zenon DEF Takes

\* Prefixed and content-length framings.
LEMMA ByLengthCuts ==
  ASSUME TypeOK, NEW b \in Seq(Bytes), StreamFront(b), ~SelfLocating
  PROVE  Cuts(b, ByLength(b))
<1>1. Lengths /\ \A k \in 1..NumFrames : frames[k].len >= Known
  BY FrameFacts
<1>2. PICK n \in Nat : n = Len(b)
  OBVIOUS
<1>3. Drops(b, 0) /\ 0 \in 0..Len(b) /\ SubSeq(b, 0 + 1, Len(b)) = b
  <2>1. SubSeq(b, 1, Len(b)) = b
    BY WholeSequence
  <2> QED
    BY <1>2, <2>1 DEF Drops
<1>4. ASSUME b # <<>>
      PROVE  /\ 1 \in 1..Len(b) /\ Starts(b[1]) /\ b[1].frame \in 1..NumFrames
             /\ b[1].at = 1
  <2>1. 1 \in 1..Len(b) /\ b[1].at = 1
    BY SMTT(30), <1>4, <1>2 DEF StreamFront
  <2>2. Starts(b[1])
    BY <2>1 DEF StreamFront, Starts
  <2> QED
    BY <1>1, <2>1, <2>2, FrameAt
<1>5. ASSUME n < MaxAduLen, b # <<>> => n < frames[b[1].frame].len
      PROVE  Cuts(b, More(b, 0))
  <2>1. More(b, 0).is = "more" /\ More(b, 0).buffer = b /\ More(b, 0).searched = 0
    BY DEF More
  <2>2. b # <<>> => Starts(b[1]) /\ 0 <= n - 1
    BY SMTT(30), <1>2, <1>4
  <2>3. Partial(b, 0)
    BY <1>2, <1>5, <2>2 DEF Partial
  <2>4. Waits(b, More(b, 0))
    BY <1>3, <2>1, <2>3 DEF Waits
  <2> QED
    BY <2>1, <2>4 DEF Cuts
<1>6. \A why \in {"length", "too_large"} : Cuts(b, Fails(b, why))
  BY FailsCuts
<1>7. CASE Len(b) < Known
  <2>1. ByLength(b) = More(b, 0)
    BY <1>7 DEF ByLength
  <2>2. n < MaxAduLen /\ (b # <<>> => n < frames[b[1].frame].len)
    BY SMTT(30), <1>1, <1>2, <1>4, <1>7, Bounds DEF Lengths
  <2> QED
    BY <1>5, <2>1, <2>2
<1>8. CASE ~(Len(b) < Known)
  <2>1. b # <<>>
    BY SMTT(30), <1>2, <1>8, Bounds
  <2>2. PICK k \in 1..NumFrames : k = b[1].frame
    BY <1>4, <2>1
  <2>3. PICK L \in Nat : L = frames[k].len /\ L >= 1
    BY <1>1, <2>2 DEF Lengths
  <2>4. CASE Length(b) = 0
    <3>1. ByLength(b) = Fails(b, "length")
      BY <1>8, <2>4 DEF ByLength
    <3> QED
      BY <1>6, <3>1
  <2>5. CASE Length(b) # 0
    <3>1. Length(b) = L /\ L <= MaxAduLen
      BY <2>2, <2>3, <2>5 DEF Length
    <3>2. CASE n >= L
      <4>1. ByLength(b) = Take(b, L)
        BY <1>2, <1>4, <1>8, <2>1, <2>5, <3>1, <3>2 DEF ByLength
      <4>2. PICK r : r = Take(b, L)
        OBVIOUS
      <4>3. /\ r.is = "adu" /\ r.adu = SubSeq(b, 1, L) /\ r.buffer = SubSeq(b, L + 1, Len(b))
            /\ r.searched = 0
        BY <4>2 DEF Take
      <4>4. 0 + 1 = 1 /\ 0 + L + 1 = L + 1 /\ 0 + L <= Len(b) /\ 0 < Len(b) /\ Starts(b[0 + 1])
            /\ frames[b[0 + 1].frame].len = L
        BY SMTT(30), <1>2, <1>4, <2>1, <2>2, <2>3, <3>2
      <4>5. Takes(b, r)
        <5>1. PICK d \in 0..Len(b) : d = 0
          BY <1>3
        <5>2. /\ d < Len(b) /\ Starts(b[d + 1]) /\ d + frames[b[d + 1].frame].len <= Len(b)
              /\ Drops(b, d)
          BY <1>3, <4>4, <5>1
        <5>3. frames[b[d + 1].frame].len = L /\ d + L + 1 = L + 1 /\ SubSeq(b, d + 1, Len(b)) = b
          BY <1>3, <4>4, <5>1
        <5>4. r.adu = SubSeq(SubSeq(b, d + 1, Len(b)), 1, frames[b[d + 1].frame].len)
          BY <4>3, <5>3, Zenon
        <5>5. r.buffer = SubSeq(b, d + frames[b[d + 1].frame].len + 1, Len(b))
          BY <4>3, <5>3, Zenon
        <5> QED
          BY <1>1, <5>2, <5>4, <5>5, TakesWhole, Zenon
      <4>6. boundary # "Silence"
        BY DEF SelfLocating
      <4> QED
        BY <4>1, <4>2, <4>3, <4>5, <4>6 DEF Cuts
    <3>3. CASE n < L
      <4>1. CASE boundary = "ContentLength" /\ ~WithinBound(b)
        <5>1. ByLength(b) = Fails(b, "too_large")
          BY SMTT(30), <1>2, <1>4, <1>8, <2>1, <2>5, <3>1, <3>3, <4>1 DEF ByLength
        <5> QED
          BY <1>6, <5>1
      <4>2. CASE ~(boundary = "ContentLength" /\ ~WithinBound(b))
        <5>1. ByLength(b) = More(b, 0)
          BY SMTT(30), <1>2, <1>4, <1>8, <2>1, <2>5, <3>1, <3>3, <4>2 DEF ByLength
        <5>2. n < MaxAduLen /\ n < frames[b[1].frame].len
          BY <2>2, <2>3, <3>1, <3>3, Bounds
        <5> QED
          BY <1>5, <5>1, <5>2
      <4> QED
        BY <4>1, <4>2
    <3> QED
      BY SMTT(30), <2>3, <3>2, <3>3
  <2> QED
    BY <2>4, <2>5
<1> QED
  BY <1>7, <1>8

\* Silence-delimited framings.
LEMMA BySilenceCuts ==
  ASSUME NEW b \in Seq(Bytes), boundary = "Silence"
  PROVE  Cuts(b, BySilence(b))
<1>1. PICK n \in Nat : n = Len(b)
  OBVIOUS
<1>2. Drops(b, 0) /\ 0 \in 0..Len(b) /\ SubSeq(b, 0 + 1, Len(b)) = b
  <2>1. SubSeq(b, 1, Len(b)) = b
    BY WholeSequence
  <2> QED
    BY <1>1, <2>1 DEF Drops
<1>3. CASE b # <<>> /\ ~WithinBound(b)
  <2>1. BySilence(b) = Fails(b, "too_large")
    BY <1>3 DEF BySilence
  <2> QED
    BY <2>1, FailsCuts
<1>4. CASE b = <<>> \/ WithinBound(b)
  <2>1. BySilence(b) = More(b, 0)
    BY <1>4 DEF BySilence
  <2>2. More(b, 0).is = "more" /\ More(b, 0).buffer = b /\ More(b, 0).searched = 0
    BY DEF More
  <2>3. n < MaxAduLen /\ (b # <<>> => 0 <= n - 1)
    BY SMTT(30), <1>1, <1>4, Bounds DEF WithinBound
  <2>4. Partial(b, 0)
    BY <1>1, <2>3 DEF Partial
  <2>5. Waits(b, More(b, 0))
    BY <1>2, <2>2, <2>4 DEF Waits
  <2> QED
    BY <2>1, <2>2, <2>5 DEF Cuts
<1> QED
  BY <1>3, <1>4

\* What the bytes of an ASCII stream say: only the first byte of a frame says "start", only
\* the last says "lf".
LEMMA SaysFacts ==
  ASSUME TypeOK, boundary = "Delimited", NEW x \in Bytes,
         Data(x) => x.at \in 1..frames[x.frame].len
  PROVE  /\ Says(x) = "start" <=> Starts(x)
         /\ Data(x) => /\ Says(x) = "lf" <=> x.at = frames[x.frame].len
                       /\ Says(x) = "cr" <=> x.at = frames[x.frame].len - 1
<1>1. CASE ~Data(x)
  <2>1. Says(x) = x.says
    BY <1>1, Zenon DEF Says, Data
  <2>2. x.says \in {"sent", "data", "cr"}
    BY DEF Bytes
  <2> QED
    BY <1>1, <2>1, <2>2 DEF Starts
<1>2. CASE Data(x)
  <2>1. x.frame \in 1..NumFrames /\ x.frame # 0 /\ x.at \in Nat /\ x.at >= 1
    BY SMTT(30), <1>2, ByteFacts DEF Data
  <2>2. PICK L \in Nat : L = frames[x.frame].len /\ L >= 3
    BY <2>1, FrameFacts DEF Lengths
  <2>3. PICK a \in Nat : a = x.at /\ 1 <= a /\ a <= L
    BY SMTT(30), <1>2, <2>1, <2>2
  <2>4. CASE a = 1
    <3>1. Says(x) = "start"
      BY SMTT(30), <2>1, <2>2, <2>3, <2>4 DEF Says
    <3> QED
      BY <1>2, <2>2, <2>3, <2>4, <3>1 DEF Starts
  <2>5. CASE a # 1 /\ a = L - 1
    <3>1. Says(x) = "cr"
      BY SMTT(30), <2>1, <2>2, <2>3, <2>5 DEF Says
    <3> QED
      BY <1>2, <2>2, <2>3, <2>5, <3>1 DEF Starts
  <2>6. CASE a # 1 /\ a = L
    <3>1. Says(x) = "lf"
      BY SMTT(30), <2>1, <2>2, <2>3, <2>6 DEF Says
    <3> QED
      BY SMTT(30), <1>2, <2>2, <2>3, <2>6, <3>1 DEF Starts
  <2>7. CASE a # 1 /\ a # L - 1 /\ a # L
    <3>1. Says(x) = "data"
      BY <2>1, <2>2, <2>3, <2>7 DEF Says
    <3> QED
      BY <1>2, <2>2, <2>3, <2>7, <3>1 DEF Starts
  <2> QED
    BY <2>4, <2>5, <2>6, <2>7
<1> QED
  BY <1>1, <1>2

\* The terminator is found where the frame ends, and nowhere before.
LEMMA Terminator ==
  ASSUME TypeOK, boundary = "Delimited", NEW c \in Seq(Bytes), NEW k \in 1..NumFrames,
         \A i \in 1..frames[k].len : i <= Len(c) => c[i] = Byte(k, i),
         NEW from \in Nat, from + 2 <= frames[k].len
  PROVE  /\ Len(c) < frames[k].len => Find(c, from) = {}
         /\ Len(c) >= frames[k].len =>
              Find(c, from) # {} /\ Min(Find(c, from)) = frames[k].len - 1
<1>1. PICK L \in Nat, n \in Nat : L = frames[k].len /\ n = Len(c) /\ L >= 3
  BY SMTT(30), FrameFacts DEF Lengths
<1>2. ASSUME NEW i \in 1..L, i <= n
      PROVE  (Says(c[i]) = "lf" <=> i = L) /\ (Says(c[i]) = "cr" <=> i = L - 1)
  <2>1. PICK x : x = c[i]
    OBVIOUS
  <2>2. x \in Bytes /\ x = Byte(k, i)
    BY SMTT(30), <1>1, <1>2, <2>1
  <2>3. x.frame = k /\ x.at = i /\ Data(x)
    BY <2>2 DEF Byte, Data
  <2> QED
    BY <1>1, <2>1, <2>2, <2>3, SaysFacts
<1>3. ASSUME NEW e \in Find(c, from) PROVE e \in Nat /\ e >= L - 1
  <2>1. e \in (from + 1)..(n - 1) /\ Says(c[e + 1]) = "lf"
    BY <1>1 DEF Find
  <2>2. e \in Nat /\ e + 1 >= 1 /\ e + 1 <= n
    BY <1>1, <2>1
  <2>3. e + 1 < L => e + 1 \in 1..L
    BY SMTT(30), <1>1, <2>2
  <2>4. ~(e + 1 < L)
    BY SMTT(30), <1>1, <1>2, <2>1, <2>2, <2>3
  <2> QED
    BY SMTT(30), <1>1, <2>2, <2>4
<1>4. ASSUME n < L PROVE Find(c, from) = {}
  <2>1. ASSUME NEW e \in Find(c, from) PROVE FALSE
    <3>1. e \in (from + 1)..(n - 1)
      BY <1>1 DEF Find
    <3> QED
      BY <1>1, <1>3, <1>4, <3>1
  <2> QED
    BY <2>1
<1>5. ASSUME n >= L PROVE Find(c, from) # {} /\ Min(Find(c, from)) = L - 1
  <2>1. PICK e \in Nat : e = L - 1
    BY <1>1
  <2>2. e \in 1..L /\ e + 1 \in 1..L /\ e <= n /\ e + 1 <= n /\ e + 1 = L
        /\ e \in (from + 1)..(n - 1)
    <3>1. from + 2 <= L /\ L >= 3
      BY <1>1
    <3> QED
      BY <1>5, <2>1, <3>1
  <2>3. Says(c[e]) = "cr" /\ Says(c[e + 1]) = "lf"
    BY <1>2, <2>1, <2>2
  <2>4. e \in Find(c, from)
    BY <1>1, <2>2, <2>3 DEF Find
  <2>5. Find(c, from) \subseteq Nat
    BY <1>3
  <2>6. Min(Find(c, from)) \in Find(c, from) /\ \A y \in Find(c, from) : Min(Find(c, from)) <= y
    BY <2>4, <2>5, MinFacts, Zenon
  <2>7. PICK m : m = Min(Find(c, from))
    OBVIOUS
  <2>8. m \in Nat /\ m >= L - 1 /\ m <= e
    BY <1>3, <2>4, <2>6, <2>7
  <2> QED
    BY SMTT(30), <1>1, <2>1, <2>4, <2>7, <2>8
<1> QED
  BY <1>1, <1>4, <1>5

LEMMA DropTwice ==
  ASSUME NEW S, NEW b \in Seq(S), NEW d \in 0..Len(b), NEW c, c = SubSeq(b, d + 1, Len(b)),
         NEW e \in 0..Len(c)
  PROVE  d + e \in 0..Len(b) /\ SubSeq(c, e + 1, Len(c)) = SubSeq(b, d + e + 1, Len(b))
<1>1. PICK n \in Nat : n = Len(b)
  OBVIOUS
<1>2. c \in Seq(S) /\ Len(c) = n - d /\ \A i \in 1..(n - d) : c[i] = b[i + d]
  BY <1>1, DropFacts
<1>3. PICK x : x = SubSeq(c, e + 1, Len(c))
  BY Zenon
<1>4. x \in Seq(S) /\ Len(x) = Len(c) - e /\ \A i \in 1..(Len(c) - e) : x[i] = c[i + e]
  BY <1>2, <1>3, DropFacts, Zenon
<1>5. PICK f \in 0..Len(b) : f = d + e
  BY <1>1, <1>2
<1>6. PICK y : y = SubSeq(b, f + 1, Len(b))
  BY Zenon
<1>7. y \in Seq(S) /\ Len(y) = Len(b) - f /\ \A i \in 1..(Len(b) - f) : y[i] = b[i + f]
  BY <1>6, DropFacts
<1>8. Len(x) = Len(y)
  BY SMTT(30), <1>1, <1>2, <1>4, <1>5, <1>7
<1>9. ASSUME NEW i \in 1..Len(x) PROVE x[i] = y[i]
  <2>1. i \in 1..(Len(c) - e) /\ i \in 1..(Len(b) - f)
    BY <1>4, <1>7, <1>8
  <2>2. i + e \in 1..(n - d) /\ (i + e) + d = i + f
    BY SMTT(30), <1>1, <1>2, <1>5, <2>1
  <2>3. c[i + e] = b[i + f]
    BY <1>2, <2>2
  <2> QED
    BY <1>4, <1>7, <2>1, <2>3, Zenon
<1>10. x = y
  BY <1>4, <1>7, <1>8, <1>9, SameSequence
<1> QED
  BY <1>3, <1>5, <1>6, <1>10

\* Delimited framings.
LEMMA ByDelimiterCuts ==
  ASSUME TypeOK, boundary = "Delimited", NEW b \in Seq(Bytes), StreamFront(b), NEW s, Sought(b, s)
  PROVE  Cuts(b, ByDelimiter(b, s))
<1>1. Lengths
  BY FrameFacts
<1>2. PICK n \in Nat : n = Len(b) /\ DOMAIN b = 1..n
  OBVIOUS
<1>3. PICK starts : starts = {i \in DOMAIN b : Says(b[i]) = "start"}
  BY Zenon
<1>4. \A i \in 1..n : b[i] \in Bytes /\ (i \in starts <=> Starts(b[i]))
  <2> SUFFICES ASSUME NEW i \in 1..n PROVE b[i] \in Bytes /\ (i \in starts <=> Starts(b[i]))
    OBVIOUS
  <2>1. b[i] \in Bytes
    BY SMTT(30), <1>2
  <2>2. Data(b[i]) => b[i].at \in 1..frames[b[i].frame].len
    BY <1>2 DEF StreamFront, Genuine
  <2>3. Says(b[i]) = "start" <=> Starts(b[i])
    BY <2>1, <2>2, SaysFacts
  <2> QED
    BY <1>2, <1>3, <2>1, <2>3
<1>5. CASE starts = {}
  <2>1. ByDelimiter(b, s) = More(<<>>, 0)
    BY <1>3, <1>5 DEF ByDelimiter
  <2>2. PICK r : r = More(<<>>, 0)
    BY Zenon
  <2>3. r.is = "more" /\ r.buffer = <<>> /\ r.searched = 0
    BY <2>2 DEF More
  <2>4. n \in 0..Len(b) /\ Drops(b, n)
    BY SMTT(30), <1>2, <1>4, <1>5 DEF Drops
  <2>5. SubSeq(b, n + 1, Len(b)) = <<>>
    <3>1. n + 1 \in Int /\ Len(b) \in Int /\ Len(b) < n + 1
      BY SMTT(30), <1>2
    <3> QED
      BY <3>1, NoSequence
  <2>6. Partial(<<>>, 0)
    BY Bounds DEF Partial
  <2>7. Waits(b, r)
    <3>1. r.buffer = SubSeq(b, n + 1, Len(b)) /\ Partial(r.buffer, r.searched)
      BY <2>3, <2>5, <2>6, Zenon
    <3> QED
      BY <2>4, <3>1, Zenon DEF Waits
  <2> QED
    BY <2>1, <2>2, <2>3, <2>7 DEF Cuts
<1>6. CASE starts # {}
  <2>1. PICK m : m = Min(starts)
    BY Zenon
  <2>2. m \in 1..n /\ Starts(b[m]) /\ \A i \in 1..n : i < m => ~Starts(b[i])
    <3>1. starts \subseteq 1..n /\ starts \subseteq Nat
      BY SMTT(30), <1>2, <1>3
    <3>2. m \in starts /\ \A y \in starts : m <= y
      BY <1>6, <2>1, <3>1, MinFacts, Zenon
    <3>3. \A i \in 1..n : i < m => i \notin starts
      BY SMTT(30), <3>1, <3>2
    <3> QED
      BY <1>4, <3>1, <3>2, <3>3
  <2>3. PICK d \in 0..Len(b) : d = m - 1 /\ d < n /\ d + 1 = m
    BY <1>2, <2>2
  <2>4. Drops(b, d)
    BY SMTT(30), <1>2, <2>2, <2>3 DEF Drops
  <2>5. PICK c : c = SubSeq(b, m, Len(b))
    BY Zenon
  <2>6. c = SubSeq(b, d + 1, Len(b))
    BY <2>3, <2>5
  <2>7. c \in Seq(Bytes) /\ Len(c) = n - d /\ \A i \in 1..(n - d) : c[i] = b[i + d]
    BY <1>2, <2>6, DropFacts
  <2>8. PICK k \in 1..NumFrames : k = b[m].frame
    BY <1>1, <1>2, <2>2, FrameAt
  <2>9. PICK L \in Nat : L = frames[k].len /\ L >= 3
    BY <2>8, FrameFacts DEF Lengths
  <2>10. ASSUME NEW i \in 1..L, i <= Len(c) PROVE c[i] = Byte(k, i)
    <3>1. i \in 1..(n - d) /\ i + d = m + (i - 1) /\ m + (i - 1) <= Len(b)
      BY SMTT(30), <1>2, <2>3, <2>7, <2>10
    <3>2. \A j \in 1..frames[b[m].frame].len :
            m + (j - 1) <= Len(b) => b[m + (j - 1)] = Byte(b[m].frame, j)
      <4>1. m \in 1..Len(b)
        BY <1>2, <2>2
      <4> QED
        BY <1>1, <2>2, <4>1, FrameAt, Zenon
    <3>3. b[m + (i - 1)] = Byte(k, i)
      BY <2>8, <2>9, <3>1, <3>2, Zenon
    <3> QED
      BY <2>7, <3>1, <3>3
  <2>11. PICK from \in Nat : from = (IF m > 1 THEN 0 ELSE s) /\ from + 2 <= L
    <3>1. CASE m > 1
      BY <2>9, <3>1
    <3>2. CASE m = 1
      <4>1. b # <<>> /\ b[m] = b[1]
        BY <1>2, <2>2, <3>2
      <4>2. s \in Nat /\ s + 2 <= L
        BY <2>2, <2>8, <2>9, <4>1 DEF Sought
      <4> QED
        BY SMTT(30), <3>2, <4>2
    <3> QED
      BY SMTT(30), <2>2, <3>1, <3>2
  <2>12. PICK ends : ends = Find(c, from)
    BY Zenon
  <2>13. /\ Len(c) < L => ends = {}
         /\ Len(c) >= L => ends # {} /\ Min(ends) = L - 1
    <3>1. \A i \in 1..frames[k].len : i <= Len(c) => c[i] = Byte(k, i)
      BY <2>9, <2>10, Zenon
    <3>2. c \in Seq(Bytes) /\ from + 2 <= frames[k].len
      BY <2>7, <2>9, <2>11
    <3> QED
      BY <2>9, <2>12, <3>1, <3>2, Terminator, Zenon
  <2>14. ByDelimiter(b, s) = IF ends # {} THEN Take(c, Min(ends) + 1)
                             ELSE IF ~WithinBound(c) THEN Fails(c, "too_large")
                             ELSE More(c, Searched(c))
    BY <1>3, <1>6, <2>1, <2>5, <2>11, <2>12, Zenon DEF ByDelimiter
  <2>15. CASE Len(c) >= L
    <3>1. PICK r : r = Take(c, L)
      BY Zenon
    <3>2. ByDelimiter(b, s) = r
      <4>1. Min(ends) + 1 = L
        BY SMTT(30), <2>9, <2>13, <2>15
      <4> QED
        BY <2>13, <2>14, <2>15, <3>1, <4>1
    <3>3. /\ r.is = "adu" /\ r.adu = SubSeq(c, 1, L) /\ r.buffer = SubSeq(c, L + 1, Len(c))
          /\ r.searched = 0
      BY <3>1 DEF Take
    <3>4. L \in 0..Len(c)
      BY SMTT(30), <2>7, <2>9, <2>15
    <3>5. d + L \in 0..Len(b) /\ SubSeq(c, L + 1, Len(c)) = SubSeq(b, d + L + 1, Len(b))
      BY SMTT(30), <2>6, <3>4, DropTwice
    <3>6. frames[b[d + 1].frame].len = L /\ Starts(b[d + 1]) /\ d < Len(b) /\ d + L <= Len(b)
      <4>1. frames[b[m].frame].len = L /\ Starts(b[m])
        BY <2>2, <2>8, <2>9, Zenon
      <4>2. frames[b[d + 1].frame].len = L /\ Starts(b[d + 1])
        BY <2>3, <4>1, Zenon
      <4>3. d + L <= Len(b)
        BY SMTT(30), <3>5
      <4> QED
        BY <1>2, <2>3, <4>2, <4>3
    <3>7. r.adu = SubSeq(SubSeq(b, d + 1, Len(b)), 1, frames[b[d + 1].frame].len)
      BY <2>6, <3>3, <3>6, Zenon
    <3>8. r.buffer = SubSeq(b, d + frames[b[d + 1].frame].len + 1, Len(b))
      BY <3>3, <3>5, <3>6, Zenon
    <3>9. Takes(b, r)
      BY <1>1, <2>4, <3>6, <3>7, <3>8, TakesWhole, Zenon
    <3> QED
      BY <3>2, <3>3, <3>9 DEF Cuts
  <2>16. CASE Len(c) < L /\ ~WithinBound(c)
    <3>1. ByDelimiter(b, s) = Fails(c, "too_large")
      BY <2>13, <2>14, <2>16
    <3>2. PICK r : r = Fails(c, "too_large")
      BY Zenon
    <3>3. r.is = "fail" /\ r.why = "too_large" /\ r.searched = 0
      BY <3>2 DEF Fails
    <3> QED
      BY <3>1, <3>2, <3>3 DEF Cuts, GivesUp, SelfLocating
  <2>17. CASE Len(c) < L /\ WithinBound(c)
    <3>1. ByDelimiter(b, s) = More(c, Searched(c))
      BY <2>13, <2>14, <2>17
    <3>2. PICK r : r = More(c, Searched(c))
      BY Zenon
    <3>3. r.is = "more" /\ r.buffer = c /\ r.searched = Searched(c)
      BY <3>2 DEF More
    <3>4. 1 \in 1..(n - d) /\ 1 + d = m /\ c # <<>>
      BY SMTT(30), <2>3, <2>7
    <3>5. c[1] = b[m]
      BY <2>7, <3>4
    <3>6. Searched(c) \in Nat /\ Searched(c) <= Len(c) - 1
      BY SMTT(30), <2>3, <2>7 DEF Searched
    <3>7. Partial(c, Searched(c))
      BY <2>2, <2>8, <2>9, <2>17, <3>4, <3>5, <3>6 DEF Partial, WithinBound
    <3>8. Waits(b, r)
      BY <2>4, <2>6, <3>3, <3>7 DEF Waits
    <3> QED
      BY <3>1, <3>2, <3>3, <3>8 DEF Cuts
  <2> QED
    BY SMTT(30), <2>7, <2>9, <2>15, <2>16, <2>17
<1> QED
  BY <1>5, <1>6

\* Every rule, on the buffer and what has been searched of it.
LEMMA ReadAduCuts ==
  ASSUME TypeOK, NEW b \in Seq(Bytes), StreamFront(b), NEW s, Sought(b, s)
  PROVE  Cuts(b, ReadAdu(b, s))
<1>1. boundary \in {"Prefixed", "Delimited", "Silence", "ContentLength"}
  BY TransportAssumption, Zenon DEF TypeOK
<1>2. CASE boundary \in {"Prefixed", "ContentLength"}
  <2>1. ReadAdu(b, s) = ByLength(b) /\ ~SelfLocating
    BY <1>2 DEF ReadAdu, SelfLocating
  <2> QED
    BY <2>1, ByLengthCuts
<1>3. CASE boundary = "Delimited"
  <2>1. ReadAdu(b, s) = ByDelimiter(b, s)
    BY <1>3 DEF ReadAdu
  <2> QED
    BY <1>3, <2>1, ByDelimiterCuts
<1>4. CASE boundary = "Silence"
  <2>1. ReadAdu(b, s) = BySilence(b)
    BY <1>4 DEF ReadAdu
  <2> QED
    BY <1>4, <2>1, BySilenceCuts
<1> QED
  BY <1>1, <1>2, <1>3, <1>4

-----------------------------------------------------------------------------
(* The steps of a receive.                                                  *)

LEMMA FrontFacts ==
  ASSUME IInv, NEW b \in Seq(Bytes), NEW p \in Seq(Bytes), b \o p = Stream
  PROVE  StreamFront(b)
<1>1. PICK w : w = Stream
  BY Zenon
<1>2. w \in Seq(Bytes) /\ Len(w) = Len(b) + Len(p) /\ \A i \in 1..Len(b) : w[i] = b[i]
  BY <1>1, JoinFacts, Zenon
<1>3. Len(b) <= Len(w)
  BY SMTT(30), <1>2
<1>4. InOrder(w) /\ FromStart(w)
  BY <1>1, Zenon DEF IInv
<1> QED
  BY <1>2, <1>3, <1>4, FrontOfStream

\* A frame has room for a terminator.
LEMMA SoughtFromStart ==
  ASSUME TypeOK, NEW b \in Seq(Bytes)
  PROVE  Sought(b, 0)
<1>1. ASSUME boundary = "Delimited", b # <<>>, Starts(b[1]) PROVE 0 + 2 <= frames[b[1].frame].len
  <2>1. b[1] \in Bytes /\ Data(b[1])
    BY <1>1 DEF Starts
  <2>2. b[1].frame \in 1..NumFrames
    BY <2>1, ByteFacts
  <2>3. PICK L \in Nat : L = frames[b[1].frame].len /\ L >= 3
    BY <1>1, <2>2, FrameFacts DEF Lengths
  <2> QED
    BY SMTT(30), <2>3
<1> QED
  BY <1>1 DEF Sought

LEMMA BeginKeeps ==
  ASSUME IInv, Begin
  PROVE  IInv' /\ Shrinks
<1>1. /\ TypeOK /\ Waiting /\ UNCHANGED <<peerVars, pipe>> /\ phase = "idle"
      /\ receives < MaxReceives /\ receives' = receives + 1
  BY DEF IInv, Begin
<1>2. /\ boundary' = boundary /\ frames' = frames /\ place' = place /\ noise' = noise
      /\ closed' = closed /\ pipe' = pipe
  BY <1>1 DEF peerVars
<1>3. receives' \in 0..MaxReceives /\ receives \in Nat /\ failures \in Nat /\ failures <= receives
  BY SMTT(30), <1>1, Bounds DEF TypeOK, Waiting
<1>4. CASE ~receiving /\ Settle(ReadAdu(buffer, 0))
  <2>1. Gathered(buffer)
    <3>1. buffer \in Seq(Bytes) /\ pipe' \in Seq(Bytes) /\ buffer \o pipe' = Stream
      BY <1>2, StreamFacts DEF Stream
    <3>2. failures < receives'
      BY SMTT(30), <1>1, <1>3
    <3>3. Len(buffer) < MaxAduLen + ReadChunk
      BY DEF IInv, BufferBounded
    <3> QED
      BY <1>1, <1>3, <3>1, <3>2, <3>3, Zenon DEF Gathered
  <2>2. buffer \in Seq(Bytes) /\ StreamFront(buffer) /\ Sought(buffer, 0)
    BY <1>1, StreamFacts, FrontFacts, SoughtFromStart, Zenon DEF Stream
  <2>3. Cuts(buffer, ReadAdu(buffer, 0))
    BY <1>1, <2>2, ReadAduCuts
  <2> QED
    BY <1>4, <2>1, <2>3, SettleKeeps, Zenon
<1>5. CASE /\ receiving /\ outcome' = "latched" /\ failures' = failures + 1
           /\ UNCHANGED <<buffer, receiving, phase, searched, delivered>>
  <2>1. /\ buffer' = buffer /\ receiving' = receiving /\ phase' = phase /\ searched' = searched
        /\ delivered' = delivered /\ outcome' = "latched" /\ failures' = failures + 1
        /\ Stream' = Stream
    BY <1>2, <1>5 DEF Stream
  <2>2. failures' \in Nat /\ failures' # 0 /\ failures' <= receives' /\ failures' \in 0..MaxReceives
    BY SMTT(30), <1>1, <1>3, <2>1, Bounds
  <2>3. TypeOK'
    BY <1>1, <1>2, <1>3, <2>1, <2>2 DEF TypeOK
  <2>4. Waiting' /\ BufferBounded'
    BY <1>1, <2>1, <2>2 DEF IInv, Waiting, BufferBounded
  <2>5. PlaceKept' /\ InOrder(Stream)' /\ FromStart(Stream)'
    BY <1>2, <2>1, StreamKept
  <2>6. Ahead(Stream)'
    BY <1>2, <2>1, <2>2, Zenon DEF IInv, Ahead, Data
  <2>7. ExactFrames'
    <3>1. ASSUME boundary # "Silence", NEW j \in DOMAIN delivered
          PROVE  /\ delivered[j] # <<>> /\ delivered[j][1].frame # 0
                 /\ delivered[j] = Whole(delivered[j][1].frame)
                 /\ j > 1 => delivered[j][1].frame > delivered[j - 1][1].frame
      BY <3>1, Zenon DEF ExactFrames, IInv
    <3>2. \A k : Whole(k)' = Whole(k)
      BY <1>2, Zenon DEF Whole, Byte
    <3>3. (boundary # "Silence") => \A j \in DOMAIN delivered' :
            /\ delivered'[j] # <<>> /\ delivered'[j][1].frame # 0
            /\ delivered'[j] = Whole(delivered[j][1].frame)'
            /\ j > 1 => delivered'[j][1].frame > delivered'[j - 1][1].frame
      BY <2>1, <3>1, <3>2
    <3> QED
      BY <1>2, <2>2, <3>3, Zenon DEF ExactFrames
  <2>8. Aligned'
    BY <1>2, <2>1, Zenon DEF IInv, Aligned, SelfLocating
  <2>9. Shrinks
    BY <1>2, <2>1, <2>2, StandsStill, Zenon
  <2> QED
    BY <2>3, <2>4, <2>5, <2>6, <2>7, <2>8, <2>9, Zenon DEF IInv
<1> QED
  BY <1>4, <1>5 DEF Begin

LEMMA ReadKeeps ==
  ASSUME IInv, Read
  PROVE  IInv' /\ Shrinks
<1>1. /\ TypeOK /\ Waiting /\ UNCHANGED <<peerVars, receives>> /\ phase = "waiting" /\ pipe # <<>>
  BY DEF IInv, Read
<1>2. PICK n \in 1..Min({ReadChunk, Len(pipe)}) :
        /\ pipe' = SubSeq(pipe, n + 1, Len(pipe))
        /\ Settle(ReadAdu(buffer \o SubSeq(pipe, 1, n), searched))
  BY DEF Read
<1>3. buffer \in Seq(Bytes) /\ pipe \in Seq(Bytes) /\ Len(pipe) \in Nat /\ Len(buffer) \in Nat
  BY SMTT(30), StreamFacts
<1>4. n \in Nat /\ n >= 1 /\ n <= ReadChunk /\ n <= Len(pipe) /\ n \in 0..Len(pipe)
  <2>1. {ReadChunk, Len(pipe)} \subseteq Nat /\ {ReadChunk, Len(pipe)} # {}
    BY <1>3, Bounds
  <2>2. PICK m : m = Min({ReadChunk, Len(pipe)})
    BY Zenon
  <2>3. m \in {ReadChunk, Len(pipe)} /\ \A y \in {ReadChunk, Len(pipe)} : m <= y
    BY <2>1, <2>2, MinFacts, Zenon
  <2>4. m \in Nat /\ m <= ReadChunk /\ m <= Len(pipe) /\ n \in 1..m
    BY <1>2, <2>1, <2>2, <2>3
  <2> QED
    BY <1>3, <2>4, Bounds
<1>5. PICK t : t = SubSeq(pipe, 1, n)
  BY Zenon
<1>6. t \in Seq(Bytes) /\ Len(t) = n
  BY <1>3, <1>4, <1>5, FirstFacts
<1>7. PICK b : b = buffer \o t
  BY Zenon
<1>8. b \in Seq(Bytes) /\ Len(b) = Len(buffer) + n /\ \A i \in 1..Len(buffer) : b[i] = buffer[i]
  <2>1. /\ buffer \o t \in Seq(Bytes) /\ Len(buffer \o t) = Len(buffer) + Len(t)
        /\ \A i \in 1..Len(buffer) : (buffer \o t)[i] = buffer[i]
    <3>1. buffer \in Seq(Bytes) /\ t \in Seq(Bytes)
      BY <1>3, <1>6
    <3> QED
      BY <3>1, JoinFacts, Zenon
  <2> QED
    BY <1>6, <1>7, <2>1, Zenon
<1>9. pipe' \in Seq(Bytes) /\ b \o pipe' = Stream
  <2>1. (buffer \o SubSeq(pipe, 1, n)) \o SubSeq(pipe, n + 1, Len(pipe)) = buffer \o pipe
    <3>1. pipe \in Seq(Bytes) /\ buffer \in Seq(Bytes) /\ n \in 0..Len(pipe)
      BY <1>3, <1>4
    <3> QED
      BY <3>1, ReadJoins, Zenon
  <2>2. SubSeq(pipe, n + 1, Len(pipe)) \in Seq(Bytes)
    BY <1>3, <1>4, DropFacts
  <2> QED
    BY <1>2, <1>5, <1>7, <2>1, <2>2, Zenon DEF Stream
<1>10. Partial(buffer, searched) /\ failures < receives
  BY <1>1 DEF Waiting
<1>11. Gathered(b)
  <2>1. Len(buffer) < MaxAduLen
    BY <1>10 DEF Partial
  <2>2. Len(b) < MaxAduLen + ReadChunk
    BY SMTT(30), <1>3, <1>4, <1>8, <2>1, Bounds
  <2>3. receives' \in 0..MaxReceives /\ failures < receives' /\ UNCHANGED peerVars
    BY <1>1, <1>10 DEF TypeOK
  <2> QED
    BY <1>8, <1>9, <2>2, <2>3, Zenon DEF Gathered
<1>12. StreamFront(b)
  BY <1>8, <1>9, FrontFacts, Zenon
<1>13. Sought(b, searched)
  <2>1. CASE buffer = <<>>
    <3>1. searched = 0
      BY SMTT(30), <1>10, <2>1 DEF Partial
    <3> QED
      BY <1>1, <1>8, <3>1, SoughtFromStart
  <2>2. CASE buffer # <<>>
    <3>1. 1 \in 1..Len(buffer)
      BY SMTT(30), <1>3, <2>2
    <3>2. b[1] = buffer[1]
      BY <1>8, <3>1
    <3>3. ASSUME boundary = "Delimited" PROVE searched + 2 <= frames[b[1].frame].len
      <4>1. /\ Starts(buffer[1]) /\ Len(buffer) < frames[buffer[1].frame].len
            /\ searched \in Nat /\ searched <= Len(buffer) - 1
        BY <1>10, <2>2, <3>3 DEF Partial
      <4>2. buffer[1] \in Bytes /\ Data(buffer[1])
        BY SMTT(30), <1>3, <3>1, <4>1 DEF Starts
      <4>3. frames[buffer[1].frame].len \in Nat
        BY <1>1, <4>2, ByteFacts, FrameFacts DEF Lengths
      <4> QED
        BY SMTT(30), <1>3, <3>2, <4>1, <4>3
    <3>4. searched \in Nat
      BY <1>10 DEF Partial
    <3> QED
      BY <3>3, <3>4 DEF Sought
  <2> QED
    BY <2>1, <2>2
<1>14. Cuts(b, ReadAdu(b, searched))
  BY <1>1, <1>8, <1>12, <1>13, ReadAduCuts
<1>15. Settle(ReadAdu(b, searched))
  BY <1>2, <1>5, <1>7, Zenon
<1> QED
  BY <1>11, <1>14, <1>15, SettleKeeps, Zenon

\* A step of a waiting receive that reads nothing.
LEMMA GatheredAsItWas ==
  ASSUME IInv, phase = "waiting", UNCHANGED <<peerVars, pipe, receives>>
  PROVE  Gathered(buffer)
<1>1. TypeOK /\ Waiting /\ BufferBounded /\ pipe' = pipe /\ receives' = receives /\ UNCHANGED peerVars
  BY DEF IInv
<1>2. buffer \in Seq(Bytes) /\ pipe' \in Seq(Bytes) /\ buffer \o pipe' = Stream
  BY <1>1, StreamFacts DEF Stream
<1>3. receives' \in 0..MaxReceives /\ failures < receives'
  BY <1>1 DEF TypeOK, Waiting
<1>4. Len(buffer) < MaxAduLen + ReadChunk
  BY <1>1 DEF BufferBounded
<1> QED
  BY <1>1, <1>2, <1>3, <1>4, Zenon DEF Gathered

LEMMA EndsKeep ==
  ASSUME IInv, ReadClosed \/ ReadFails \/ Silence \/ Stall
  PROVE  IInv' /\ Shrinks
<1>1. phase = "waiting" /\ UNCHANGED <<peerVars, pipe, receives>>
  BY DEF ReadClosed, ReadFails, Silence, Stall
<1>2. Gathered(buffer)
  BY <1>1, GatheredAsItWas
<1>3. CASE ReadClosed
  <2>1. pipe = <<>> /\ closed /\ Settle(Close(buffer))
    BY <1>3 DEF ReadClosed
  <2>2. CASE buffer = <<>>
    <3>1. Settle(Fails(buffer, "eof"))
      BY <2>1, <2>2 DEF Close
    <3> QED
      BY <1>2, <3>1, FailureKeeps
  <2>3. CASE buffer # <<>> /\ boundary = "Silence"
    <3>1. Settle(Take(buffer, Len(buffer)))
      BY <2>1, <2>3 DEF Close
    <3> QED
      BY <1>2, <2>1, <2>3, <3>1, SettleLine
  <2>4. CASE buffer # <<>> /\ boundary # "Silence"
    <3>1. Settle(Fails(buffer, "severed"))
      BY <2>1, <2>4 DEF Close
    <3> QED
      BY <1>2, <3>1, FailureKeeps
  <2> QED
    BY <2>2, <2>3, <2>4
<1>4. CASE ReadFails
  <2>1. Settle(Fails(buffer, "io"))
    BY <1>4 DEF ReadFails
  <2> QED
    BY <1>2, <2>1, FailureKeeps
<1>5. CASE Silence
  BY <1>2, <1>5, SettleLine, Zenon DEF Silence
<1>6. CASE Stall
  <2>1. Settle(Fails(buffer, "stalled"))
    BY <1>6 DEF Stall
  <2> QED
    BY <1>2, <2>1, FailureKeeps
<1> QED
  BY <1>3, <1>4, <1>5, <1>6

LEMMA Invariance == Spec => [](IInv /\ Kept)
<1>1. Init => IInv /\ Kept
  BY InitHolds, InitKept
<1>2. IInv /\ Kept /\ [Next]_vars => IInv' /\ Kept'
  <2> SUFFICES ASSUME IInv, Kept, [Next]_vars PROVE IInv' /\ Kept'
    OBVIOUS
  <2>1. CASE PeerSends
    BY <2>1, PeerSendsKeeps, SendKeeps
  <2>2. CASE LineNoise
    BY <2>2, LineNoiseKeeps, NoiseKeeps
  <2>3. CASE PeerCloses \/ Abandon \/ UNCHANGED vars
    BY <2>3, RestKeeps, ShrinksKeeps
  <2>4. CASE Begin
    BY <2>4, BeginKeeps, ShrinksKeeps
  <2>5. CASE Read
    BY <2>5, ReadKeeps, ShrinksKeeps
  <2>6. CASE ReadClosed \/ ReadFails \/ Silence \/ Stall
    BY <2>6, EndsKeep, ShrinksKeeps
  <2> QED
    BY <2>1, <2>2, <2>3, <2>4, <2>5, <2>6 DEF Next
<1> QED
  BY <1>1, <1>2, PTL DEF Spec

-----------------------------------------------------------------------------
(* Theorems.                                                                *)

\* The reader's state is well typed, and its latch is set whenever a receive waits in a read.
THEOREM TransportTypeCorrect == Spec => []TypeOK
<1>1. IInv => TypeOK
  BY DEF IInv
<1> QED
  BY <1>1, Invariance, PTL

\* recv_adu: whatever the frames' lengths, the bound, the size of a read and the division of the
\* stream into reads, each ADU returned is one frame as it was sent, in its turn.
THEOREM FramesAreExact == Spec => []ExactFrames
<1>1. IInv => ExactFrames
  BY DEF IInv
<1> QED
  BY <1>1, Invariance, PTL

\* After any number of failures the buffer of a length-prefixed framing begins with a frame, and that
\* of a self-locating framing keeps nothing of the failed attempt.
THEOREM ReaderStaysAligned == Spec => []Aligned
<1>1. IInv => Aligned
  BY DEF IInv
<1> QED
  BY <1>1, Invariance, PTL

\* check_buffer_bound, and the lengths read_prefixed accepts: the buffer stays below one ADU and one
\* read.
THEOREM BufferIsBounded == Spec => []BufferBounded
<1>1. IInv => BufferBounded
  BY DEF IInv
<1> QED
  BY <1>1, Invariance, PTL

\* A receive reads on only as long as its buffer holds no whole frame, wherever a read has split the
\* terminator that read_delimited looks for.
THEOREM NothingIsWithheld == Spec => []NothingWithheld
<1>1. ASSUME IInv PROVE NothingWithheld
  <2> SUFFICES ASSUME boundary # "Silence", phase = "waiting", NEW k \in DOMAIN frames,
                      Byte(k, frames[k].len) \in Range(buffer)
               PROVE  FALSE
    BY DEF NothingWithheld
  <2>1. TypeOK /\ Lengths /\ buffer \in Seq(Bytes) /\ Partial(buffer, searched)
    BY <1>1, FrameFacts, StreamFacts DEF IInv, Waiting
  <2>2. StreamFront(buffer)
    <3>1. pipe \in Seq(Bytes) /\ buffer \o pipe = Stream
      BY <1>1, StreamFacts, Zenon DEF Stream
    <3> QED
      BY <1>1, <2>1, <3>1, FrontFacts, Zenon
  <2>3. PICK i \in 1..Len(buffer) : buffer[i] = Byte(k, frames[k].len)
    BY SMTT(30), <2>1 DEF Range
  <2>4. PICK n \in Nat : n = Len(buffer) /\ i \in 1..n /\ 1 \in 1..Len(buffer) /\ buffer # <<>>
    BY <2>1
  <2>5. Starts(buffer[1]) /\ n < frames[buffer[1].frame].len
    BY <2>1, <2>4 DEF Partial
  <2>6. PICK h \in 1..NumFrames : h = buffer[1].frame
    BY <2>1, <2>2, <2>4, <2>5, FrameAt
  <2>7. PICK L \in Nat : L = frames[h].len /\ n < L
    BY <2>1, <2>5, <2>6 DEF Lengths
  <2>8. \A j \in 1..frames[buffer[1].frame].len :
          1 + (j - 1) <= Len(buffer) => buffer[1 + (j - 1)] = Byte(buffer[1].frame, j)
    BY <2>1, <2>2, <2>4, <2>5, FrameAt, Zenon
  <2>9. buffer[i] = Byte(h, i)
    <3>1. i \in 1..L /\ 1 + (i - 1) = i /\ i <= Len(buffer)
      BY SMTT(30), <2>4, <2>7
    <3> QED
      BY <2>6, <2>7, <2>8, <3>1
  <2>10. PICK x : x = buffer[i]
    BY Zenon
  <2>11. x.frame = h /\ x.at = i /\ x.frame = k /\ x.at = frames[k].len
    BY SMTT(30), <2>3, <2>9, <2>10 DEF Byte
  <2> QED
    BY SMTT(30), <2>4, <2>7, <2>11
<1> QED
  BY <1>1, Invariance, PTL

\* recv_adu, take and the latch: whatever is dropped, abandoned or heard between the frames, the bytes
\* of the frames are returned and kept in the order they were sent, none twice and none that was not
\* sent; and until a receive fails, every one of them is returned, buffered or unread.
THEOREM NothingIsLost == Spec => []NothingLost
<1>1. ASSUME IInv, Kept PROVE NothingLost
  <2>1. PICK D, m : D = delivered /\ D \in Seq(Seq(Bytes)) /\ m = Len(D) /\ m \in Nat
    <3>1. delivered \in Seq(Seq(Bytes))
      BY <1>1 DEF IInv, TypeOK
    <3>2. Len(delivered) \in Nat
      BY <3>1, LenNat, Zenon
    <3> QED
      BY <3>1, <3>2, Zenon
  <2>2. PICK w \in Seq(Bytes) : w = Stream /\ InOrder(w)
    BY <1>1, StreamFacts, Zenon DEF IInv
  <2>3. /\ DOMAIN Carried = 1..(m + 1) /\ Carried[m + 1] = w /\ \A a \in 1..m : Carried[a] = D[a]
    <3>1. PICK T : T = Seq(Bytes)
      BY Zenon
    <3>2. D \in Seq(T) /\ w \in T
      BY <2>1, <2>2, <3>1, Zenon
    <3>3. /\ Append(D, w) \in Seq(T) /\ Len(Append(D, w)) = Len(D) + 1
          /\ \A i \in 1..Len(D) : Append(D, w)[i] = D[i]
          /\ Append(D, w)[Len(D) + 1] = w
      BY SMTT(30), <3>2, AppendFacts
    <3>4. DOMAIN Append(D, w) = 1..(m + 1)
      BY <2>1, <3>3
    <3>5. Carried = Append(D, w)
      BY <2>1, <2>2, Zenon DEF Carried, Stream
    <3> QED
      BY <2>1, <3>3, <3>4, <3>5, Zenon
  <2>4. \A a \in 1..(m + 1) : (a \in 1..m \/ a = m + 1) /\ Carried[a] \in Seq(Bytes)
    <3>1. \A a \in 1..(m + 1) : a \in 1..m \/ a = m + 1
      BY SMTT(30), <2>1
    <3>2. \A a \in 1..m : D[a] \in Seq(Bytes)
      BY <2>1
    <3> QED
      BY <2>3, <3>1, <3>2, Zenon
  <2>5. \A s \in Seq(Bytes) : DOMAIN s = 1..Len(s)
    BY SMTT(30)
  <2>6. Past(D) /\ Before(D, w) /\ Here(D, w)
    BY <1>1, <2>1, <2>2, Zenon DEF Kept
  <2>7. ASSUME NEW a \in 1..(m + 1), NEW i \in 1..Len(Carried[a]), Data(Carried[a][i])
        PROVE  Sent(Carried[a][i])
    <3>1. CASE a \in 1..m
      BY <2>1, <2>3, <2>6, <2>7, <3>1, Zenon DEF Past
    <3>2. CASE a = m + 1
      BY <2>2, <2>3, <2>7, <3>2, Zenon DEF InOrder, Genuine, Upcoming, Sent
    <3> QED
      BY <2>4, <3>1, <3>2, Zenon
  <2>8. ASSUME NEW a \in 1..(m + 1), NEW c \in 1..(m + 1), NEW i \in 1..Len(Carried[a]),
               NEW j \in 1..Len(Carried[c]), Data(Carried[a][i]), Data(Carried[c][j]),
               a < c \/ (a = c /\ i < j)
        PROVE  Sooner(Carried[a][i], Carried[c][j])
    <3>1. CASE a \in 1..m /\ c \in 1..m
      <4>1. Carried[a] = D[a] /\ Carried[c] = D[c]
        BY <2>3, <3>1, Zenon
      <4> QED
        BY <2>1, <2>6, <2>8, <3>1, <4>1, Zenon DEF Past
    <3>2. CASE a \in 1..m /\ c = m + 1
      <4>1. Carried[a] = D[a] /\ Carried[c] = w
        BY <2>3, <3>2, Zenon
      <4> QED
        BY <2>1, <2>6, <2>8, <3>2, <4>1, Zenon DEF Before
    <3>3. CASE a = m + 1
      <4>1. ~(a < c)
        BY SMTT(30), <2>1, <3>3
      <4>2. Carried[a] = w /\ Carried[c] = w /\ i < j
        BY <2>3, <2>8, <3>3, <4>1, Zenon
      <4> QED
        BY <2>2, <2>8, <4>2, Zenon DEF InOrder, Ascending
    <3> QED
      BY <2>4, <3>1, <3>2, <3>3, Zenon
  <2>9. ASSUME failures = 0, NEW k \in DOMAIN frames, NEW n \in 1..frames[k].len,
                Sooner(Byte(k, n), place)
         PROVE  \E a \in DOMAIN Carried : Byte(k, n) \in Range(Carried[a])
    <3>1. k \in 1..NumFrames
      BY <1>1 DEF IInv, TypeOK
    <3>2. Among(Byte(k, n), D, w)
      BY <2>6, <2>9, <3>1, Zenon DEF Here
    <3>3. m + 1 \in 1..(m + 1) /\ \A a \in 1..m : a \in 1..(m + 1)
      BY SMTT(30), <2>1
    <3>4. \E a \in 1..(m + 1) : \E i \in 1..Len(Carried[a]) : Carried[a][i] = Byte(k, n)
      <4>1. CASE \E a \in 1..m : \E i \in 1..Len(D[a]) : D[a][i] = Byte(k, n)
        BY <2>3, <3>3, <4>1, Zenon
      <4>2. CASE \E j \in 1..Len(w) : w[j] = Byte(k, n)
        BY <2>3, <3>3, <4>2, Zenon
      <4> QED
        BY <2>1, <3>2, <4>1, <4>2, Zenon DEF Among
    <3>5. PICK a \in 1..(m + 1) : \E i \in DOMAIN Carried[a] : Carried[a][i] = Byte(k, n)
      BY <2>4, <2>5, <3>4, Zenon
    <3> QED
      BY <2>3, <3>5, Zenon DEF Range
  <2>10. ASSUME NEW a \in DOMAIN Carried, NEW c \in DOMAIN Carried,
                NEW i \in DOMAIN Carried[a], NEW j \in DOMAIN Carried[c]
         PROVE  LET x == Carried[a][i]
                    y == Carried[c][j]
                IN  /\ x.frame # 0 => x.at \in 1..frames[x.frame].len /\ Sooner(x, place)
                    /\ x.frame # 0 /\ y.frame # 0 /\ (a < c \/ (a = c /\ i < j)) => Sooner(x, y)
    <3>1. /\ a \in 1..(m + 1) /\ c \in 1..(m + 1)
          /\ i \in 1..Len(Carried[a]) /\ j \in 1..Len(Carried[c])
      BY <2>3, <2>4, <2>5, Zenon
    <3> QED
      BY <2>7, <2>8, <3>1, Zenon DEF Data, Sent
  <2> QED
    BY <2>9, <2>10, Zenon DEF NothingLost
<1> QED
  BY <1>1, Invariance, PTL

=============================================================================
