------------------------- MODULE SyslogListenerProofs -------------------------
(***************************************************************************)
(* Proofs about the Syslog collector and its manager: the framing of a TCP *)
(* stream does not depend on its chunks, no message is lost silently, QML  *)
(* is given rows in order and only after they are stored, and a project    *)
(* switch is followed; for any clients, streams, databases, calls and      *)
(* failures.                                                               *)
(***************************************************************************)
EXTENDS SyslogListener, FiniteSetTheorems, SequenceTheorems,
        WellFoundedInduction, TLAPS

-----------------------------------------------------------------------------
(* Framing *)

\* A non-empty set of numbers up to n has a greatest element.
LEMMA MaxOfBounded ==
  ASSUME NEW S \in SUBSET Nat, S # {}, NEW n \in Nat, \A x \in S : x <= n
  PROVE  Max(S) \in S /\ \A x \in S : x <= Max(S)
  <1>. DEFINE T == {n - x : x \in S}
  <1>1. T \subseteq Nat /\ T # {}
    <2>1. \A x \in S : x \in Nat /\ n - x \in Nat
      OBVIOUS
    <2>. QED
      BY <2>1, Zenon
  <1>2. PICK t \in T : \A u \in T : ~(<<u, t>> \in OpToRel(<, Nat))
    <2>. HIDE DEF T
    <2>. QED
      BY <1>1, NatLessThanWellFounded, WFMin
  <1>3. \A u \in T : ~(u < t)
    BY <1>1, <1>2 DEF OpToRel
  <1>4. PICK m \in S : t = n - m
    BY <1>2
  <1>5. \A x \in S : m >= x
    BY <1>3, <1>4
  <1>. QED
    BY <1>4, <1>5 DEF Max

LEMMA NewlineBeforeIs ==
  ASSUME NEW b \in Seq(Bytes), NEW i \in 1..(Len(b) + 1)
  PROVE  LET p == NewlineBefore(b, i) IN
         /\ p \in 0..(i - 1)
         /\ p = 0 \/ p \in Newlines(b)
         /\ \A j \in Newlines(b) : j < i => j <= p
  <1>. DEFINE S == {0} \cup {j \in Newlines(b) : j < i}
  <1>1. S \in SUBSET Nat /\ S # {} /\ i \in Nat /\ \A x \in S : x <= i
    BY DEF Newlines
  <1>2. Max(S) \in S /\ \A x \in S : x <= Max(S)
    <2>. HIDE DEF S
    <2>. QED
      BY <1>1, MaxOfBounded
  <1>. QED
    BY <1>2 DEF NewlineBefore, Newlines

\* What NewlineBefore is, is the only such number.
LEMMA NewlineBeforeUnique ==
  ASSUME NEW b \in Seq(Bytes), NEW i \in 1..(Len(b) + 1), NEW p \in 0..(i - 1),
         p = 0 \/ p \in Newlines(b),
         \A j \in Newlines(b) : j < i => j <= p
  PROVE  NewlineBefore(b, i) = p
  <1>. DEFINE q == NewlineBefore(b, i)
  <1>1. /\ q \in 0..(i - 1)
        /\ q = 0 \/ q \in Newlines(b)
        /\ \A j \in Newlines(b) : j < i => j <= q
    BY NewlineBeforeIs
  <1>. QED
    BY <1>1 DEF Newlines

\* A line is a message unless it is empty or a CR alone.
LEMMA FrameIs ==
  ASSUME NEW b \in Seq(Bytes), NEW i \in Newlines(b)
  PROVE  LET p == NewlineBefore(b, i) IN
         i \in Frames(b) <=> p + 1 < i /\ (p + 2 = i => b[p + 1] # "r")
  <1>. DEFINE p == NewlineBefore(b, i)
              l == Line(b, i)
  <1>1. i \in 1..(Len(b) + 1) /\ p \in 0..(i - 1)
    BY NewlineBeforeIs DEF Newlines
  <1>2. /\ l \in Seq(Bytes)
        /\ Len(l) = i - 1 - p
        /\ \A k \in 1..(i - 1 - p) : l[k] = b[p + k]
    BY <1>1, SubSeqProperties DEF Line, Newlines
  <1>3. CASE l = <<>>
    BY <1>1, <1>2, <1>3 DEF Frames, StripReturn
  <1>4. CASE l # <<>> /\ l[Len(l)] # "r"
    BY <1>1, <1>2, <1>4 DEF Frames, StripReturn, Last
  <1>5. CASE l # <<>> /\ l[Len(l)] = "r"
    <2>1. StripReturn(l) = SubSeq(l, 1, Len(l) - 1)
      BY <1>5 DEF StripReturn, Last, Front
    <2>2. Len(SubSeq(l, 1, Len(l) - 1)) = Len(l) - 1
      BY <1>2, <1>5
    <2>3. StripReturn(l) # <<>> <=> Len(l) # 1
      BY <2>1, <2>2, <1>2, <1>5
    <2>. QED
      BY <1>1, <1>2, <1>5, <2>3 DEF Frames
  <1>. QED
    BY <1>3, <1>4, <1>5

LEMMA RestIs ==
  ASSUME NEW b \in Seq(Bytes)
  PROVE  LET p == NewlineBefore(b, Len(b) + 1) IN
         /\ p \in 0..Len(b)
         /\ p = 0 \/ p \in Newlines(b)
         /\ \A j \in Newlines(b) : j <= p
         /\ Rest(b) \in Seq(Bytes)
         /\ Len(Rest(b)) = Len(b) - p
         /\ \A k \in 1..(Len(b) - p) : Rest(b)[k] = b[p + k]
  <1>. DEFINE p == NewlineBefore(b, Len(b) + 1)
  <1>1. /\ p \in 0..Len(b)
        /\ p = 0 \/ p \in Newlines(b)
        /\ \A j \in Newlines(b) : j <= p
    BY NewlineBeforeIs DEF Newlines
  <1>. QED
    BY <1>1, SubSeqProperties DEF Rest, Line

\* The messages of a stream are those of its beginning and those that the
\* rest of the beginning makes with what follows.
LEMMA FramesOfConcat ==
  ASSUME NEW a \in Seq(Bytes), NEW b \in Seq(Bytes)
  PROVE  LET p == NewlineBefore(a, Len(a) + 1) IN
         /\ \A i \in 1..Len(a) : i \in Frames(a \o b) <=> i \in Frames(a)
         /\ \A i \in 1..(Len(Rest(a)) + Len(b)) :
                i \in Frames(Rest(a) \o b) <=> i + p \in Frames(a \o b) /\ i + p > Len(a)
         /\ Rest(Rest(a) \o b) = Rest(a \o b)
  <1>. DEFINE p == NewlineBefore(a, Len(a) + 1)
              ab == a \o b
              rb == Rest(a) \o b
  <1>1. /\ p \in 0..Len(a)
        /\ p = 0 \/ p \in Newlines(a)
        /\ \A j \in Newlines(a) : j <= p
        /\ Rest(a) \in Seq(Bytes)
        /\ Len(Rest(a)) = Len(a) - p
        /\ \A k \in 1..(Len(a) - p) : Rest(a)[k] = a[p + k]
    BY RestIs
  <1>2. /\ ab \in Seq(Bytes) /\ Len(ab) = Len(a) + Len(b)
        /\ \A i \in 1..Len(a) : ab[i] = a[i]
        /\ \A i \in 1..Len(b) : ab[Len(a) + i] = b[i]
    BY ConcatProperties
  <1>3. /\ rb \in Seq(Bytes) /\ Len(rb) = Len(ab) - p
        /\ \A i \in 1..(Len(ab) - p) : rb[i] = ab[p + i]
    <2>1. /\ rb \in Seq(Bytes) /\ Len(rb) = Len(Rest(a)) + Len(b)
          /\ \A i \in 1..(Len(Rest(a)) + Len(b)) :
               rb[i] = IF i <= Len(Rest(a)) THEN Rest(a)[i] ELSE b[i - Len(Rest(a))]
      BY <1>1, ConcatProperties
    <2>2. p \in Nat /\ Len(a) \in Nat /\ Len(b) \in Nat /\ p <= Len(a)
      BY <1>1
    <2>. HIDE DEF ab, rb, p
    <2>3. Len(rb) = Len(ab) - p
      BY <1>1, <1>2, <2>1, <2>2
    <2>4. ASSUME NEW i \in 1..(Len(ab) - p) PROVE rb[i] = ab[p + i]
      <3>1. CASE i <= Len(a) - p
        <4>1. i \in 1..(Len(a) - p) /\ i \in 1..(Len(Rest(a)) + Len(b)) /\ p + i \in 1..Len(a)
          BY <3>1, <1>1, <1>2, <2>2
        <4>2. rb[i] = a[p + i] /\ ab[p + i] = a[p + i]
          BY <3>1, <4>1, <1>1, <1>2, <2>1
        <4>. QED
          BY <4>2
      <3>2. CASE i > Len(a) - p
        <4>1. i - (Len(a) - p) \in 1..Len(b) /\ i \in 1..(Len(Rest(a)) + Len(b))
          BY <3>2, <1>1, <1>2, <2>2
        <4>2. rb[i] = b[i - (Len(a) - p)]
          BY <3>2, <4>1, <1>1, <2>1, <2>2
        <4>3. ab[Len(a) + (i - (Len(a) - p))] = b[i - (Len(a) - p)]
          BY <4>1, <1>2
        <4>4. Len(a) + (i - (Len(a) - p)) = p + i
          BY <2>2
        <4>. QED
          BY <4>2, <4>3, <4>4
      <3>. QED
        BY <3>1, <3>2, <2>2, <1>2
    <2>. QED
      BY <2>1, <2>3, <2>4
  <1>4. /\ Newlines(a) = {i \in Newlines(ab) : i <= Len(a)}
        /\ \A i \in 1..Len(rb) : i \in Newlines(rb) <=> p + i \in Newlines(ab)
        /\ \A i \in Newlines(ab) : i <= p \/ i > Len(a)
        /\ p = 0 \/ p \in Newlines(ab)
        /\ Newlines(rb) \subseteq 1..Len(rb)
        /\ Newlines(ab) \subseteq 1..Len(ab)
    <2>. HIDE DEF ab, rb, p
    <2>1. /\ DOMAIN a = 1..Len(a) /\ DOMAIN ab = 1..Len(ab) /\ DOMAIN rb = 1..Len(rb)
          /\ p \in Nat /\ Len(a) \in Nat /\ Len(b) \in Nat
      BY <1>1, <1>2, <1>3
    <2>2. Newlines(ab) \subseteq 1..Len(ab) /\ Newlines(rb) \subseteq 1..Len(rb)
      BY <2>1 DEF Newlines
    <2>3. \A i \in 1..Len(a) : i \in Newlines(a) <=> i \in Newlines(ab)
      BY <1>2, <2>1 DEF Newlines
    <2>4. Newlines(a) \subseteq 1..Len(a)
      BY <2>1 DEF Newlines
    <2>5. Newlines(a) = {i \in Newlines(ab) : i <= Len(a)}
      BY <2>1, <2>2, <2>3, <2>4
    <2>6. ASSUME NEW i \in 1..Len(rb) PROVE i \in Newlines(rb) <=> p + i \in Newlines(ab)
      <3>1. rb[i] = ab[p + i] /\ p + i \in 1..Len(ab)
        BY <1>1, <1>2, <1>3, <2>1
      <3>. QED
        BY <3>1, <2>1 DEF Newlines
    <2>7. \A i \in Newlines(ab) : i <= p \/ i > Len(a)
      BY <1>1, <2>1, <2>2, <2>5
    <2>8. p = 0 \/ p \in Newlines(ab)
      BY <1>1, <2>5
    <2>. QED
      BY <2>2, <2>5, <2>6, <2>7, <2>8
  <1>5. \A i \in Newlines(a) : NewlineBefore(ab, i) = NewlineBefore(a, i)
    <2>. SUFFICES ASSUME NEW i \in Newlines(a) PROVE NewlineBefore(ab, i) = NewlineBefore(a, i)
      OBVIOUS
    <2>. DEFINE q == NewlineBefore(a, i)
    <2>1. i \in 1..Len(a)
      BY DEF Newlines
    <2>2. /\ q \in 0..(i - 1)
          /\ q = 0 \/ q \in Newlines(a)
          /\ \A j \in Newlines(a) : j < i => j <= q
      BY <2>1, NewlineBeforeIs
    <2>3. /\ q = 0 \/ q \in Newlines(ab)
          /\ \A j \in Newlines(ab) : j < i => j <= q
      <3>. HIDE DEF ab, q
      <3>. QED
        BY <1>4, <2>1, <2>2
    <2>4. i \in 1..(Len(ab) + 1)
      BY <2>1, <1>2
    <2>. HIDE DEF ab, q
    <2>5. NewlineBefore(ab, i) = q
      BY <1>2, <2>2, <2>3, <2>4, NewlineBeforeUnique
    <2>. QED
      BY <2>5 DEF q
  <1>6. \A i \in 1..(Len(rb) + 1) : i > Len(a) - p => NewlineBefore(ab, p + i) = p + NewlineBefore(rb, i)
    <2>. SUFFICES ASSUME NEW i \in 1..(Len(rb) + 1), i > Len(a) - p
                  PROVE  NewlineBefore(ab, p + i) = p + NewlineBefore(rb, i)
      OBVIOUS
    <2>. DEFINE q == NewlineBefore(rb, i)
    <2>1. /\ q \in 0..(i - 1)
          /\ q = 0 \/ q \in Newlines(rb)
          /\ \A j \in Newlines(rb) : j < i => j <= q
      <3>. HIDE DEF rb
      <3>. QED
        BY <1>3, NewlineBeforeIs
    <2>. HIDE DEF ab, q, rb, p
    <2>2. p + i \in 1..(Len(ab) + 1) /\ p + q \in 0..((p + i) - 1)
      BY <1>1, <1>2, <1>3, <2>1
    <2>3. p + q = 0 \/ p + q \in Newlines(ab)
      BY <1>1, <1>4, <2>1
    <2>4. ASSUME NEW j \in Newlines(ab), j < p + i PROVE j <= p + q
      <3>1. CASE j <= p
        BY <3>1, <1>1, <1>4, <2>1
      <3>2. CASE j > p
        <4>1. j - p \in 1..Len(rb)
          BY <3>2, <1>1, <1>2, <1>3, <1>4
        <4>2. j - p \in Newlines(rb)
          BY <4>1, <1>1, <1>4
        <4>. QED
          BY <4>1, <4>2, <2>1, <2>4, <1>1, <1>4
      <3>. QED
        BY <3>1, <3>2, <1>1, <1>4
    <2>5. NewlineBefore(ab, p + i) = p + q
      <3>. DEFINE m == p + i
                  t == p + q
      <3>1. m \in 1..(Len(ab) + 1) /\ t \in 0..(m - 1)
        BY <2>2
      <3>2. /\ t = 0 \/ t \in Newlines(ab)
            /\ \A j \in Newlines(ab) : j < m => j <= t
        BY <2>3, <2>4
      <3>. HIDE DEF m, t
      <3>3. NewlineBefore(ab, m) = t
        BY <1>2, <3>1, <3>2, NewlineBeforeUnique
      <3>. QED
        BY <3>3 DEF m, t
    <2>. QED
      BY <2>5 DEF q
  <1>7. \A i \in 1..Len(a) : i \in Frames(ab) <=> i \in Frames(a)
    <2>. SUFFICES ASSUME NEW i \in 1..Len(a) PROVE i \in Frames(ab) <=> i \in Frames(a)
      OBVIOUS
    <2>1. CASE i \notin Newlines(a)
      BY <2>1, <1>4 DEF Frames
    <2>2. CASE i \in Newlines(a)
      <3>. DEFINE q == NewlineBefore(a, i)
      <3>1. i \in Newlines(ab)
        BY <2>2, <1>4
      <3>2. q \in 0..(i - 1) /\ NewlineBefore(ab, i) = q
        BY <2>2, <1>5, NewlineBeforeIs
      <3>3. i \in Frames(a) <=> q + 1 < i /\ (q + 2 = i => a[q + 1] # "r")
        BY <2>2, FrameIs
      <3>4. i \in Frames(ab) <=> q + 1 < i /\ (q + 2 = i => ab[q + 1] # "r")
        <4>. HIDE DEF ab, q
        <4>. QED
          BY <3>1, <3>2, <1>2, FrameIs
      <3>. HIDE DEF ab, q
      <3>. QED
        BY <3>2, <3>3, <3>4, <1>2
    <2>. QED
      BY <2>1, <2>2
  <1>8. \A i \in 1..Len(rb) : i \in Frames(rb) <=> p + i \in Frames(ab) /\ p + i > Len(a)
    <2>. SUFFICES ASSUME NEW i \in 1..Len(rb)
                  PROVE  i \in Frames(rb) <=> p + i \in Frames(ab) /\ p + i > Len(a)
      OBVIOUS
    <2>. HIDE DEF ab, rb, p
    <2>1. CASE i \notin Newlines(rb)
      BY <2>1, <1>4 DEF Frames
    <2>2. CASE i \in Newlines(rb)
      <3>. DEFINE q == NewlineBefore(rb, i)
      <3>1. p + i \in Newlines(ab) /\ p + i > Len(a) /\ i > Len(a) - p
        BY <2>2, <1>1, <1>4
      <3>2. q \in 0..(i - 1) /\ NewlineBefore(ab, p + i) = p + q
        BY <2>2, <3>1, <1>3, <1>6, NewlineBeforeIs
      <3>3. i \in Frames(rb) <=> q + 1 < i /\ (q + 2 = i => rb[q + 1] # "r")
        BY <2>2, <1>3, FrameIs
      <3>4. p + i \in Frames(ab) <=>
              (p + q) + 1 < p + i /\ ((p + q) + 2 = p + i => ab[(p + q) + 1] # "r")
        <4>. HIDE DEF q
        <4>. QED
          BY <3>1, <3>2, <1>2, FrameIs
      <3>. HIDE DEF q
      <3>5. rb[q + 1] = ab[(p + q) + 1]
        <4>1. q + 1 \in 1..(Len(ab) - p)
          BY <3>2, <1>1, <1>2, <1>3
        <4>2. p + (q + 1) = (p + q) + 1
          BY <3>2, <1>1
        <4>. QED
          BY <4>1, <4>2, <1>3
      <3>. QED
        BY <3>1, <3>2, <3>3, <3>4, <3>5, <1>1
    <2>. QED
      BY <2>1, <2>2
  <1>9. Rest(rb) = Rest(ab)
    <2>. HIDE DEF ab, rb, p
    <2>. DEFINE q == NewlineBefore(rb, Len(rb) + 1)
    <2>1. NewlineBefore(ab, Len(ab) + 1) = p + q /\ q \in 0..Len(rb)
      <3>1. Len(rb) + 1 \in 1..(Len(rb) + 1) /\ Len(rb) + 1 > Len(a) - p /\ p + (Len(rb) + 1) = Len(ab) + 1
        BY <1>1, <1>2, <1>3
      <3>. QED
        BY <3>1, <1>3, <1>6, RestIs
    <2>2. /\ Rest(rb) \in Seq(Bytes) /\ Len(Rest(rb)) = Len(rb) - q
          /\ \A k \in 1..(Len(rb) - q) : Rest(rb)[k] = rb[q + k]
      BY <1>3, RestIs
    <2>3. /\ Rest(ab) \in Seq(Bytes) /\ Len(Rest(ab)) = Len(ab) - (p + q)
          /\ \A k \in 1..(Len(ab) - (p + q)) : Rest(ab)[k] = ab[(p + q) + k]
      <3>. DEFINE t == NewlineBefore(ab, Len(ab) + 1)
      <3>1. /\ Rest(ab) \in Seq(Bytes) /\ Len(Rest(ab)) = Len(ab) - t
            /\ \A k \in 1..(Len(ab) - t) : Rest(ab)[k] = ab[t + k]
        BY <1>2, RestIs
      <3>2. t = p + q
        BY <2>1
      <3>. HIDE DEF t, q
      <3>. QED
        BY <3>1, <3>2
    <2>. HIDE DEF q
    <2>4. Len(ab) - (p + q) = Len(rb) - q /\ Len(rb) - q \in Nat /\ p \in Nat /\ q \in Nat
      BY <1>1, <1>2, <1>3, <2>1
    <2>5. ASSUME NEW k \in 1..(Len(rb) - q) PROVE Rest(rb)[k] = Rest(ab)[k]
      <3>1. q + k \in 1..(Len(ab) - p) /\ p + (q + k) = (p + q) + k
        BY <1>3, <2>4
      <3>2. rb[q + k] = ab[(p + q) + k]
        BY <3>1, <1>3
      <3>. QED
        BY <3>2, <2>2, <2>3, <2>4
    <2>. QED
      BY <2>2, <2>3, <2>4, <2>5, SeqEqual
  <1>. QED
    BY <1>1, <1>2, <1>3, <1>7, <1>8, <1>9

LEMMA FramesFinite ==
  ASSUME NEW b \in Seq(Bytes)
  PROVE  /\ Frames(b) \subseteq 1..Len(b)
         /\ IsFiniteSet(Frames(b))
         /\ Cardinality(Frames(b)) \in Nat
  <1>1. Frames(b) \subseteq 1..Len(b)
    BY DEF Frames, Newlines
  <1>2. IsFiniteSet(1..Len(b))
    BY FS_Interval
  <1>3. IsFiniteSet(Frames(b))
    BY <1>1, <1>2, FS_Subset
  <1>. QED
    BY <1>1, <1>3, FS_CardinalityType

\* The messages of a stream are counted once each, whatever the chunks.
LEMMA FramesCount ==
  ASSUME NEW a \in Seq(Bytes), NEW b \in Seq(Bytes)
  PROVE  Cardinality(Frames(a \o b)) =
           Cardinality(Frames(a)) + Cardinality(Frames(Rest(a) \o b))
  <1>. DEFINE p == NewlineBefore(a, Len(a) + 1)
              ab == a \o b
              rb == Rest(a) \o b
              T == {i \in Frames(ab) : i > Len(a)}
              f == [i \in Frames(rb) |-> i + p]
  <1>1. /\ p \in 0..Len(a)
        /\ Len(Rest(a)) = Len(a) - p
        /\ Rest(a) \in Seq(Bytes)
    BY RestIs
  <1>2. /\ ab \in Seq(Bytes) /\ Len(ab) = Len(a) + Len(b)
        /\ rb \in Seq(Bytes) /\ Len(rb) = Len(Rest(a)) + Len(b)
    BY <1>1, ConcatProperties
  <1>3. /\ \A i \in 1..Len(a) : i \in Frames(ab) <=> i \in Frames(a)
        /\ \A i \in 1..Len(rb) : i \in Frames(rb) <=> i + p \in Frames(ab) /\ i + p > Len(a)
    BY <1>2, FramesOfConcat
  <1>4. /\ Frames(ab) \subseteq 1..Len(ab) /\ Frames(rb) \subseteq 1..Len(rb)
        /\ Frames(a) \subseteq 1..Len(a)
        /\ IsFiniteSet(Frames(ab)) /\ IsFiniteSet(Frames(rb)) /\ IsFiniteSet(Frames(a))
    BY <1>2, FramesFinite
  <1>. HIDE DEF ab, rb, p
  <1>5. Frames(ab) = Frames(a) \cup T /\ Frames(a) \cap T = {}
    BY <1>1, <1>2, <1>3, <1>4
  <1>6. f \in Bijection(Frames(rb), T)
    <2>1. \A i \in Frames(rb) : i \in 1..Len(rb) /\ i + p \in T
      BY <1>1, <1>3, <1>4
    <2>2. ASSUME NEW t \in T PROVE \E i \in Frames(rb) : f[i] = t
      <3>1. t \in 1..Len(ab) /\ t > Len(a) /\ t \in Frames(ab)
        BY <1>4
      <3>2. t - p \in 1..Len(rb) /\ (t - p) + p = t
        BY <1>1, <1>2, <3>1
      <3>3. t - p \in Frames(rb)
        BY <1>3, <3>1, <3>2
      <3>. QED
        BY <3>2, <3>3
    <2>3. f \in [Frames(rb) -> T]
      BY <2>1
    <2>4. ASSUME NEW i \in Frames(rb), NEW j \in Frames(rb), f[i] = f[j] PROVE i = j
      BY <1>1, <2>1, <2>4
    <2>. QED
      BY <2>2, <2>3, <2>4 DEF Bijection, Injection, Surjection, IsInjective
  <1>7. IsFiniteSet(T) /\ Cardinality(T) = Cardinality(Frames(rb))
    BY <1>4, <1>6, FS_Bijection DEF ExistsBijection
  <1>8. Cardinality(Frames(ab)) = Cardinality(Frames(a)) + Cardinality(T) - Cardinality({})
    BY <1>4, <1>5, <1>7, FS_Union
  <1>9. Cardinality(Frames(a)) \in Nat /\ Cardinality(T) \in Nat
    BY <1>4, <1>7, FS_CardinalityType
  <1>. QED
    BY <1>7, <1>8, <1>9, FS_EmptySet DEF ab, rb

-----------------------------------------------------------------------------
(* The inductive invariant *)

\* m is among the messages taken from the sockets.
Taken(m) == m \in Sources \X (Nat \ {0}) /\ m[2] <= count[m[1]]

\* m came before n, if they are of the same source.
Precedes(m, n) == m[1] = n[1] => m[2] < n[2]

Lines == [type : {"ready", "dropped", "error"}] \cup
         [type : {"message"}, row : Sources \X (Nat \ {0})]

Rows == {i \in DOMAIN pipe : pipe[i].type = "message"}

SocketTypes ==
    /\ connected \subseteq Clients
    /\ unread \in [Clients -> Seq(Bytes)]
    /\ consumed \in [Clients -> Seq(Bytes)]
    /\ buffer \in [Clients -> Seq(Bytes)]
    /\ count \in [Sources -> Nat]

\* What was received of a client is the beginning of its stream; the buffer
\* is the rest of it, and the messages counted are its lines.
StreamOf(c) ==
    /\ buffer[c] = Rest(consumed[c])
    /\ \E s \in Streams : IsPrefix(consumed[c], s)
    /\ c \in connected \/ unread[c] # <<>> => consumed[c] \o unread[c] \in Streams
    /\ \/ count[c] = Cardinality(Frames(consumed[c]))
       \/ /\ count[c] = Cardinality(Frames(consumed[c])) + 1
          /\ c \notin connected /\ unread[c] = <<>>
          /\ Rest(consumed[c]) # <<>> /\ consumed[c] \in Streams

SocketInv ==
    /\ SocketTypes
    /\ \A c \in Clients : StreamOf(c)
    /\ count[Udp] <= MaxDatagrams

\* Every message taken is somewhere, and what is anywhere was taken.
StoreInv ==
    /\ work \in Seq(Sources \X (Nat \ {0}))
    /\ shown \in Seq(Sources \X (Nat \ {0}))
    /\ pipe \in Seq(Lines)
    /\ inserted => work # <<>> /\ Head(work) \in committed
    /\ \A i \in DOMAIN work : Taken(work[i])
    /\ \A m \in committed \cup dropped \cup lost : Taken(m)
    /\ \A i \in Rows : pipe[i].row \in committed
    /\ \A i \in DOMAIN shown : shown[i] \in committed
    /\ stored \in [Projects -> SUBSET committed]
    /\ \A s \in Sources : \A k \in 1..count[s] :
         <<s, k>> \in committed \cup dropped \cup lost \cup ToSet(work)

\* Rows shown, lines in the pipe and messages to store follow each other in
\* the order of their source.
OrderInv ==
    /\ \A i, j \in DOMAIN shown : i < j => Precedes(shown[i], shown[j])
    /\ \A i \in DOMAIN shown, j \in Rows : Precedes(shown[i], pipe[j].row)
    /\ \A i \in DOMAIN shown, j \in DOMAIN work : Precedes(shown[i], work[j])
    /\ \A i, j \in Rows : i < j => Precedes(pipe[i].row, pipe[j].row)
    /\ \A i \in Rows, j \in DOMAIN work : Precedes(pipe[i].row, work[j])
    /\ \A i, j \in DOMAIN work : i < j => Precedes(work[i], work[j])

\* A live collector of which no error was shown is the one of the last start.
FollowInv ==
    process \in {"boot", "serve"} /\ ~troubled =>
        /\ slot \in {"none", "start"} => database = repository
        /\ slot = "none" => state = "listening"

ManagerTypes ==
    /\ repository \in Projects /\ database \in Projects
    /\ state \in {"stopped", "starting", "listening", "stopping", "error"}
    /\ slot \in {"none", "start", "fail", "stop", "restart", "reset", "quit"}
    /\ process \in {"none", "boot", "serve", "dead"}
    /\ {quit, ready, terminated, troubled, inserted} \subseteq BOOLEAN
    /\ calls \in 0..MaxCalls /\ failures \in 0..MaxFailures

SyslogInv ==
    ManagerTypes /\ SocketInv /\ StoreInv /\ OrderInv /\ FollowInv
-----------------------------------------------------------------------------
(* Steps of the sockets *)

LEMMA BoundsNat ==
  /\ MaxMessageBytes \in Nat /\ MaxTcpClients \in Nat /\ MaxDatagrams \in Nat
  /\ MaxCalls \in Nat /\ MaxFailures \in Nat
  BY SyslogBoundAssumption

\* What a step does to the sockets.
LEMMA SocketSteps ==
  ASSUME Next
  PROVE  \/ ReceiveUdp
         \/ \E c \in Clients : AcceptTcp(c) \/ ReceiveTcp(c) \/ EndTcp(c)
         \/ Dies
         \/ UNCHANGED sockets
  BY DEF Next, Collector, Boot, Insert, EmitMessage, InsertFails, Terminate,
         Crash, Kill, Drain, Finished, StartServer, Ready, NotReady,
         StopServer, ResetLogData, Quit, StopEnds, Relaunches, SwitchProject

\* A client of which nothing changes keeps its stream.
LEMMA StreamKept ==
  ASSUME SocketTypes, NEW c \in Clients, StreamOf(c),
         consumed'[c] = consumed[c], buffer'[c] = buffer[c], count'[c] = count[c],
         c \in connected' => c \in connected,
         unread'[c] = unread[c] \/ (unread'[c] = <<>> /\ c \notin connected')
  PROVE  StreamOf(c)'
  BY DEF StreamOf

LEMMA ReceiveUdpSockets ==
  ASSUME SocketInv, ReceiveUdp
  PROVE  SocketInv'
  <1>1. SocketTypes'
    BY BoundsNat DEF SocketInv, SocketTypes, ReceiveUdp, Sources
  <1>2. ASSUME NEW c \in Clients PROVE StreamOf(c)'
    <2>1. count'[c] = count[c]
      BY SourceAssumption DEF SocketInv, SocketTypes, ReceiveUdp, Sources
    <2>. QED
      BY <2>1, StreamKept DEF SocketInv, ReceiveUdp
  <1>3. count'[Udp] <= MaxDatagrams
    BY BoundsNat DEF SocketInv, SocketTypes, ReceiveUdp, Sources
  <1>. QED
    BY <1>1, <1>2, <1>3 DEF SocketInv

LEMMA AcceptTcpSockets ==
  ASSUME SocketInv, NEW c \in Clients, AcceptTcp(c)
  PROVE  SocketInv'
  <1>1. SocketTypes'
    BY DEF SocketInv, SocketTypes, AcceptTcp
  <1>2. ASSUME NEW d \in Clients PROVE StreamOf(d)'
    <2>1. CASE d \in connected' => d \in connected
      BY <2>1, StreamKept DEF SocketInv, SocketTypes, AcceptTcp
    <2>2. CASE d = c /\ c \in connected'
      BY <2>2 DEF SocketInv, SocketTypes, AcceptTcp, StreamOf
    <2>. QED
      BY <2>1, <2>2 DEF AcceptTcp
  <1>. QED
    BY <1>1, <1>2 DEF SocketInv, AcceptTcp

LEMMA DiesSockets ==
  ASSUME SocketInv, Dies
  PROVE  SocketInv'
  <1>1. SocketTypes'
    BY DEF SocketInv, SocketTypes, Dies
  <1>2. ASSUME NEW c \in Clients PROVE StreamOf(c)'
    BY <1>1, StreamKept DEF SocketInv, SocketTypes, Dies
  <1>. QED
    BY <1>1, <1>2 DEF SocketInv, Dies

\* A chunk takes its part of the stream from what is unread.
LEMMA ChunkSplits ==
  ASSUME NEW a \in Seq(Bytes), NEW u \in Seq(Bytes), NEW n \in 1..Len(u)
  PROVE  /\ SubSeq(u, 1, n) \in Seq(Bytes) /\ SubSeq(u, n + 1, Len(u)) \in Seq(Bytes)
         /\ SubSeq(u, 1, n) # <<>>
         /\ (a \o SubSeq(u, 1, n)) \o SubSeq(u, n + 1, Len(u)) = a \o u
  <1>1. SubSeq(u, 1, n) \in Seq(Bytes) /\ Len(SubSeq(u, 1, n)) = n
    BY SubSeqProperties
  <1>2. SubSeq(u, n + 1, Len(u)) \in Seq(Bytes)
    BY SubSeqProperties
  <1>3. SubSeq(u, 1, n) \o SubSeq(u, n + 1, Len(u)) = SubSeq(u, 1, Len(u))
    BY ConcatAdjacentSubSeq
  <1>4. SubSeq(u, 1, Len(u)) = u
    BY SubSeqFull
  <1>5. SubSeq(u, 1, n) # <<>>
    BY <1>1
  <1>6. (a \o SubSeq(u, 1, n)) \o SubSeq(u, n + 1, Len(u)) = a \o u
    <2>. DEFINE k == SubSeq(u, 1, n)
                r == SubSeq(u, n + 1, Len(u))
    <2>1. k \in Seq(Bytes) /\ r \in Seq(Bytes)
      BY <1>1, <1>2
    <2>2. k \o r = u
      BY <1>3, <1>4
    <2>. HIDE DEF k, r
    <2>3. (a \o k) \o r = a \o (k \o r)
      BY <2>1, ConcatAssociative
    <2>. QED
      BY <2>2, <2>3 DEF k, r
  <1>. QED
    BY <1>1, <1>2, <1>5, <1>6

\* What was received is the beginning of what was sent.
LEMMA PrefixOfConcat ==
  ASSUME NEW a \in Seq(Bytes), NEW b \in Seq(Bytes)
  PROVE  IsPrefix(a, a \o b)
  <1>1. Len(a) <= Len(a \o b)
    BY ConcatProperties
  <1>2. CASE a = <<>>
    BY <1>1, <1>2, SubSeqEmpty, ConcatProperties DEF IsPrefix
  <1>3. CASE a # <<>>
    <2>1. 1 \in 1..Len(a) /\ Len(a) \in 1..Len(a)
      BY <1>3
    <2>2. SubSeq(a \o b, 1, Len(a)) = SubSeq(a, 1, Len(a))
      BY <2>1, SubSeqOfConcat1
    <2>. QED
      BY <1>1, <2>2 DEF IsPrefix
  <1>. QED
    BY <1>2, <1>3

LEMMA ReceiveTcpSockets ==
  ASSUME SocketInv, NEW c \in Clients, ReceiveTcp(c)
  PROVE  SocketInv'
  <1>1. PICK n \in DOMAIN unread[c] :
          /\ ReceiveChunk(c, n)
          /\ consumed' = [consumed EXCEPT ![c] = @ \o SubSeq(unread[c], 1, n)]
          /\ unread' = [unread EXCEPT ![c] = SubSeq(@, n + 1, Len(@))]
    BY DEF ReceiveTcp
  <1>. DEFINE u == unread[c]
              a == consumed[c]
              k == SubSeq(u, 1, n)
              r == SubSeq(u, n + 1, Len(u))
              rk == Rest(a) \o k
  <1>2. /\ u \in Seq(Bytes) /\ a \in Seq(Bytes) /\ n \in 1..Len(u)
        /\ c \in connected /\ buffer[c] = Rest(a) /\ a \o u \in Streams
        /\ count[c] = Cardinality(Frames(a)) /\ c \in Sources
    BY DEF SocketInv, SocketTypes, StreamOf, ReceiveTcp, Sources
  <1>3. k \in Seq(Bytes) /\ r \in Seq(Bytes) /\ (a \o k) \o r = a \o u
    BY <1>2, ChunkSplits
  <1>4. a \o k \in Seq(Bytes) /\ rk \in Seq(Bytes) /\ Rest(rk) \in Seq(Bytes)
    BY <1>2, <1>3, RestIs, ConcatProperties
  <1>. HIDE DEF u, a, k, r, rk
  <1>5. /\ Cardinality(Frames(a \o k)) = Cardinality(Frames(a)) + Cardinality(Frames(rk))
        /\ Rest(rk) = Rest(a \o k)
        /\ Cardinality(Frames(rk)) \in Nat
    BY <1>2, <1>3, <1>4, FramesCount, FramesOfConcat, FramesFinite DEF rk
  <1>6. /\ count' = [count EXCEPT ![c] = @ + Cardinality(Frames(rk))]
        /\ buffer' = [buffer EXCEPT ![c] = Rest(rk)]
        /\ connected' \subseteq connected
        /\ consumed' = [consumed EXCEPT ![c] = a \o k]
        /\ unread' = [unread EXCEPT ![c] = r]
    BY <1>1, <1>2 DEF ReceiveChunk, u, a, k, r, rk
  <1>7. SocketTypes'
    <2>1. count' \in [Sources -> Nat]
      BY <1>2, <1>5, <1>6 DEF SocketInv, SocketTypes
    <2>2. /\ unread' \in [Clients -> Seq(Bytes)] /\ consumed' \in [Clients -> Seq(Bytes)]
          /\ buffer' \in [Clients -> Seq(Bytes)]
      BY <1>3, <1>4, <1>6 DEF SocketInv, SocketTypes
    <2>. QED
      BY <1>6, <2>1, <2>2 DEF SocketInv, SocketTypes
  <1>8. StreamOf(c)'
    <2>1. /\ consumed'[c] = a \o k /\ buffer'[c] = Rest(rk) /\ unread'[c] = r
          /\ count'[c] = count[c] + Cardinality(Frames(rk))
      BY <1>2, <1>6 DEF SocketInv, SocketTypes
    <2>2. consumed'[c] \o unread'[c] \in Streams
      BY <1>2, <1>3, <2>1
    <2>3. IsPrefix(consumed'[c], a \o u)
      BY <1>3, <1>4, <2>1, PrefixOfConcat
    <2>. QED
      BY <1>2, <1>5, <2>1, <2>2, <2>3 DEF StreamOf
  <1>9. ASSUME NEW d \in Clients, d # c PROVE StreamOf(d)'
    BY <1>6, <1>9, StreamKept DEF SocketInv, SocketTypes, Sources
  <1>10. count'[Udp] = count[Udp]
    BY <1>6, SourceAssumption DEF SocketInv, SocketTypes, Sources
  <1>. QED
    BY <1>7, <1>8, <1>9, <1>10 DEF SocketInv

LEMMA EndTcpSockets ==
  ASSUME SocketInv, NEW c \in Clients, EndTcp(c)
  PROVE  SocketInv'
  <1>. DEFINE n == IF buffer[c] = <<>> THEN 0 ELSE 1
  <1>1. n \in {0, 1} /\ c \in Sources /\ count[c] \in Nat
    BY DEF SocketInv, SocketTypes, Sources
  <1>2. Len(work') = n
    BY <1>1, LenProperties DEF EndTcp, Messages
  <1>3. count' = [count EXCEPT ![c] = @ + n]
    BY <1>2 DEF EndTcp
  <1>4. SocketTypes'
    BY <1>1, <1>3 DEF SocketInv, SocketTypes, EndTcp
  <1>5. StreamOf(c)'
    <2>1. /\ buffer[c] = Rest(consumed[c]) /\ consumed[c] \in Streams
          /\ count[c] = Cardinality(Frames(consumed[c]))
      <3>1. /\ consumed[c] \o unread[c] \in Streams /\ unread[c] = <<>>
            /\ consumed[c] \in Seq(Bytes)
        BY DEF SocketInv, SocketTypes, StreamOf, EndTcp
      <3>2. consumed[c] \o <<>> = consumed[c]
        BY <3>1, ConcatEmptySeq
      <3>. QED
        BY <3>1, <3>2 DEF SocketInv, StreamOf, EndTcp
    <2>2. count'[c] = count[c] + n
      BY <1>1, <1>3 DEF SocketInv, SocketTypes
    <2>3. /\ consumed' = consumed /\ buffer' = buffer /\ unread' = unread
          /\ unread[c] = <<>> /\ c \notin connected'
      BY DEF EndTcp
    <2>. QED
      BY <1>1, <2>1, <2>2, <2>3 DEF SocketInv, StreamOf
  <1>6. ASSUME NEW d \in Clients, d # c PROVE StreamOf(d)'
    BY <1>3, <1>6, StreamKept DEF SocketInv, SocketTypes, Sources, EndTcp
  <1>7. count'[Udp] = count[Udp]
    BY <1>3, SourceAssumption DEF SocketInv, SocketTypes, Sources
  <1>. QED
    BY <1>4, <1>5, <1>6, <1>7 DEF SocketInv

LEMMA SocketsKept ==
  ASSUME SocketInv, Next
  PROVE  SocketInv'
  <1>1. CASE UNCHANGED sockets
    BY <1>1 DEF sockets, SocketInv, SocketTypes, StreamOf
  <1>. QED
    BY <1>1, SocketSteps, ReceiveUdpSockets, AcceptTcpSockets,
       ReceiveTcpSockets, EndTcpSockets, DiesSockets

-----------------------------------------------------------------------------
(* Steps of the messages *)

\* n messages are taken from a source once those of before are stored.
Takes(s, n) ==
    /\ work = <<>>
    /\ work' = Messages(s, n)
    /\ count' = [count EXCEPT ![s] = @ + n]
    /\ UNCHANGED <<pipe, inserted, stored, committed, dropped, lost, shown>>

\* Lines that are no rows are printed.
Says(lines) ==
    /\ lines \in Seq([type : {"ready", "dropped", "error"}])
    /\ pipe' = pipe \o lines
    /\ UNCHANGED <<count, shown, stored, inserted, committed, lost>>

\* Rows of a database are deleted.
Deletes ==
    /\ stored' \in [Projects -> SUBSET committed]
    /\ UNCHANGED <<count, pipe, work, inserted, committed, dropped, lost, shown>>

\* What a step does to the messages.
LEMMA StoreSteps ==
  ASSUME SyslogInv, Next
  PROVE  \/ \E s \in Sources, n \in Nat : Takes(s, n)
         \/ Insert \/ EmitMessage \/ Drain
         \/ InsertFails
         \/ \E lines : Says(lines) /\ UNCHANGED <<work, dropped>>
         \/ Dies
         \/ Deletes
         \/ UNCHANGED <<count, pipe, store, shown>>
  <1>1. CASE ReceiveUdp
    <2>1. Takes(Udp, 1)
      BY <1>1 DEF Takes, ReceiveUdp, Idle
    <2>. QED
      BY <2>1 DEF Sources
  <1>2. ASSUME NEW c \in Clients, ReceiveTcp(c) PROVE \E n \in Nat : Takes(c, n)
    <2>1. PICK k \in DOMAIN unread[c] : ReceiveChunk(c, k)
      BY <1>2 DEF ReceiveTcp
    <2>. DEFINE n == Cardinality(Frames(buffer[c] \o SubSeq(unread[c], 1, k)))
    <2>2. buffer[c] \in Seq(Bytes) /\ unread[c] \in Seq(Bytes) /\ k \in 1..Len(unread[c])
      BY DEF SyslogInv, SocketInv, SocketTypes
    <2>3. SubSeq(unread[c], 1, k) \in Seq(Bytes)
      BY <2>2, ChunkSplits
    <2>4. n \in Nat
      BY <2>2, <2>3, ConcatProperties, FramesFinite
    <2>. QED
      BY <1>2, <2>1, <2>4 DEF Takes, ReceiveTcp, ReceiveChunk, Idle
  <1>3. ASSUME NEW c \in Clients, EndTcp(c) PROVE \E n \in Nat : Takes(c, n)
    <2>. DEFINE n == IF buffer[c] = <<>> THEN 0 ELSE 1
    <2>1. n \in Nat /\ Len(work') = n
      BY <1>3, LenProperties DEF EndTcp, Messages
    <2>. QED
      BY <1>3, <2>1 DEF Takes, EndTcp, Idle
  <1>4. ASSUME Boot PROVE \E lines : Says(lines) /\ UNCHANGED <<work, dropped>>
    <2>1. <<[type |-> "ready"]>> \in Seq([type : {"ready", "dropped", "error"}])
      OBVIOUS
    <2>2. <<[type |-> "error"]>> \in Seq([type : {"ready", "dropped", "error"}])
      OBVIOUS
    <2>3. CASE pipe' = pipe \o <<[type |-> "ready"]>>
      <3>1. Says(<<[type |-> "ready"]>>) /\ UNCHANGED <<work, dropped>>
        BY <1>4, <2>1, <2>3 DEF Boot, Says, sockets, store
      <3>. QED
        BY <3>1
    <2>4. CASE pipe' = pipe \o <<[type |-> "error"]>>
      <3>1. Says(<<[type |-> "error"]>>) /\ UNCHANGED <<work, dropped>>
        BY <1>4, <2>2, <2>4 DEF Boot, Says, sockets, store
      <3>. QED
        BY <3>1
    <2>. QED
      BY <1>4, <2>3, <2>4 DEF Boot, WriteLines
  <1>5. ASSUME Reset PROVE stored' \in [Projects -> SUBSET committed]
    BY <1>5 DEF Reset, SyslogInv, StoreInv, ManagerTypes
  <1>6. ASSUME ResetLogData PROVE Deletes \/ UNCHANGED <<count, pipe, store, shown>>
    BY <1>5, <1>6 DEF ResetLogData, Reset, Deletes, sockets, store
  <1>7. ASSUME Relaunches PROVE Deletes \/ UNCHANGED <<count, pipe, store, shown>>
    BY <1>5, <1>7 DEF Relaunches, Reset, Deletes, sockets, store
  <1>8. CASE Insert \/ EmitMessage \/ InsertFails \/ Drain
    BY <1>8
  <1>9. CASE Terminate \/ Crash \/ Kill
    BY <1>9 DEF Terminate, Crash, Kill
  <1>10. ASSUME NEW c \in Clients, AcceptTcp(c) PROVE UNCHANGED <<count, pipe, store, shown>>
    BY <1>10 DEF AcceptTcp, store
  <1>11. CASE \/ Finished \/ StartServer \/ Ready \/ NotReady \/ StopServer \/ Quit
              \/ StopEnds \/ \E p \in Projects : SwitchProject(p)
    BY <1>11
    DEF Finished, StartServer, Ready, NotReady, StopServer, Quit, StopEnds,
        SwitchProject, sockets, store
  <1>12. \A c \in Clients : c \in Sources
    BY DEF Sources
  <1>. QED
    BY <1>1, <1>2, <1>3, <1>4, <1>6, <1>7, <1>8, <1>9, <1>10, <1>11, <1>12
    DEF Next, Collector

LEMMA TakesStore ==
  ASSUME SyslogInv, NEW s \in Sources, NEW n \in Nat, Takes(s, n)
  PROVE  StoreInv' /\ OrderInv'
  <1>1. count \in [Sources -> Nat] /\ count[s] \in Nat
    BY DEF SyslogInv, SocketInv, SocketTypes
  <1>2. \A q \in Sources : count'[q] = (IF q = s THEN count[s] + n ELSE count[q])
    BY <1>1 DEF Takes
  <1>3. /\ work' \in Seq(Sources \X (Nat \ {0})) /\ DOMAIN work' = 1..n
        /\ \A i \in 1..n : work'[i] = <<s, count[s] + i>>
    <2>1. \A i \in 1..n : <<s, count[s] + i>> \in Sources \X (Nat \ {0})
      BY <1>1
    <2>2. work' = [i \in 1..n |-> <<s, count[s] + i>>]
      BY DEF Takes, Messages
    <2>. QED
      BY <2>1, <2>2
  <1>4. \A m : Taken(m) => Taken(m)'
    BY <1>1, <1>2 DEF Taken
  <1>5. \A i \in 1..n : Taken(work[i])'
    BY <1>1, <1>2, <1>3 DEF Taken
  <1>6. ASSUME NEW m, Taken(m), NEW i \in 1..n PROVE Precedes(m, work'[i])
    BY <1>1, <1>3, <1>6 DEF Taken, Precedes
  <1>7. ASSUME NEW q \in Sources, NEW k \in 1..count'[q]
        PROVE  <<q, k>> \in committed \cup dropped \cup lost \cup ToSet(work')
    <2>1. CASE k <= count[q]
      <3>1. k \in 1..count[q]
        BY <1>1, <2>1
      <3>2. <<q, k>> \in committed \cup dropped \cup lost \cup ToSet(work)
        BY <3>1 DEF SyslogInv, StoreInv
      <3>3. ToSet(work) = {}
        BY DEF Takes, ToSet
      <3>. QED
        BY <3>2, <3>3
    <2>2. CASE k > count[q]
      <3>1. q = s /\ k - count[s] \in 1..n /\ count[s] + (k - count[s]) = k
        BY <1>1, <1>2, <2>2
      <3>2. work'[k - count[s]] = <<q, k>>
        BY <1>3, <3>1
      <3>. QED
        BY <1>3, <3>1, <3>2 DEF ToSet
    <2>. QED
      BY <1>1, <1>2, <2>1, <2>2
  <1>8. ~inserted
    BY DEF SyslogInv, StoreInv, Takes
  <1>9. \A i \in DOMAIN shown : Taken(shown[i])
    BY DEF SyslogInv, StoreInv
  <1>10. \A i \in Rows : Taken(pipe[i].row)
    BY DEF SyslogInv, StoreInv
  <1>11. StoreInv'
    <2>1. UNCHANGED <<pipe, inserted, stored, committed, dropped, lost, shown>>
      BY DEF Takes
    <2>2. \A m \in committed \cup dropped \cup lost : Taken(m)'
      BY <1>4 DEF SyslogInv, StoreInv
    <2>. QED
      BY <1>3, <1>5, <1>7, <1>8, <2>1, <2>2 DEF SyslogInv, StoreInv, Rows
  <1>12. OrderInv'
    <2>1. \A i, j \in 1..n : i < j => Precedes(work'[i], work'[j])
      BY <1>1, <1>3 DEF Precedes
    <2>2. \A i \in DOMAIN shown, j \in 1..n : Precedes(shown[i], work'[j])
      BY <1>6, <1>9
    <2>3. \A i \in Rows, j \in 1..n : Precedes(pipe[i].row, work'[j])
      BY <1>6, <1>10
    <2>. QED
      BY <1>3, <2>1, <2>2, <2>3 DEF SyslogInv, OrderInv, Takes, Rows, Precedes
  <1>. QED
    BY <1>11, <1>12

LEMMA InsertStore ==
  ASSUME SyslogInv, Insert
  PROVE  StoreInv' /\ OrderInv'
  <1>1. Head(work) = work[1] /\ 1 \in DOMAIN work
    BY DEF Insert, SyslogInv, StoreInv
  <1>2. \A m : Taken(m)' <=> Taken(m)
    BY DEF Taken, Insert, sockets
  <1>3. UNCHANGED <<work, pipe, shown, count, dropped, lost>>
    BY DEF Insert, sockets
  <1>4. Taken(Head(work))
    BY <1>1 DEF SyslogInv, StoreInv
  <1>5. stored' \in [Projects -> SUBSET committed']
    BY DEF Insert, SyslogInv, StoreInv, ManagerTypes
  <1>6. committed' = committed \cup {Head(work)} /\ work # <<>>
    BY DEF Insert
  <1>7. StoreInv'
    BY <1>2, <1>3, <1>4, <1>5, <1>6 DEF SyslogInv, StoreInv, Rows
  <1>8. OrderInv'
    BY <1>3 DEF SyslogInv, OrderInv, Rows, Precedes
  <1>. QED
    BY <1>7, <1>8

\* The first message to store is done with.
LEMMA TailOfWork ==
  ASSUME SyslogInv, work # <<>>
  PROVE  /\ Tail(work) \in Seq(Sources \X (Nat \ {0}))
         /\ DOMAIN Tail(work) = 1..(Len(work) - 1) /\ Len(work) \in Nat \ {0}
         /\ DOMAIN work = 1..Len(work)
         /\ \A i \in 1..(Len(work) - 1) : Tail(work)[i] = work[i + 1]
         /\ Head(work) = work[1] /\ Taken(Head(work))
         /\ Head(work) \in Sources \X (Nat \ {0})
         /\ ToSet(work) = {Head(work)} \cup ToSet(Tail(work))
  <1>1. work \in Seq(Sources \X (Nat \ {0})) /\ \A i \in DOMAIN work : Taken(work[i])
    BY DEF SyslogInv, StoreInv
  <1>2. /\ Tail(work) \in Seq(Sources \X (Nat \ {0}))
        /\ DOMAIN Tail(work) = 1..(Len(work) - 1) /\ Len(work) \in Nat \ {0}
        /\ DOMAIN work = 1..Len(work)
        /\ \A i \in 1..(Len(work) - 1) : Tail(work)[i] = work[i + 1]
        /\ Head(work) = work[1]
    BY <1>1
  <1>3. ToSet(work) = {Head(work)} \cup ToSet(Tail(work))
    <2>1. ASSUME NEW x \in ToSet(work) PROVE x = Head(work) \/ x \in ToSet(Tail(work))
      <3>1. PICK i \in 1..Len(work) : x = work[i]
        BY <1>2, <2>1 DEF ToSet
      <3>2. CASE i = 1
        BY <1>2, <3>1, <3>2
      <3>3. CASE i # 1
        <4>1. i - 1 \in 1..(Len(work) - 1) /\ (i - 1) + 1 = i
          BY <1>2, <3>1, <3>3
        <4>2. Tail(work)[i - 1] = x
          BY <1>2, <3>1, <4>1
        <4>. QED
          BY <1>2, <4>1, <4>2 DEF ToSet
      <3>. QED
        BY <3>2, <3>3
    <2>2. ASSUME NEW x \in ToSet(Tail(work)) PROVE x \in ToSet(work)
      <3>1. PICK i \in 1..(Len(work) - 1) : x = Tail(work)[i]
        BY <1>2, <2>2 DEF ToSet
      <3>. QED
        BY <1>2, <3>1 DEF ToSet
    <2>3. Head(work) \in ToSet(work)
      BY <1>2 DEF ToSet
    <2>. QED
      BY <2>1, <2>2, <2>3
  <1>. QED
    BY <1>1, <1>2, <1>3

\* Lines printed follow those in the pipe.
LEMMA PipeGrows ==
  ASSUME SyslogInv, NEW lines \in Seq(Lines), pipe' = pipe \o lines
  PROVE  /\ pipe' \in Seq(Lines) /\ Len(pipe) \in Nat /\ Len(lines) \in Nat
         /\ Rows \subseteq 1..Len(pipe)
         /\ \A i \in Rows : i \in Rows' /\ pipe'[i] = pipe[i]
         /\ \A i \in Rows' : \/ i \in Rows
                             \/ /\ i > Len(pipe) /\ i - Len(pipe) \in 1..Len(lines)
                                /\ lines[i - Len(pipe)].type = "message"
                                /\ pipe'[i] = lines[i - Len(pipe)]
  <1>1. pipe \in Seq(Lines)
    BY DEF SyslogInv, StoreInv
  <1>2. /\ pipe' \in Seq(Lines) /\ Len(pipe') = Len(pipe) + Len(lines)
        /\ Len(pipe) \in Nat /\ Len(lines) \in Nat
        /\ DOMAIN pipe = 1..Len(pipe) /\ DOMAIN pipe' = 1..Len(pipe')
        /\ \A i \in 1..(Len(pipe) + Len(lines)) :
             pipe'[i] = IF i <= Len(pipe) THEN pipe[i] ELSE lines[i - Len(pipe)]
    BY <1>1, ConcatProperties
  <1>. QED
    BY <1>2 DEF Rows

LEMMA SaysStore ==
  ASSUME SyslogInv, NEW lines, Says(lines), UNCHANGED <<work, dropped>>
  PROVE  StoreInv' /\ OrderInv'
  <1>1. lines \in Seq(Lines) /\ \A i \in 1..Len(lines) : lines[i].type # "message"
    <2>1. [type : {"ready", "dropped", "error"}] \subseteq Lines
      BY DEF Lines
    <2>2. lines \in Seq(Lines)
      BY <2>1, SeqMonotonic DEF Says
    <2>3. \A i \in 1..Len(lines) : lines[i] \in [type : {"ready", "dropped", "error"}]
      BY ElementOfSeq DEF Says
    <2>. QED
      BY <2>2, <2>3
  <1>2. Rows' = Rows /\ pipe' \in Seq(Lines) /\ \A i \in Rows : pipe'[i] = pipe[i]
    BY <1>1, PipeGrows DEF Says
  <1>3. \A m : Taken(m)' <=> Taken(m)
    BY DEF Taken, Says
  <1>4. StoreInv'
    BY <1>2, <1>3 DEF SyslogInv, StoreInv, Says
  <1>5. OrderInv'
    <2>1. UNCHANGED <<work, shown>>
      BY DEF Says
    <2>2. \A i, j \in Rows : i < j => Precedes(pipe'[i].row, pipe'[j].row)
      BY <1>2 DEF SyslogInv, OrderInv
    <2>3. \A i \in DOMAIN shown, j \in Rows : Precedes(shown[i], pipe'[j].row)
      BY <1>2 DEF SyslogInv, OrderInv
    <2>4. \A i \in Rows, j \in DOMAIN work : Precedes(pipe'[i].row, work[j])
      BY <1>2 DEF SyslogInv, OrderInv
    <2>. QED
      BY <1>2, <2>1, <2>2, <2>3, <2>4 DEF SyslogInv, OrderInv, Precedes
  <1>. QED
    BY <1>4, <1>5

LEMMA EmitStore ==
  ASSUME SyslogInv, EmitMessage
  PROVE  StoreInv' /\ OrderInv'
  <1>. DEFINE m == Head(work)
              lines == <<[type |-> "message", row |-> m]>>
  <1>1. /\ inserted /\ work # <<>> /\ m \in committed /\ work' = Tail(work) /\ ~inserted'
        /\ pipe' = pipe \o lines
        /\ UNCHANGED <<count, stored, committed, dropped, lost, shown>>
    BY DEF EmitMessage, IsCommitted, WriteLines, SyslogInv, StoreInv, sockets
  <1>2. /\ Tail(work) \in Seq(Sources \X (Nat \ {0}))
        /\ DOMAIN Tail(work) = 1..(Len(work) - 1) /\ Len(work) \in Nat \ {0}
        /\ DOMAIN work = 1..Len(work)
        /\ \A i \in 1..(Len(work) - 1) : Tail(work)[i] = work[i + 1]
        /\ m = work[1] /\ Taken(m) /\ m \in Sources \X (Nat \ {0})
        /\ ToSet(work) = {m} \cup ToSet(Tail(work))
    BY <1>1, TailOfWork
  <1>3. lines \in Seq(Lines) /\ Len(lines) = 1 /\ lines[1].row = m
    <2>1. [type |-> "message", row |-> m] \in Lines
      BY <1>2 DEF Lines
    <2>. QED
      BY <2>1
  <1>. HIDE DEF m, lines
  <1>4. /\ pipe' \in Seq(Lines) /\ Len(pipe) \in Nat
        /\ Rows \subseteq 1..Len(pipe)
        /\ \A i \in Rows : i \in Rows' /\ pipe'[i] = pipe[i]
        /\ \A i \in Rows' : i \in Rows \/ (i = Len(pipe) + 1 /\ pipe'[i].row = m)
    <2>1. /\ pipe' \in Seq(Lines) /\ Len(pipe) \in Nat
          /\ Rows \subseteq 1..Len(pipe)
          /\ \A i \in Rows : i \in Rows' /\ pipe'[i] = pipe[i]
          /\ \A i \in Rows' : \/ i \in Rows
                              \/ /\ i > Len(pipe) /\ i - Len(pipe) \in 1..Len(lines)
                                 /\ pipe'[i] = lines[i - Len(pipe)]
      BY <1>1, <1>3, PipeGrows
    <2>2. Rows' \subseteq Nat
      BY <2>1 DEF Rows
    <2>3. ASSUME NEW i \in Rows', i \notin Rows PROVE i = Len(pipe) + 1 /\ pipe'[i].row = m
      <3>1. i - Len(pipe) = 1
        BY <1>3, <2>1, <2>2, <2>3
      <3>. QED
        BY <1>3, <2>1, <2>2, <2>3, <3>1
    <2>. QED
      BY <2>1, <2>3
  <1>5. \A x : Taken(x)' <=> Taken(x)
    BY <1>1 DEF Taken
  <1>6. \A i \in DOMAIN work' : i + 1 \in DOMAIN work /\ work'[i] = work[i + 1]
    BY <1>1, <1>2
  <1>7. StoreInv'
    <2>1. \A i \in DOMAIN work' : Taken(work'[i])
      BY <1>6 DEF SyslogInv, StoreInv
    <2>2. \A i \in Rows' : pipe'[i].row \in committed
      BY <1>1, <1>4 DEF SyslogInv, StoreInv
    <2>3. \A s \in Sources : \A k \in 1..count[s] :
            <<s, k>> \in committed \cup dropped \cup lost \cup ToSet(work')
      BY <1>1, <1>2 DEF SyslogInv, StoreInv
    <2>. QED
      BY <1>1, <1>2, <1>4, <1>5, <2>1, <2>2, <2>3 DEF SyslogInv, StoreInv
  <1>8. OrderInv'
    <2>1. 1 \in DOMAIN work /\ \A i \in DOMAIN work' : i \in Nat /\ 1 < i + 1
      BY <1>1, <1>2
    <2>2. \A i \in DOMAIN shown, j \in Rows' : Precedes(shown[i], pipe'[j].row)
      BY <1>2, <1>4, <2>1 DEF SyslogInv, OrderInv
    <2>3. \A i \in DOMAIN shown, j \in DOMAIN work' : Precedes(shown[i], work'[j])
      BY <1>6 DEF SyslogInv, OrderInv
    <2>4. ASSUME NEW i \in Rows', NEW j \in Rows', i < j
          PROVE  Precedes(pipe'[i].row, pipe'[j].row)
      <3>1. i \in Rows
        <4>1. j \in Nat /\ j <= Len(pipe) + 1
          <5>1. CASE j \in Rows
            BY <1>4, <5>1
          <5>2. CASE j = Len(pipe) + 1
            BY <1>4, <5>2
          <5>. QED
            BY <1>4, <5>1, <5>2
        <4>2. i # Len(pipe) + 1
          BY <1>4, <2>4, <4>1
        <4>. QED
          BY <1>4, <4>2
      <3>2. CASE j \in Rows
        BY <1>4, <2>4, <3>1, <3>2 DEF SyslogInv, OrderInv
      <3>3. CASE pipe'[j].row = m
        BY <1>2, <1>4, <2>1, <3>1, <3>3 DEF SyslogInv, OrderInv
      <3>. QED
        BY <1>4, <3>2, <3>3
    <2>5. \A i \in Rows', j \in DOMAIN work' : Precedes(pipe'[i].row, work'[j])
      BY <1>2, <1>4, <1>6, <2>1 DEF SyslogInv, OrderInv
    <2>6. \A i, j \in DOMAIN work' : i < j => Precedes(work'[i], work'[j])
      BY <1>6, <2>1 DEF SyslogInv, OrderInv
    <2>7. \A i, j \in DOMAIN shown : i < j => Precedes(shown[i], shown[j])
      BY DEF SyslogInv, OrderInv
    <2>. QED
      BY <1>1, <2>2, <2>3, <2>4, <2>5, <2>6, <2>7 DEF OrderInv, Precedes
  <1>. QED
    BY <1>7, <1>8

LEMMA InsertFailsStore ==
  ASSUME SyslogInv, InsertFails
  PROVE  StoreInv' /\ OrderInv'
  <1>. DEFINE lines == <<[type |-> "dropped"], [type |-> "error"]>>
  <1>1. /\ work # <<>> /\ ~inserted /\ ~inserted' /\ work' = Tail(work)
        /\ pipe' = pipe \o lines /\ dropped' = dropped \cup {Head(work)}
        /\ UNCHANGED <<count, stored, committed, lost, shown>>
    BY DEF InsertFails, CountDrop, WriteLines, sockets
  <1>2. /\ Tail(work) \in Seq(Sources \X (Nat \ {0}))
        /\ DOMAIN Tail(work) = 1..(Len(work) - 1) /\ Len(work) \in Nat \ {0}
        /\ DOMAIN work = 1..Len(work)
        /\ \A i \in 1..(Len(work) - 1) : Tail(work)[i] = work[i + 1]
        /\ Taken(Head(work))
        /\ ToSet(work) = {Head(work)} \cup ToSet(Tail(work))
    BY <1>1, TailOfWork
  <1>3. lines \in Seq(Lines) /\ \A i \in 1..Len(lines) : lines[i].type # "message"
    BY DEF Lines
  <1>. HIDE DEF lines
  <1>4. Rows' = Rows /\ pipe' \in Seq(Lines) /\ \A i \in Rows : pipe'[i] = pipe[i]
    BY <1>1, <1>3, PipeGrows
  <1>5. \A x : Taken(x)' <=> Taken(x)
    BY <1>1 DEF Taken
  <1>6. \A i \in DOMAIN work' : i \in Nat /\ i + 1 \in DOMAIN work /\ work'[i] = work[i + 1]
    BY <1>1, <1>2
  <1>7. StoreInv'
    <2>1. \A i \in DOMAIN work' : Taken(work'[i])
      BY <1>6 DEF SyslogInv, StoreInv
    <2>2. \A s \in Sources : \A k \in 1..count[s] :
            <<s, k>> \in committed \cup dropped' \cup lost \cup ToSet(work')
      BY <1>1, <1>2 DEF SyslogInv, StoreInv
    <2>3. \A x \in committed \cup dropped' \cup lost : Taken(x)
      BY <1>1, <1>2 DEF SyslogInv, StoreInv
    <2>4. \A i \in Rows' : pipe'[i].row \in committed
      BY <1>4 DEF SyslogInv, StoreInv
    <2>5. work' \in Seq(Sources \X (Nat \ {0}))
      BY <1>1, <1>2
    <2>6. \A x \in committed' \cup dropped' \cup lost' : Taken(x)'
      BY <1>1, <1>5, <2>3
    <2>7. \A i \in DOMAIN work' : Taken(work[i])'
      BY <1>5, <2>1
    <2>8. \A s \in Sources : \A k \in 1..count'[s] :
            <<s, k>> \in committed' \cup dropped' \cup lost' \cup ToSet(work')
      BY <1>1, <2>2
    <2>9. shown' \in Seq(Sources \X (Nat \ {0})) /\ pipe' \in Seq(Lines)
      BY <1>1, <1>4 DEF SyslogInv, StoreInv
    <2>10. \A i \in DOMAIN shown' : shown'[i] \in committed'
      BY <1>1 DEF SyslogInv, StoreInv
    <2>11. stored' \in [Projects -> SUBSET committed']
      BY <1>1 DEF SyslogInv, StoreInv
    <2>12. inserted' => work' # <<>> /\ Head(work') \in committed'
      BY <1>1
    <2>13. \A i \in Rows' : pipe'[i].row \in committed'
      BY <1>1, <2>4
    <2>. QED
      BY <2>5, <2>6, <2>7, <2>8, <2>9, <2>10, <2>11, <2>12, <2>13 DEF StoreInv
  <1>8. OrderInv'
    <2>1. \A i \in DOMAIN shown, j \in DOMAIN work' : Precedes(shown[i], work'[j])
      BY <1>6 DEF SyslogInv, OrderInv
    <2>2. \A i \in Rows, j \in DOMAIN work' : Precedes(pipe'[i].row, work'[j])
      BY <1>4, <1>6 DEF SyslogInv, OrderInv
    <2>3. \A i, j \in DOMAIN work' : i < j => Precedes(work'[i], work'[j])
      BY <1>6 DEF SyslogInv, OrderInv
    <2>4. \A i \in DOMAIN shown, j \in Rows : Precedes(shown[i], pipe'[j].row)
      BY <1>4 DEF SyslogInv, OrderInv
    <2>5. \A i, j \in Rows : i < j => Precedes(pipe'[i].row, pipe'[j].row)
      BY <1>4 DEF SyslogInv, OrderInv
    <2>6. \A i, j \in DOMAIN shown : i < j => Precedes(shown[i], shown[j])
      BY DEF SyslogInv, OrderInv
    <2>. QED
      BY <1>1, <1>4, <2>1, <2>2, <2>3, <2>4, <2>5, <2>6 DEF OrderInv, Precedes
  <1>. QED
    BY <1>7, <1>8

LEMMA DiesStore ==
  ASSUME SyslogInv, Dies
  PROVE  StoreInv' /\ OrderInv'
  <1>1. \A x : Taken(x)' <=> Taken(x)
    BY DEF Taken, Dies
  <1>2. \A m \in ToSet(work) : Taken(m)
    BY DEF SyslogInv, StoreInv, ToSet
  <1>3. /\ work' = <<>> /\ ~inserted' /\ lost' = lost \cup ToSet(work)
        /\ UNCHANGED <<count, pipe, stored, committed, dropped, shown>>
    BY DEF Dies
  <1>4. work' \in Seq(Sources \X (Nat \ {0})) /\ DOMAIN work' = {}
    BY <1>3
  <1>5. StoreInv'
    BY <1>1, <1>2, <1>3, <1>4 DEF SyslogInv, StoreInv, Rows
  <1>6. OrderInv'
    BY <1>3, <1>4 DEF SyslogInv, OrderInv, Rows, Precedes
  <1>. QED
    BY <1>5, <1>6

LEMMA DrainStore ==
  ASSUME SyslogInv, Drain
  PROVE  StoreInv' /\ OrderInv'
  <1>. DEFINE line == Head(pipe)
  <1>1. pipe \in Seq(Lines) /\ pipe # <<>> /\ shown \in Seq(Sources \X (Nat \ {0}))
    BY DEF SyslogInv, StoreInv, Drain
  <1>2. /\ pipe' = Tail(pipe) /\ shown' = Show(line)
        /\ UNCHANGED <<count, work, inserted, stored, committed, dropped, lost>>
    BY DEF Drain, sockets, store
  <1>3. /\ pipe' \in Seq(Lines) /\ DOMAIN pipe' = 1..(Len(pipe) - 1)
        /\ Len(pipe) \in Nat \ {0} /\ DOMAIN pipe = 1..Len(pipe)
        /\ \A i \in 1..(Len(pipe) - 1) : pipe'[i] = pipe[i + 1]
        /\ line = pipe[1] /\ line \in Lines
    BY <1>1, <1>2
  <1>. HIDE DEF line
  <1>4. \A i \in Rows' : i \in Nat /\ i + 1 \in Rows /\ 1 < i + 1 /\ pipe'[i] = pipe[i + 1]
    BY <1>3 DEF Rows
  <1>5. \A x : Taken(x)' <=> Taken(x)
    BY <1>2 DEF Taken
  <1>6. CASE line.type # "message"
    <2>1. shown' = shown
      BY <1>2, <1>6 DEF Show
    <2>2. StoreInv'
      BY <1>2, <1>3, <1>4, <1>5, <2>1 DEF SyslogInv, StoreInv
    <2>3. OrderInv'
      <3>1. \A i \in DOMAIN shown, j \in Rows' : Precedes(shown[i], pipe'[j].row)
        BY <1>4 DEF SyslogInv, OrderInv
      <3>2. \A i, j \in Rows' : i < j => Precedes(pipe'[i].row, pipe'[j].row)
        BY <1>4 DEF SyslogInv, OrderInv
      <3>3. \A i \in Rows', j \in DOMAIN work : Precedes(pipe'[i].row, work[j])
        BY <1>4 DEF SyslogInv, OrderInv
      <3>. QED
        BY <1>2, <2>1, <3>1, <3>2, <3>3 DEF SyslogInv, OrderInv, Precedes
    <2>. QED
      BY <2>2, <2>3
  <1>7. CASE line.type = "message"
    <2>1. 1 \in Rows /\ line.row \in Sources \X (Nat \ {0}) /\ line.row = pipe[1].row
      BY <1>3, <1>7 DEF Rows, Lines
    <2>2. /\ shown' \in Seq(Sources \X (Nat \ {0})) /\ Len(shown) \in Nat
          /\ DOMAIN shown = 1..Len(shown) /\ DOMAIN shown' = 1..(Len(shown) + 1)
          /\ \A i \in 1..Len(shown) : shown'[i] = shown[i]
          /\ shown'[Len(shown) + 1] = line.row
      <3>1. shown' = Append(shown, line.row)
        BY <1>2, <1>7 DEF Show
      <3>. QED
        BY <1>1, <2>1, <3>1, AppendProperties
    <2>3. ASSUME NEW i \in DOMAIN shown'
          PROVE  \/ i \in DOMAIN shown /\ shown'[i] = shown[i]
                 \/ i = Len(shown) + 1 /\ shown'[i] = pipe[1].row
      <3>1. i \in 1..(Len(shown) + 1)
        BY <2>2
      <3>2. i \in 1..Len(shown) \/ i = Len(shown) + 1
        BY <2>2, <3>1
      <3>. QED
        BY <2>1, <2>2, <3>2
    <2>4. StoreInv'
      <3>1. \A i \in DOMAIN shown' : shown'[i] \in committed
        BY <2>1, <2>3 DEF SyslogInv, StoreInv
      <3>2. \A i \in Rows' : pipe'[i].row \in committed
        BY <1>4 DEF SyslogInv, StoreInv
      <3>. QED
        BY <1>2, <1>3, <1>5, <2>2, <3>1, <3>2 DEF SyslogInv, StoreInv
    <2>5. OrderInv'
      <3>1. \A i \in DOMAIN shown', j \in Rows' : Precedes(shown'[i], pipe'[j].row)
        BY <1>4, <2>1, <2>3 DEF SyslogInv, OrderInv
      <3>2. \A i, j \in Rows' : i < j => Precedes(pipe'[i].row, pipe'[j].row)
        BY <1>4 DEF SyslogInv, OrderInv
      <3>3. \A i \in Rows', j \in DOMAIN work : Precedes(pipe'[i].row, work[j])
        BY <1>4 DEF SyslogInv, OrderInv
      <3>4. \A i \in DOMAIN shown', j \in DOMAIN work : Precedes(shown'[i], work[j])
        BY <2>1, <2>3 DEF SyslogInv, OrderInv
      <3>5. \A i, j \in DOMAIN shown' : i < j => Precedes(shown'[i], shown'[j])
        BY <2>1, <2>2, <2>3 DEF SyslogInv, OrderInv
      <3>6. \A i, j \in DOMAIN work : i < j => Precedes(work[i], work[j])
        BY DEF SyslogInv, OrderInv
      <3>. QED
        BY <1>2, <3>1, <3>2, <3>3, <3>4, <3>5, <3>6 DEF OrderInv, Precedes
    <2>. QED
      BY <2>4, <2>5
  <1>. QED
    BY <1>6, <1>7

LEMMA StoreKept ==
  ASSUME SyslogInv, Next
  PROVE  StoreInv' /\ OrderInv'
  <1>1. CASE Deletes
    <2>1. \A x : Taken(x)' <=> Taken(x)
      BY <1>1 DEF Taken, Deletes
    <2>. QED
      BY <1>1, <2>1 DEF SyslogInv, StoreInv, OrderInv, Deletes, Rows, Precedes
  <1>2. CASE UNCHANGED <<count, pipe, store, shown>>
    <2>1. \A x : Taken(x)' <=> Taken(x)
      BY <1>2 DEF Taken
    <2>. QED
      BY <1>2, <2>1 DEF SyslogInv, StoreInv, OrderInv, store, Rows, Precedes
  <1>. QED
    BY <1>1, <1>2, StoreSteps, TakesStore, InsertStore, EmitStore, DrainStore,
       InsertFailsStore, SaysStore, DiesStore

-----------------------------------------------------------------------------
(* Steps of the manager *)

Names ==
    /\ repository \in Projects /\ database \in Projects
    /\ state \in {"stopped", "starting", "listening", "stopping", "error"}
    /\ slot \in {"none", "start", "fail", "stop", "restart", "reset", "quit"}
    /\ process \in {"none", "boot", "serve", "dead"}
    /\ calls \in 0..MaxCalls /\ failures \in 0..MaxFailures

Flags ==
    /\ quit \in BOOLEAN /\ ready \in BOOLEAN /\ terminated \in BOOLEAN
    /\ troubled \in BOOLEAN /\ inserted \in BOOLEAN

LEMMA ManagerTypesAre == ManagerTypes <=> Names /\ Flags
  BY DEF ManagerTypes, Names, Flags

LEMMA ManagerKept ==
  ASSUME SyslogInv, Next
  PROVE  ManagerTypes' /\ FollowInv'
  <1>1. ManagerTypes /\ FollowInv /\ Names /\ Flags
    BY ManagerTypesAre DEF SyslogInv
  <1>2. CASE ReceiveUdp
    <2>1. Names'
      BY <1>1, <1>2, BoundsNat DEF Names, manager, launch, ReceiveUdp
    <2>2. Flags'
      BY <1>1, <1>2, Zenon DEF Flags, manager, launch, ReceiveUdp
    <2>3. FollowInv'
      BY <1>1, <1>2 DEF FollowInv, Names, manager, launch, ReceiveUdp
    <2>. QED
      BY <2>1, <2>2, <2>3 DEF ManagerTypes, Names, Flags
  <1>3. CASE \E c \in Clients : AcceptTcp(c)
    <2>1. Names'
      BY <1>1, <1>3, BoundsNat DEF Names, manager, launch, AcceptTcp, store
    <2>2. Flags'
      BY <1>1, <1>3, Zenon DEF Flags, manager, launch, AcceptTcp, store
    <2>3. FollowInv'
      BY <1>1, <1>3 DEF FollowInv, Names, manager, launch, AcceptTcp, store
    <2>. QED
      BY <2>1, <2>2, <2>3 DEF ManagerTypes, Names, Flags
  <1>4. CASE \E c \in Clients : ReceiveTcp(c)
    <2>1. Names'
      BY <1>1, <1>4, BoundsNat DEF Names, manager, launch, ReceiveTcp
    <2>2. Flags'
      BY <1>1, <1>4, Zenon DEF Flags, manager, launch, ReceiveTcp
    <2>3. FollowInv'
      BY <1>1, <1>4 DEF FollowInv, Names, manager, launch, ReceiveTcp
    <2>. QED
      BY <2>1, <2>2, <2>3 DEF ManagerTypes, Names, Flags
  <1>5. CASE \E c \in Clients : EndTcp(c)
    <2>1. Names'
      BY <1>1, <1>5, BoundsNat DEF Names, manager, launch, EndTcp
    <2>2. Flags'
      BY <1>1, <1>5, Zenon DEF Flags, manager, launch, EndTcp
    <2>3. FollowInv'
      BY <1>1, <1>5 DEF FollowInv, Names, manager, launch, EndTcp
    <2>. QED
      BY <2>1, <2>2, <2>3 DEF ManagerTypes, Names, Flags
  <1>6. CASE Boot
    <2>1. Names'
      BY <1>1, <1>6, BoundsNat DEF Names, manager, launch, Boot, store
    <2>2. Flags'
      BY <1>1, <1>6, Zenon DEF Flags, manager, launch, Boot, store
    <2>3. FollowInv'
      BY <1>1, <1>6 DEF FollowInv, Names, manager, launch, Boot, store
    <2>. QED
      BY <2>1, <2>2, <2>3 DEF ManagerTypes, Names, Flags
  <1>7. CASE Insert
    <2>1. Names'
      BY <1>1, <1>7, BoundsNat DEF Names, manager, launch, Insert
    <2>2. Flags'
      BY <1>1, <1>7, Zenon DEF Flags, manager, launch, Insert
    <2>3. FollowInv'
      BY <1>1, <1>7 DEF FollowInv, Names, manager, launch, Insert
    <2>. QED
      BY <2>1, <2>2, <2>3 DEF ManagerTypes, Names, Flags
  <1>8. CASE EmitMessage
    <2>1. Names'
      BY <1>1, <1>8, BoundsNat DEF Names, manager, launch, EmitMessage
    <2>2. Flags'
      BY <1>1, <1>8, Zenon DEF Flags, manager, launch, EmitMessage
    <2>3. FollowInv'
      BY <1>1, <1>8 DEF FollowInv, Names, manager, launch, EmitMessage
    <2>. QED
      BY <2>1, <2>2, <2>3 DEF ManagerTypes, Names, Flags
  <1>9. CASE InsertFails
    <2>1. Names'
      BY <1>1, <1>9, BoundsNat DEF Names, manager, launch, InsertFails
    <2>2. Flags'
      BY <1>1, <1>9, Zenon DEF Flags, manager, launch, InsertFails
    <2>3. FollowInv'
      BY <1>1, <1>9 DEF FollowInv, Names, manager, launch, InsertFails
    <2>. QED
      BY <2>1, <2>2, <2>3 DEF ManagerTypes, Names, Flags
  <1>10. CASE Terminate
    <2>1. Names'
      BY <1>1, <1>10, BoundsNat DEF Names, manager, launch, Terminate, Dies
    <2>2. Flags'
      BY <1>1, <1>10, Zenon DEF Flags, manager, launch, Terminate, Dies
    <2>3. FollowInv'
      BY <1>1, <1>10 DEF FollowInv, Names, manager, launch, Terminate, Dies
    <2>. QED
      BY <2>1, <2>2, <2>3 DEF ManagerTypes, Names, Flags
  <1>11. CASE Crash
    <2>1. Names'
      BY <1>1, <1>11, BoundsNat DEF Names, manager, launch, Crash, Dies
    <2>2. Flags'
      BY <1>1, <1>11, Zenon DEF Flags, manager, launch, Crash, Dies
    <2>3. FollowInv'
      BY <1>1, <1>11 DEF FollowInv, Names, manager, launch, Crash, Dies
    <2>. QED
      BY <2>1, <2>2, <2>3 DEF ManagerTypes, Names, Flags
  <1>12. CASE Kill
    <2>1. Names'
      BY <1>1, <1>12, BoundsNat DEF Names, manager, launch, Kill, Dies
    <2>2. Flags'
      BY <1>1, <1>12, Zenon DEF Flags, manager, launch, Kill, Dies
    <2>3. FollowInv'
      BY <1>1, <1>12 DEF FollowInv, Names, manager, launch, Kill, Dies
    <2>. QED
      BY <2>1, <2>2, <2>3 DEF ManagerTypes, Names, Flags
  <1>13. CASE Drain
    <2>1. Names'
      BY <1>1, <1>13, BoundsNat DEF Names, manager, launch, Drain, store
    <2>2. Flags'
      BY <1>1, <1>13, Zenon DEF Flags, manager, launch, Drain, store
    <2>3. FollowInv'
      BY <1>1, <1>13 DEF FollowInv, Names, manager, launch, Drain, store
    <2>. QED
      BY <2>1, <2>2, <2>3 DEF ManagerTypes, Names, Flags
  <1>14. CASE Finished
    <2>1. Names'
      BY <1>1, <1>14, BoundsNat
      DEF Names, manager, launch, Finished, ReapProcess, StateOnExit, store
    <2>2. Flags'
      BY <1>1, <1>14, Zenon
      DEF Flags, manager, launch, Finished, ReapProcess, StateOnExit, store
    <2>3. FollowInv'
      BY <1>1, <1>14
      DEF FollowInv, Names, manager, launch, Finished, ReapProcess,
          StateOnExit, store
    <2>. QED
      BY <2>1, <2>2, <2>3 DEF ManagerTypes, Names, Flags
  <1>15. CASE StartServer
    <2>1. Names'
      BY <1>1, <1>15, BoundsNat
      DEF Names, manager, launch, StartServer, Called, LaunchOn, store
    <2>2. Flags'
      BY <1>1, <1>15, Zenon
      DEF Flags, manager, launch, StartServer, Called, LaunchOn, store
    <2>3. FollowInv'
      BY <1>1, <1>15
      DEF FollowInv, Names, manager, launch, StartServer, Called, LaunchOn,
          store
    <2>. QED
      BY <2>1, <2>2, <2>3 DEF ManagerTypes, Names, Flags
  <1>16. CASE Ready
    <2>1. Names'
      BY <1>1, <1>16, BoundsNat DEF Names, manager, launch, Ready, store
    <2>2. Flags'
      BY <1>1, <1>16, Zenon DEF Flags, manager, launch, Ready, store
    <2>3. FollowInv'
      BY <1>1, <1>16 DEF FollowInv, Names, manager, launch, Ready, store
    <2>. QED
      BY <2>1, <2>2, <2>3 DEF ManagerTypes, Names, Flags
  <1>17. CASE NotReady
    <2>1. Names'
      BY <1>1, <1>17, BoundsNat DEF Names, manager, launch, NotReady, store
    <2>2. Flags'
      BY <1>1, <1>17, Zenon DEF Flags, manager, launch, NotReady, store
    <2>3. FollowInv'
      BY <1>1, <1>17 DEF FollowInv, Names, manager, launch, NotReady, store
    <2>. QED
      BY <2>1, <2>2, <2>3 DEF ManagerTypes, Names, Flags
  <1>18. CASE StopServer
    <2>1. Names'
      BY <1>1, <1>18, BoundsNat
      DEF Names, manager, launch, StopServer, Called, StopFor, Running, store
    <2>2. Flags'
      BY <1>1, <1>18, Zenon
      DEF Flags, manager, launch, StopServer, Called, StopFor, Running, store
    <2>3. FollowInv'
      BY <1>1, <1>18
      DEF FollowInv, Names, manager, launch, StopServer, Called, StopFor,
          Running, store
    <2>. QED
      BY <2>1, <2>2, <2>3 DEF ManagerTypes, Names, Flags
  <1>19. CASE \E p \in Projects : SwitchProject(p)
    <2>1. Names'
      BY <1>1, <1>19, BoundsNat
      DEF Names, manager, launch, SwitchProject, Called, LaunchOn, StopFor,
          Running, store
    <2>2. Flags'
      BY <1>1, <1>19, Zenon
      DEF Flags, manager, launch, SwitchProject, Called, LaunchOn, StopFor,
          Running, store
    <2>3. FollowInv'
      BY <1>1, <1>19
      DEF FollowInv, Names, manager, launch, SwitchProject, Called, LaunchOn,
          StopFor, Running, store
    <2>. QED
      BY <2>1, <2>2, <2>3 DEF ManagerTypes, Names, Flags
  <1>20. CASE ResetLogData
    <2>1. Names'
      BY <1>1, <1>20, BoundsNat
      DEF Names, manager, launch, ResetLogData, Called, StopFor, Reset, store
    <2>2. Flags'
      BY <1>1, <1>20, Zenon
      DEF Flags, manager, launch, ResetLogData, Called, StopFor, Reset, store
    <2>3. FollowInv'
      BY <1>1, <1>20
      DEF FollowInv, Names, manager, launch, ResetLogData, Called, StopFor,
          Reset, store
    <2>. QED
      BY <2>1, <2>2, <2>3 DEF ManagerTypes, Names, Flags
  <1>21. CASE Quit
    <2>1. Names'
      BY <1>1, <1>21, BoundsNat DEF Names, manager, launch, Quit, store
    <2>2. Flags'
      BY <1>1, <1>21, Zenon DEF Flags, manager, launch, Quit, store
    <2>3. FollowInv'
      BY <1>1, <1>21 DEF FollowInv, Names, manager, launch, Quit, store
    <2>. QED
      BY <2>1, <2>2, <2>3 DEF ManagerTypes, Names, Flags
  <1>22. CASE StopEnds
    <2>1. Names'
      BY <1>1, <1>22, BoundsNat
      DEF Names, manager, launch, StopEnds, ReapProcess, store
    <2>2. Flags'
      BY <1>1, <1>22, Zenon
      DEF Flags, manager, launch, StopEnds, ReapProcess, store
    <2>3. FollowInv'
      BY <1>1, <1>22
      DEF FollowInv, Names, manager, launch, StopEnds, ReapProcess, store
    <2>. QED
      BY <2>1, <2>2, <2>3 DEF ManagerTypes, Names, Flags
  <1>23. CASE Relaunches
    <2>1. Names'
      BY <1>1, <1>23, BoundsNat
      DEF Names, manager, launch, Relaunches, Reset, store
    <2>2. Flags'
      BY <1>1, <1>23, Zenon
      DEF Flags, manager, launch, Relaunches, Reset, store
    <2>3. FollowInv'
      BY <1>1, <1>23
      DEF FollowInv, Names, manager, launch, Relaunches, Reset, store
    <2>. QED
      BY <2>1, <2>2, <2>3 DEF ManagerTypes, Names, Flags
  <1>. QED
    BY <1>2, <1>3, <1>4, <1>5, <1>6, <1>7, <1>8, <1>9, <1>10, <1>11, <1>12,
       <1>13, <1>14, <1>15, <1>16, <1>17, <1>18, <1>19, <1>20, <1>21, <1>22,
       <1>23
    DEF Next, Collector

-----------------------------------------------------------------------------
(* The invariant holds *)

LEMMA EmptyStream ==
  Rest(<<>>) = <<>> /\ Frames(<<>>) = {} /\ \A s \in Seq(Bytes) : IsPrefix(<<>>, s)
  <1>1. <<>> \in Seq(Bytes) /\ Len(<<>>) = 0
    OBVIOUS
  <1>. DEFINE e == <<>>
              p == NewlineBefore(e, Len(e) + 1)
  <1>2. Rest(e) \in Seq(Bytes) /\ Len(Rest(e)) = 0
    <2>1. p \in 0..Len(e) /\ Rest(e) \in Seq(Bytes) /\ Len(Rest(e)) = Len(e) - p
      <3>1. e \in Seq(Bytes)
        BY <1>1
      <3>. HIDE DEF e
      <3>. QED
        BY <3>1, RestIs
    <2>. QED
      BY <1>1, <2>1
  <1>3. Frames(e) = {}
    <2>1. Frames(e) \subseteq 1..Len(e)
      <3>1. e \in Seq(Bytes)
        BY <1>1
      <3>. HIDE DEF e
      <3>. QED
        BY <3>1, FramesFinite
    <2>. QED
      BY <1>1, <2>1
  <1>4. ASSUME NEW s \in Seq(Bytes) PROVE IsPrefix(<<>>, s)
    <2>1. <<>> \o s = s
      BY ConcatEmptySeq
    <2>. QED
      BY <1>1, <2>1, PrefixOfConcat
  <1>. QED
    BY <1>2, <1>3, <1>4

LEMMA SyslogInit == Init => SyslogInv
  <1>. SUFFICES ASSUME Init PROVE SyslogInv
    OBVIOUS
  <1>1. Names
    BY BoundsNat DEF Init, Names
  <1>2. Flags
    BY Zenon DEF Init, Flags
  <1>3. SocketInv
    <2>1. SocketTypes
      BY StreamAssumption DEF Init, SocketTypes
    <2>2. ASSUME NEW c \in Clients PROVE StreamOf(c)
      <3>1. /\ consumed[c] = <<>> /\ buffer[c] = <<>> /\ count[c] = 0
            /\ unread[c] \in Streams /\ unread[c] \in Seq(Bytes)
        BY StreamAssumption DEF Init, Sources
      <3>2. <<>> \o unread[c] = unread[c]
        BY <3>1, ConcatEmptySeq
      <3>. QED
        BY <3>1, <3>2, EmptyStream, FS_EmptySet DEF StreamOf
    <2>3. count[Udp] <= MaxDatagrams
      BY BoundsNat DEF Init, Sources
    <2>. QED
      BY <2>1, <2>2, <2>3 DEF SocketInv
  <1>4. /\ work = <<>> /\ shown = <<>> /\ pipe = <<>> /\ ~inserted
        /\ \A s \in Sources : count[s] = 0
        /\ DOMAIN work = {} /\ DOMAIN shown = {} /\ Rows = {}
        /\ stored \in [Projects -> SUBSET committed]
        /\ committed \cup dropped \cup lost = {}
    BY DEF Init, Rows
  <1>5. StoreInv
    <2>1. <<>> \in Seq(Sources \X (Nat \ {0})) /\ <<>> \in Seq(Lines)
      OBVIOUS
    <2>. QED
      BY <1>4, <2>1 DEF StoreInv
  <1>6. OrderInv
    BY <1>4 DEF OrderInv
  <1>7. FollowInv
    BY DEF Init, FollowInv
  <1>. QED
    BY <1>1, <1>2, <1>3, <1>5, <1>6, <1>7, ManagerTypesAre DEF SyslogInv

LEMMA SyslogStep == SyslogInv /\ [Next]_vars => SyslogInv'
  <1>. SUFFICES ASSUME SyslogInv, [Next]_vars PROVE SyslogInv'
    OBVIOUS
  <1>1. CASE Next
    BY <1>1, SocketsKept, StoreKept, ManagerKept DEF SyslogInv
  <1>2. CASE UNCHANGED vars
    <2>1. UNCHANGED <<manager, launch, failures, inserted>>
      BY <1>2 DEF vars, store
    <2>2. ManagerTypes' /\ FollowInv'
      BY <2>1 DEF SyslogInv, ManagerTypes, FollowInv, manager, launch
    <2>3. SocketInv'
      BY <1>2 DEF SyslogInv, SocketInv, SocketTypes, StreamOf, vars, sockets
    <2>4. StoreInv' /\ OrderInv'
      <3>1. UNCHANGED <<count, pipe, store, shown>>
        BY <1>2 DEF vars, sockets
      <3>2. \A x : Taken(x)' <=> Taken(x)
        BY <3>1 DEF Taken
      <3>. QED
        BY <3>1, <3>2 DEF SyslogInv, StoreInv, OrderInv, store, Rows, Precedes
    <2>. QED
      BY <2>2, <2>3, <2>4 DEF SyslogInv
  <1>. QED
    BY <1>1, <1>2

LEMMA SyslogInvariant == Spec => []SyslogInv
  BY SyslogInit, SyslogStep, PTL DEF Spec

-----------------------------------------------------------------------------
(* What it implies *)

\* No more messages are taken from the beginning of a stream than it holds.
LEMMA PrefixCount ==
  ASSUME NEW a \in Seq(Bytes), NEW s \in Seq(Bytes), IsPrefix(a, s)
  PROVE  Cardinality(Frames(a)) <= Cardinality(Frames(s))
  <1>. DEFINE t == SubSeq(s, Len(a) + 1, Len(s))
  <1>1. Len(a) <= Len(s) /\ Len(a) \in Nat /\ Len(s) \in Nat /\ SubSeq(a, 1, Len(a)) = SubSeq(s, 1, Len(a))
    BY DEF IsPrefix
  <1>2. t \in Seq(Bytes)
    BY <1>1, SubSeqProperties
  <1>3. a \o t = s
    <2>1. SubSeq(a, 1, Len(a)) = a /\ SubSeq(s, 1, Len(s)) = s
      BY SubSeqFull
    <2>2. SubSeq(s, 1, Len(a)) \o SubSeq(s, Len(a) + 1, Len(s)) = SubSeq(s, 1, Len(s))
      <3>. DEFINE k == Len(a)
                  n == Len(s)
      <3>1. 1 \in 1..(Len(s) + 1) /\ k \in (1 - 1)..Len(s) /\ n \in k..Len(s)
        BY <1>1
      <3>. HIDE DEF k, n
      <3>2. SubSeq(s, 1, k) \o SubSeq(s, k + 1, n) = SubSeq(s, 1, n)
        BY <3>1, ConcatAdjacentSubSeq
      <3>. QED
        BY <3>2 DEF k, n
    <2>. QED
      BY <1>1, <2>1, <2>2
  <1>. HIDE DEF t
  <1>4. Cardinality(Frames(s)) = Cardinality(Frames(a)) + Cardinality(Frames(Rest(a) \o t))
    BY <1>2, <1>3, FramesCount
  <1>5. Rest(a) \o t \in Seq(Bytes)
    BY <1>2, RestIs, ConcatProperties
  <1>6. Cardinality(Frames(a)) \in Nat /\ Cardinality(Frames(Rest(a) \o t)) \in Nat
    <2>1. Cardinality(Frames(a)) \in Nat
      BY FramesFinite
    <2>. DEFINE r == Rest(a) \o t
    <2>2. r \in Seq(Bytes)
      BY <1>5
    <2>. HIDE DEF r
    <2>3. Cardinality(Frames(r)) \in Nat
      BY <2>2, FramesFinite
    <2>. QED
      BY <2>1, <2>3 DEF r
  <1>. QED
    BY <1>4, <1>6

LEMMA TakenIsMessage ==
  ASSUME SyslogInv, NEW m, Taken(m)
  PROVE  m \in AllMessages
  <1>1. /\ m = <<m[1], m[2]>> /\ m[1] \in Sources /\ m[2] \in Nat \ {0}
        /\ m[2] <= count[m[1]] /\ count[m[1]] \in Nat
    BY DEF Taken, SyslogInv, SocketInv, SocketTypes
  <1>2. CASE m[1] = Udp
    <2>1. m[2] \in 1..MaxDatagrams
      BY <1>1, <1>2, BoundsNat DEF SyslogInv, SocketInv
    <2>. QED
      BY <1>1, <1>2, <2>1 DEF AllMessages
  <1>3. CASE m[1] \in Clients
    <2>. DEFINE c == m[1]
    <2>1. StreamOf(c) /\ consumed[c] \in Seq(Bytes) /\ Cardinality(Frames(consumed[c])) \in Nat
      BY <1>3, FramesFinite DEF SyslogInv, SocketInv, SocketTypes
    <2>2. \E s \in Streams : MostMessages(s) \in Nat /\ count[c] <= MostMessages(s)
      <3>1. PICK s \in Streams : IsPrefix(consumed[c], s)
        BY <2>1 DEF StreamOf
      <3>2. s \in Seq(Bytes) /\ Cardinality(Frames(s)) \in Nat
        BY StreamAssumption, FramesFinite
      <3>3. Cardinality(Frames(consumed[c])) <= Cardinality(Frames(s))
        BY <2>1, <3>1, <3>2, PrefixCount
      <3>4. CASE count[c] = Cardinality(Frames(consumed[c]))
        BY <2>1, <3>2, <3>3, <3>4 DEF MostMessages
      <3>5. CASE count[c] # Cardinality(Frames(consumed[c]))
        <4>1. /\ consumed[c] \in Streams /\ Rest(consumed[c]) # <<>>
              /\ count[c] = Cardinality(Frames(consumed[c])) + 1
          BY <2>1, <3>5 DEF StreamOf
        <4>. QED
          BY <2>1, <4>1 DEF MostMessages
      <3>. QED
        BY <3>4, <3>5
    <2>3. PICK s \in Streams : MostMessages(s) \in Nat /\ count[c] <= MostMessages(s)
      BY <2>2
    <2>4. m[2] \in 1..MostMessages(s)
      BY <1>1, <2>3
    <2>. QED
      BY <1>1, <1>3, <2>4 DEF AllMessages
  <1>. QED
    BY <1>1, <1>2, <1>3 DEF Sources

\* Every variable has its type, and there are no other messages than those a
\* peer may send: the collector invents none.
THEOREM SyslogTypeCorrect == Spec => []SyslogTypeOK
  <1>1. SyslogInv => SyslogTypeOK
    <2>. SUFFICES ASSUME SyslogInv PROVE SyslogTypeOK
      OBVIOUS
    <2>1. ToSet(work) \cup committed \cup dropped \cup lost \cup ToSet(shown) \subseteq AllMessages
      BY TakenIsMessage DEF SyslogInv, StoreInv, ToSet
    <2>2. \A p \in Projects : stored[p] \subseteq committed
      BY DEF SyslogInv, StoreInv
    <2>3. connected \subseteq Clients
      BY DEF SyslogInv, SocketInv, SocketTypes
    <2>. QED
      BY <2>1, <2>2, <2>3 DEF SyslogInv, ManagerTypes, SyslogTypeOK
  <1>. QED
    BY <1>1, SyslogInvariant, PTL

\* The messages taken from a TCP stream are its lines, whatever the chunks
\* receive_tcp gets it in, and each message taken is stored, counted as
\* dropped, still in work, or was in work when the collector was killed.
THEOREM NothingLost == Spec => []NothingLostQuietly
  <1>1. SyslogInv => NothingLostQuietly
    BY DEF SyslogInv, SocketInv, StreamOf, StoreInv, NothingLostQuietly
  <1>. QED
    BY <1>1, SyslogInvariant, PTL

\* The rows QML is given are in the database, once each and in the order of
\* their source: the event of a row follows its commit.
THEOREM RowsAreStored == Spec => []ShownAfterStored
  <1>1. SyslogInv => ShownAfterStored
    <2>. SUFFICES ASSUME SyslogInv PROVE ShownAfterStored
      OBVIOUS
    <2>1. ToSet(shown) \subseteq committed
      BY DEF SyslogInv, StoreInv, ToSet
    <2>2. \A i, j \in DOMAIN shown :
            i < j /\ shown[i][1] = shown[j][1] => shown[i][2] < shown[j][2]
      BY DEF SyslogInv, OrderInv, Precedes
    <2>. QED
      BY <2>1, <2>2 DEF ShownAfterStored
  <1>. QED
    BY <1>1, SyslogInvariant, PTL

\* Between slots, a live collector writes to the database of the open
\* workspace unless the manager showed an error since it was launched.
THEOREM FollowsProject == Spec => []FollowsUnlessTroubled
  <1>1. SyslogInv => FollowsUnlessTroubled
    BY DEF SyslogInv, FollowInv, FollowsUnlessTroubled
  <1>. QED
    BY <1>1, SyslogInvariant, PTL

=============================================================================
