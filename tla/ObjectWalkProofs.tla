-------------------------- MODULE ObjectWalkProofs --------------------------
(***************************************************************************)
(* Proofs about the framer and ObjectWalk for every file, every way of     *)
(* reading it and every restart: types, that framer, staged bytes and file *)
(* walk are accepted together when they are restored, and that a walk      *)
(* commits the records which a reading of the whole section finds, ending  *)
(* as that reading ends.                                                   *)
(***************************************************************************)
EXTENDS ObjectReading, FiniteSetTheorems, WellFoundedInduction, TLAPS

----------------------------------------------------------------------------
(* The greatest member of a set of positions. *)

LEMMA Below ==
  ASSUME NEW i \in Nat, NEW j \in Nat, i < j
  PROVE  <<i, j>> \in OpToRel(<, Nat)
BY Zenon DEF OpToRel

LEMMA LeastMember ==
  ASSUME NEW T \in SUBSET Nat, T # {}
  PROVE  \E e \in T : \A f \in T : e <= f
<1> DEFINE R == OpToRel(<, Nat)
<1>1. IsWellFoundedOn(R, Nat)
  BY NatLessThanWellFounded
<1>2. \A i, j \in Nat : i < j => <<i, j>> \in R
  BY Below
<1> HIDE DEF R
<1>3. PICK e \in T : \A f \in T : ~(<<f, e>> \in R)
  BY <1>1, WFMin
<1>4. ASSUME NEW f \in T, ~(e <= f) PROVE FALSE
  <2>1. e \in Nat /\ f \in Nat /\ f < e
    BY <1>4
  <2>2. QED
    BY <1>2, <1>3, <2>1
<1>5. QED
  BY <1>4

LEMMA MaxOfPositions ==
  ASSUME NEW n \in Nat, NEW S \in SUBSET (1..n), S # {}
  PROVE  Max(S) \in S /\ \A i \in S : i <= Max(S)
<1> DEFINE B == {b \in 0..n : \A i \in S : i <= b}
<1>1. n \in B /\ B \in SUBSET Nat
  OBVIOUS
<1>2. PICK b \in B : \A c \in B : b <= c
  BY <1>1, LeastMember
<1>3. b \in S
  <2> SUFFICES ASSUME b \notin S PROVE FALSE
    OBVIOUS
  <2>1. b \in 0..n /\ \A i \in S : i <= b /\ i \in 1..n
    BY <1>2
  <2>2. \A i \in S : i # b
    OBVIOUS
  <2>3. \A i \in S : i <= b - 1
    BY <2>1, <2>2
  <2>4. b - 1 \in 0..n
    <3>1. PICK i \in S : TRUE
      OBVIOUS
    <3>2. QED
      BY <2>1, <2>3, <3>1
  <2>5. b - 1 \in B
    BY <2>3, <2>4
  <2>6. QED
    BY <1>2, <2>1, <2>5
<1>4. \E x \in S : \A y \in S : x >= y
  BY <1>2, <1>3
<1>5. Max(S) \in S /\ \A y \in S : Max(S) >= y
  BY <1>4, Zenon DEF Max
<1>6. QED
  BY <1>5

\* The last of them when one is added behind the others.
LEMMA MaxOfLast ==
  ASSUME NEW n \in Nat, NEW S \in SUBSET (1..n)
  PROVE  Max(S \cup {n + 1}) = n + 1
<1> DEFINE T == S \cup {n + 1}
<1>1. T \in SUBSET (1..(n + 1)) /\ T # {}
  OBVIOUS
<1>2. Max(T) \in T /\ \A i \in T : i <= Max(T)
  BY <1>1, MaxOfPositions
<1>3. n + 1 \in T /\ \A i \in T : i \in 1..(n + 1)
  OBVIOUS
<1> HIDE DEF T
<1>4. Max(T) = n + 1
  BY <1>2, <1>3
<1>5. QED
  BY <1>4 DEF T

----------------------------------------------------------------------------
(* The framer. *)

MsFrame(f) ==
  /\ StartOk(f) /\ f.start < f.total
  /\ f.at = f.start + f.msLen
  /\ f.words <= 1 /\ f.msLen = 2 * f.words + f.fieldLen
  /\ f.summed = f.msLen
  /\ f.mcLen = 0 /\ f.mcDone = FALSE /\ f.done = 0

McFrame(s, f) ==
  IF f.format = "R2010"
  THEN /\ f.mcLen <= RecordAt(s, f).mc
       /\ f.mcDone = (f.mcLen = RecordAt(s, f).mc)
       /\ f.mcLen = MaxMc => ~RecordAt(s, f).wide
       /\ IF f.mcDone THEN RecordAt(s, f).mcFits /\ f.mcLen >= 1 /\ f.done >= f.mcLen
          ELSE f.done = f.mcLen
  ELSE f.mcLen = 0 /\ f.mcDone = FALSE

BodyFrame(s, f) ==
  /\ StartOk(f) /\ f.start < f.total
  /\ f.size # 0 /\ f.msLen = 2 * f.words /\ f.words # 0
  /\ f.at = f.start + f.msLen + f.done + f.fieldLen
  /\ f.summed = f.msLen + f.done
  /\ McFrame(s, f)
  /\ IF InMc(f) THEN f.start + f.msLen + f.size + 3 <= f.total ELSE RecordEnd(f) <= f.total
  /\ IF f.stage = "Crc" THEN f.done = Payload(f) ELSE f.done < Payload(f) /\ f.fieldLen = 0

\* Where a framer can be that has not refused its section's bytes.
FrameOk(s, f) ==
  /\ f \in FrameType
  /\ f.total >= Prologue /\ f.start <= f.at /\ f.at <= f.total
  /\ CASE f.stage = "Prologue" ->
            f.at < Prologue /\ f.start = 0 /\ f.records = 0 /\ NoRecord(f)
       [] f.stage \in {"Done", "Ended"} ->
            /\ f.at = f.total /\ f.start = f.at
            /\ (f.records = 0) = (f.at = Prologue)
            /\ CountOk(f, f.at) /\ NoRecord(f)
       [] f.stage = "Ms" -> MsFrame(f)
       [] f.stage \in {"Body", "Crc"} -> BodyFrame(s, f)

\* One call takes some of the bytes, all for the same section.
Framed(s, f, n, r) ==
  /\ r.taken \in 1..n
  /\ FrameOk(s, r.frame)
  /\ r.frame.format = f.format /\ r.frame.total = f.total
  /\ r.frame.at = f.at + r.taken
  /\ r.frame.stage # "Ended"

LEMMA FrameFields ==
  ASSUME NEW f \in FrameType
  PROVE  /\ f.format \in Formats /\ f.total \in Nat /\ f.at \in Nat /\ f.stage \in Frames
         /\ f.start \in Nat /\ f.size \in Nat /\ f.words \in 0..2 /\ f.msLen \in 0..4
         /\ f.mcLen \in 0..MaxMc /\ f.mcDone \in BOOLEAN /\ f.done \in Nat
         /\ f.summed \in Nat /\ f.fieldLen \in 0..1 /\ f.records \in Nat
BY DEF FrameType

LEMMA RecordFacts ==
  ASSUME NEW s \in StreamType, NEW f \in FrameType
  PROVE  RecordAt(s, f) \in RecordType
<1>1. s.records \in Seq(RecordType) /\ f.records \in Nat
  BY DEF StreamType, FrameType
<1>2. CASE f.records < Len(s.records)
  <2>1. f.records + 1 \in 1..Len(s.records)
    BY <1>1, <1>2
  <2>2. QED
    BY <1>1, <1>2, <2>1 DEF RecordAt
<1>3. CASE ~(f.records < Len(s.records))
  BY <1>3 DEF RecordAt, Zeros, RecordType
<1>4. QED
  BY <1>2, <1>3

LEMMA BeginType ==
  ASSUME NEW format \in Formats, NEW total \in Nat
  PROVE  LET f == Begin(format, total)
         IN /\ f \in FrameType /\ f.format = format /\ f.total = total /\ f.at = 0
            /\ f.stage = "Prologue" /\ f.start = 0 /\ f.records = 0 /\ NoRecord(f)
<1>1. Idle \in FrameType
  BY FramerAssumption DEF Idle, FrameType, Formats, Frames
<1>2. Idle.at = 0 /\ Idle.stage = "Prologue" /\ Idle.start = 0 /\ Idle.records = 0 /\ NoRecord(Idle)
  BY DEF Idle, NoRecord
<1>3. Begin(format, total) = [Idle EXCEPT !.format = format, !.total = total]
  BY Zenon DEF Begin
<1> HIDE DEF Idle
<1>4. QED
  BY <1>1, <1>2, <1>3 DEF FrameType, NoRecord

LEMMA BeginOk ==
  ASSUME NEW s, NEW format \in Formats, NEW total \in Nat, total >= Prologue
  PROVE  FrameOk(s, Begin(format, total))
<1> DEFINE f == Begin(format, total)
<1>1. /\ f \in FrameType /\ f.total = total /\ f.at = 0
      /\ f.stage = "Prologue" /\ f.start = 0 /\ f.records = 0 /\ NoRecord(f)
  BY BeginType
<1> HIDE DEF f
<1>2. FrameOk(s, f)
  BY <1>1 DEF FrameOk, Prologue
<1>3. QED
  BY <1>2 DEF f

\* The record behind one that is whole, or behind the prologue.
LEMMA NextRecordOk ==
  ASSUME NEW s, NEW f \in FrameType, f.at <= f.total, f.at >= Prologue,
         CountOk(f, f.at), (f.records = 0) = (f.at = Prologue)
  PROVE  LET g == NextRecord(f)
         IN FrameOk(s, g) /\ g.format = f.format /\ g.total = f.total /\ g.at = f.at
            /\ g.stage # "Ended"
<1> DEFINE b == Begin(f.format, f.total)
           g == NextRecord(f)
<1>1. /\ f.format \in Formats /\ f.total \in Nat /\ f.at \in Nat /\ f.records \in Nat
  BY FrameFields
<1>2. b \in FrameType /\ b.format = f.format /\ b.total = f.total /\ NoRecord(b)
  BY <1>1, BeginType
<1>3. g = [b EXCEPT !.at = f.at, !.records = f.records, !.start = f.at,
                    !.stage = IF f.at = f.total THEN "Done" ELSE "Ms"]
  BY Zenon DEF NextRecord
<1> HIDE DEF b, g
<1>4. g \in FrameType
  BY <1>1, <1>2, <1>3 DEF FrameType, Frames
<1>5. /\ g.format = f.format /\ g.total = f.total /\ g.at = f.at /\ g.start = f.at
      /\ g.records = f.records /\ g.stage = IF f.at = f.total THEN "Done" ELSE "Ms"
      /\ g.size = 0 /\ g.words = 0 /\ g.msLen = 0 /\ g.mcLen = 0 /\ g.mcDone = FALSE
      /\ g.done = 0 /\ g.fieldLen = 0 /\ g.summed = 0
  BY <1>1, <1>2, <1>3 DEF FrameType, NoRecord
<1>6. CountOk(g, g.at) /\ NoRecord(g)
  BY <1>5 DEF CountOk, NoRecord
<1>7. CASE f.at = f.total
  BY <1>1, <1>4, <1>5, <1>6, <1>7 DEF FrameOk, g, Prologue
<1>8. CASE f.at # f.total
  <2>1. StartOk(g)
    BY <1>1, <1>5, <1>6 DEF StartOk, CountOk, Prologue
  <2>2. MsFrame(g)
    BY <1>1, <1>5, <1>8, <2>1 DEF MsFrame
  <2>3. FrameOk(s, g)
    BY <1>1, <1>4, <1>5, <1>8, <2>2 DEF FrameOk, Prologue
  <2>4. QED
    BY <1>5, <1>8, <2>3 DEF g
<1>9. QED
  BY <1>7, <1>8

LEMMA FewestFacts ==
  ASSUME NEW a \in Nat \ {0}, NEW b \in Nat \ {0}
  PROVE  Fewest(a, b) \in Nat \ {0} /\ Fewest(a, b) <= a /\ Fewest(a, b) <= b
BY DEF Fewest

LEMMA PrologueOk ==
  ASSUME NEW s \in StreamType, NEW f, FrameOk(s, f), f.stage = "Prologue",
         NEW n \in Nat \ {0}, f.at + n <= f.total, FeedPrologue(s, f, n).error = "none"
  PROVE  Framed(s, f, n, FeedPrologue(s, f, n))
<1> DEFINE k == Fewest(n, Prologue - f.at)
           g == [f EXCEPT !.at = @ + k]
           h == IF g.at = Prologue THEN NextRecord(g) ELSE g
<1>1. /\ f \in FrameType /\ f.at \in Nat /\ f.total \in Nat
      /\ f.at < Prologue /\ f.start = 0 /\ f.records = 0 /\ NoRecord(f) /\ f.total >= Prologue
  BY FrameFields DEF FrameOk
<1>2. k \in 1..n /\ k <= Prologue - f.at
  BY <1>1 DEF Fewest, Prologue
<1>3. FeedPrologue(s, f, n) = Takes(h, k, "Framing")
  BY Zenon DEF FeedPrologue, Refuses
<1> HIDE DEF k
<1>4. /\ g \in FrameType /\ g.at = f.at + k /\ g.total = f.total /\ g.format = f.format
      /\ g.stage = "Prologue" /\ g.start = 0 /\ g.records = 0 /\ NoRecord(g)
  BY <1>1, <1>2 DEF FrameType, NoRecord
<1> HIDE DEF g
<1>5. FrameOk(s, h) /\ h.format = f.format /\ h.total = f.total /\ h.at = f.at + k
      /\ h.stage # "Ended"
  <2>1. CASE g.at = Prologue
    <3>1. CountOk(g, g.at) /\ (g.records = 0) = (g.at = Prologue)
      BY <1>4, <2>1 DEF CountOk, MinRecord, Prologue
    <3>2. h = NextRecord(g)
      BY <2>1
    <3> HIDE DEF h
    <3>3. g.at <= g.total /\ g.at >= Prologue
      BY <1>1, <1>4, <2>1 DEF Prologue
    <3>4. FrameOk(s, h) /\ h.format = g.format /\ h.total = g.total /\ h.at = g.at
          /\ h.stage # "Ended"
      BY <1>4, <3>1, <3>2, <3>3, NextRecordOk, Zenon
    <3>5. QED
      BY <1>4, <3>4
  <2>2. CASE g.at # Prologue
    <3>1. h = g
      BY <2>2
    <3> HIDE DEF h
    <3>2. g.at < Prologue /\ g.start <= g.at /\ g.at <= g.total /\ g.total >= Prologue
      BY <1>1, <1>2, <1>4, <2>2 DEF Prologue
    <3>3. FrameOk(s, g)
      BY <1>4, <3>2 DEF FrameOk
    <3>4. QED
      BY <1>4, <3>1, <3>3
  <2>3. QED
    BY <2>1, <2>2
<1> HIDE DEF h
<1>6. QED
  BY <1>2, <1>3, <1>5 DEF Framed, Takes

LEMMA MsBytesOk ==
  ASSUME NEW s \in StreamType, NEW f, FrameOk(s, f), f.stage = "Ms",
         NEW n \in Nat \ {0}, f.at + n <= f.total, FeedMs(s, f, n).error = "none"
  PROVE  Framed(s, f, n, FeedMs(s, f, n))
<1> DEFINE r     == RecordAt(s, f)
           k     == Fewest(n, 2 - f.fieldLen)
           some  == [f EXCEPT !.msLen = @ + k, !.summed = @ + k, !.at = @ + k,
                              !.fieldLen = (@ + k) % 2]
           word  == [some EXCEPT !.words = @ + 1]
           whole == [word EXCEPT !.size = r.size, !.stage = "Body"]
<1>1. /\ f \in FrameType /\ MsFrame(f) /\ f.total >= Prologue /\ r \in RecordType
  BY RecordFacts DEF FrameOk
<1>2. /\ f.at \in Nat /\ f.total \in Nat /\ f.start \in Nat /\ f.fieldLen \in 0..1
      /\ f.msLen \in 0..4 /\ f.words \in 0..2 /\ f.summed \in Nat /\ f.records \in Nat
  BY <1>1, FrameFields
<1>3. /\ k \in 1..n /\ k <= 2 - f.fieldLen
  BY <1>2 DEF Fewest
<1>4. FeedMs(s, f, n) =
        IF f.fieldLen + k < 2 THEN Takes(some, k, "Framing")
        ELSE IF word.words < r.words
        THEN IF word.words = 2 THEN Refuses(f, "RecordSize") ELSE Takes(word, k, "Framing")
        ELSE IF r.size = 0 THEN Refuses(f, "RecordSize")
        ELSE IF MsFits(whole) THEN Takes(whole, k, "Framing")
        ELSE Refuses(f, "RecordRange")
  BY Zenon DEF FeedMs
<1> HIDE DEF k, r, some, word, whole
<1>a. ASSUME ~(f.fieldLen + k < 2)
      PROVE  /\ word.words < r.words =>
                  word.words # 2 /\ FeedMs(s, f, n) = Takes(word, k, "Framing")
             /\ ~(word.words < r.words) =>
                  r.size # 0 /\ MsFits(whole) /\ FeedMs(s, f, n) = Takes(whole, k, "Framing")
  BY <1>4, <1>a DEF Refuses
<1>b. f.msLen + k \in 0..4 /\ (f.fieldLen + k) % 2 \in 0..1
  BY <1>1, <1>2, <1>3 DEF MsFrame
<1>c. /\ f.at = f.start + f.msLen /\ f.words <= 1 /\ f.msLen = 2 * f.words + f.fieldLen
      /\ f.summed = f.msLen /\ f.mcLen = 0 /\ f.mcDone = FALSE /\ f.done = 0
  BY <1>1 DEF MsFrame
<1>d. f.summed + k \in Nat /\ f.at + k \in Nat
  BY <1>2, <1>3
<1>5. /\ some \in FrameType /\ some.at = f.at + k /\ some.msLen = f.msLen + k
      /\ some.summed = f.summed + k /\ some.fieldLen = (f.fieldLen + k) % 2
      /\ some.total = f.total /\ some.format = f.format /\ some.start = f.start
      /\ some.words = f.words /\ some.stage = "Ms" /\ some.records = f.records
      /\ some.mcLen = 0 /\ some.mcDone = FALSE /\ some.done = 0
  BY <1>1, <1>b, <1>c, <1>d DEF FrameType, some
<1>6. StartOk(f) /\ some.start < some.total /\ some.start <= some.at /\ some.at <= some.total
  BY <1>1, <1>2, <1>3, <1>5 DEF MsFrame
<1>7. StartOk(some)
  BY <1>5, <1>6 DEF StartOk, CountOk
<1>8. CASE f.fieldLen + k < 2
  <2>1. MsFrame(some)
    BY <1>1, <1>2, <1>3, <1>5, <1>6, <1>7, <1>8 DEF MsFrame
  <2>2. FrameOk(s, some)
    BY <1>1, <1>2, <1>5, <1>6, <2>1 DEF FrameOk
  <2>3. QED
    BY <1>2, <1>3, <1>4, <1>5, <1>8, <2>2 DEF Framed, Takes
<1>9. CASE ~(f.fieldLen + k < 2)
  <2>1. f.fieldLen + k = 2 /\ some.fieldLen = 0 /\ f.words <= 1
    BY <1>1, <1>2, <1>3, <1>5, <1>9 DEF MsFrame
  <2>2. /\ word \in FrameType /\ word.at = some.at /\ word.msLen = some.msLen
        /\ word.summed = some.summed /\ word.fieldLen = 0
        /\ word.total = some.total /\ word.format = some.format /\ word.start = some.start
        /\ word.words = f.words + 1 /\ word.stage = "Ms" /\ word.records = f.records
        /\ word.mcLen = 0 /\ word.mcDone = FALSE /\ word.done = 0
    BY <1>2, <1>5, <2>1 DEF FrameType, word
  <2>3. /\ word.msLen = 2 * word.words /\ word.msLen = word.summed
        /\ word.at = word.start + word.msLen
    <3>1. /\ word.msLen = f.msLen + k /\ word.summed = f.summed + k /\ word.at = f.at + k
          /\ word.start = f.start /\ word.words = f.words + 1
      BY <1>5, <2>2
    <3>2. f.fieldLen + k = 2
      BY <2>1
    <3>3. k \in Nat
      BY <1>3
    <3>4. QED
      BY <1>2, <1>c, <3>1, <3>2, <3>3
  <2>4. StartOk(word)
    BY <1>5, <1>7, <2>2 DEF StartOk, CountOk
  <2>5. CASE word.words < r.words
    <3>1. MsFrame(word)
      BY <1>2, <1>5, <1>6, <1>9, <1>a, <2>1, <2>2, <2>3, <2>4, <2>5 DEF MsFrame
    <3>2. FrameOk(s, word)
      BY <1>1, <1>2, <1>5, <1>6, <2>2, <3>1 DEF FrameOk
    <3>3. QED
      BY <1>2, <1>3, <1>5, <1>9, <1>a, <2>2, <2>5, <3>2 DEF Framed, Takes
  <2>6. CASE ~(word.words < r.words)
    <3>1. r.size \in Nat /\ r.size # 0 /\ MsFits(whole)
      BY <1>1, <1>9, <1>a, <2>6 DEF RecordType
    <3>2. /\ whole \in FrameType /\ whole.at = word.at /\ whole.msLen = word.msLen
          /\ whole.summed = word.summed /\ whole.fieldLen = 0 /\ whole.size = r.size
          /\ whole.total = word.total /\ whole.format = word.format /\ whole.start = word.start
          /\ whole.words = word.words /\ whole.stage = "Body" /\ whole.records = f.records
          /\ whole.mcLen = 0 /\ whole.mcDone = FALSE /\ whole.done = 0
      BY <2>2, <3>1 DEF FrameType, Frames, whole
    <3>3. StartOk(whole)
      BY <2>2, <2>4, <3>2 DEF StartOk, CountOk
    <3>4. McFrame(s, whole)
      <4>1. RecordAt(s, whole) = r
        BY <3>2 DEF RecordAt, r
      <4>2. r.mc \in Nat \ {0}
        BY <1>1 DEF RecordType
      <4>3. whole.mcLen # MaxMc /\ whole.mcLen # r.mc /\ whole.mcLen <= r.mc
        BY <3>2, <4>2, FramerAssumption
      <4>4. whole.mcDone = (whole.mcLen = r.mc)
        BY <3>2, <4>3
      <4>5. QED
        BY <3>2, <4>1, <4>3, <4>4 DEF McFrame
    <3>5. IF InMc(whole) THEN whole.start + whole.msLen + whole.size + 3 <= whole.total
          ELSE RecordEnd(whole) <= whole.total
      BY <3>1, <3>2 DEF MsFits, InMc
    <3>6. Payload(whole) = whole.size
      BY <3>1, <3>2 DEF Payload
    <3>7. BodyFrame(s, whole)
      BY <1>2, <1>5, <1>6, <2>2, <2>3, <3>1, <3>2, <3>3, <3>4, <3>5, <3>6 DEF BodyFrame
    <3>8. FrameOk(s, whole)
      BY <1>1, <1>2, <1>5, <1>6, <2>2, <3>2, <3>7 DEF FrameOk
    <3>9. QED
      BY <1>2, <1>3, <1>5, <1>9, <1>a, <2>2, <2>6, <3>2, <3>8 DEF Framed, Takes
  <2>7. QED
    BY <2>5, <2>6
<1>10. QED
  BY <1>8, <1>9

\* The facts of a frame inside a record's payload.
LEMMA BodyFacts ==
  ASSUME NEW s \in StreamType, NEW f, FrameOk(s, f), f.stage \in {"Body", "Crc"}
  PROVE  /\ f \in FrameType /\ f.total >= Prologue /\ f.at <= f.total
         /\ StartOk(f) /\ f.start < f.total /\ f.start <= f.at
         /\ f.size \in Nat \ {0} /\ f.msLen = 2 * f.words /\ f.words \in 1..2
         /\ f.at = f.start + f.msLen + f.done + f.fieldLen
         /\ f.summed = f.msLen + f.done
         /\ McFrame(s, f)
         /\ Payload(f) \in Nat /\ Payload(f) >= f.size
         /\ IF InMc(f) THEN f.start + f.msLen + f.size + 3 <= f.total ELSE RecordEnd(f) <= f.total
         /\ IF f.stage = "Crc" THEN f.done = Payload(f) ELSE f.done < Payload(f) /\ f.fieldLen = 0
<1>1. f \in FrameType /\ BodyFrame(s, f) /\ f.start <= f.at /\ f.at <= f.total /\ f.total >= Prologue
  BY DEF FrameOk
<1>2. f.size \in Nat /\ f.mcLen \in Nat /\ f.words \in 0..2
  BY <1>1, FrameFields
<1>3. Payload(f) \in Nat /\ Payload(f) >= f.size
  BY <1>2 DEF Payload
<1>4. f.size # 0 /\ f.words # 0
  BY <1>1 DEF BodyFrame
<1>5. QED
  BY <1>1, <1>2, <1>3, <1>4 DEF BodyFrame

LEMMA McOfBody ==
  ASSUME NEW s \in StreamType, NEW f, FrameOk(s, f), f.stage \in {"Body", "Crc"}, f.format = "R2010"
  PROVE  LET r == RecordAt(s, f)
         IN /\ f.mcLen <= r.mc /\ (f.mcDone <=> f.mcLen = r.mc)
            /\ f.mcLen = MaxMc => ~r.wide
            /\ f.mcDone => r.mcFits /\ f.mcLen >= 1 /\ f.done >= f.mcLen
            /\ ~f.mcDone => f.done = f.mcLen
<1>1. McFrame(s, f)
  BY BodyFacts
<1>2. QED
  BY <1>1 DEF McFrame

\* What such a frame is made of.
LEMMA BodyMade ==
  ASSUME NEW s \in StreamType, NEW f, FrameOk(s, f), f.stage \in {"Body", "Crc"},
         NEW g \in FrameType, g.stage \in {"Body", "Crc"},
         g.start = f.start, g.records = f.records, g.total = f.total, g.size = f.size,
         g.words = f.words, g.msLen = f.msLen, g.at >= g.start, g.at <= g.total,
         g.at = g.start + g.msLen + g.done + g.fieldLen, g.summed = g.msLen + g.done,
         McFrame(s, g),
         IF InMc(g) THEN g.start + g.msLen + g.size + 3 <= g.total ELSE RecordEnd(g) <= g.total,
         IF g.stage = "Crc" THEN g.done = Payload(g) ELSE g.done < Payload(g) /\ g.fieldLen = 0
  PROVE  FrameOk(s, g)
<1>1. /\ StartOk(f) /\ f.start < f.total /\ f.total >= Prologue
      /\ f.size # 0 /\ f.msLen = 2 * f.words /\ f.words # 0
  BY BodyFacts
<1>2. StartOk(g)
  BY <1>1 DEF StartOk, CountOk
<1>3. BodyFrame(s, g)
  BY <1>1, <1>2 DEF BodyFrame
<1>4. QED
  BY <1>1, <1>3 DEF FrameOk

LEMMA McBytesOk ==
  ASSUME NEW s \in StreamType, NEW f, FrameOk(s, f), InMc(f),
         NEW n \in Nat \ {0}, f.at + n <= f.total, FeedMc(s, f, n).error = "none"
  PROVE  Framed(s, f, n, FeedMc(s, f, n))
<1> DEFINE r == RecordAt(s, f)
           k == Fewest(n, r.mc - f.mcLen)
           g == [f EXCEPT !.mcLen = @ + k, !.done = @ + k, !.summed = @ + k, !.at = @ + k,
                          !.mcDone = f.mcLen + k = r.mc]
<1>1. /\ f \in FrameType /\ r \in RecordType /\ f.stage = "Body" /\ f.format = "R2010" /\ ~f.mcDone
  BY RecordFacts DEF FrameOk, InMc
<1>2. /\ f.at \in Nat /\ f.total \in Nat /\ f.start \in Nat /\ f.done \in Nat /\ f.msLen \in Nat
      /\ f.mcLen \in Nat /\ f.size \in Nat \ {0} /\ f.summed \in Nat /\ f.fieldLen = 0
      /\ f.done = f.mcLen /\ f.mcLen < r.mc /\ r.mc \in Nat /\ MaxMc \in Nat
      /\ f.at = f.start + f.msLen + f.done /\ f.summed = f.msLen + f.done /\ f.at <= f.total
      /\ f.start + f.msLen + f.size + 3 <= f.total
  <2>1. r.mc \in Nat
    BY <1>1 DEF RecordType
  <2> HIDE DEF r
  <2>2. f.mcLen <= r.mc /\ (f.mcDone <=> f.mcLen = r.mc) /\ (~f.mcDone => f.done = f.mcLen)
    BY <1>1, McOfBody DEF r
  <2>3. /\ f.at = f.start + f.msLen + f.done + f.fieldLen /\ f.summed = f.msLen + f.done
        /\ f.at <= f.total /\ f.size \in Nat \ {0}
        /\ IF InMc(f) THEN f.start + f.msLen + f.size + 3 <= f.total ELSE RecordEnd(f) <= f.total
        /\ IF f.stage = "Crc" THEN f.done = Payload(f) ELSE f.done < Payload(f) /\ f.fieldLen = 0
    BY <1>1, BodyFacts
  <2>4. f.fieldLen = 0
    BY <1>1, <2>3
  <2>5. QED
    BY <1>1, <2>1, <2>2, <2>3, <2>4, FrameFields, FramerAssumption
<1>3. k \in 1..n /\ k <= r.mc - f.mcLen
  BY <1>2 DEF Fewest
<1>4. FeedMc(s, f, n) =
        IF g.mcLen > MaxMc \/ (g.mcLen = MaxMc /\ r.wide) THEN Refuses(f, "RecordHeader")
        ELSE IF g.mcDone /\ RecordEnd(g) > g.total THEN Refuses(f, "RecordRange")
        ELSE IF g.mcDone /\ ~r.mcFits THEN Refuses(f, "RecordHeader")
        ELSE Takes(g, k, "Payload")
  BY Zenon DEF FeedMc
<1> HIDE DEF k, r, g
<1>5. /\ FeedMc(s, f, n) = Takes(g, k, "Payload")
      /\ ~(g.mcLen > MaxMc) /\ ~(g.mcLen = MaxMc /\ r.wide)
      /\ g.mcDone => ~(RecordEnd(g) > g.total) /\ r.mcFits
  BY <1>4 DEF Refuses
<1>6. g.mcLen = f.mcLen + k /\ g.mcDone = (f.mcLen + k = r.mc)
  BY <1>1 DEF FrameType, g
<1>7. f.mcLen + k \in 0..MaxMc /\ f.done + k \in Nat /\ f.summed + k \in Nat /\ f.at + k \in Nat
  BY <1>2, <1>3, <1>5, <1>6
<1>8. /\ g \in FrameType /\ g.done = f.done + k /\ g.summed = f.summed + k /\ g.at = f.at + k
      /\ g.start = f.start /\ g.records = f.records /\ g.total = f.total /\ g.size = f.size
      /\ g.words = f.words /\ g.msLen = f.msLen /\ g.fieldLen = 0 /\ g.stage = "Body"
      /\ g.format = "R2010"
  BY <1>1, <1>2, <1>7 DEF FrameType, g
<1>9. McFrame(s, g)
  <2>1. RecordAt(s, g) = r
    BY <1>8 DEF RecordAt, r
  <2>2. g.mcLen <= r.mc /\ g.mcLen >= 1 /\ g.done = g.mcLen
    BY <1>2, <1>3, <1>6, <1>8
  <2>3. g.mcDone = (g.mcLen = r.mc)
    BY <1>6
  <2>4. g.mcLen \in Nat
    BY <1>8, FrameFields
  <2>5. QED
    BY <1>5, <1>8, <2>1, <2>2, <2>3, <2>4 DEF McFrame
<1>10. Payload(g) = g.mcLen + g.size
  BY <1>8 DEF Payload
<1>11. IF InMc(g) THEN g.start + g.msLen + g.size + 3 <= g.total ELSE RecordEnd(g) <= g.total
  <2>1. CASE g.mcDone
    <3>1. RecordEnd(g) \in Nat /\ g.total \in Nat
      BY <1>2, <1>6, <1>7, <1>8, <1>10 DEF RecordEnd
    <3>2. ~InMc(g)
      BY <2>1 DEF InMc
    <3>3. QED
      BY <1>5, <2>1, <3>1, <3>2
  <2>2. CASE ~g.mcDone
    BY <1>2, <1>8, <2>2 DEF InMc
  <2>3. QED
    BY <2>1, <2>2
<1>12. /\ g.at = g.start + g.msLen + g.done + g.fieldLen /\ g.summed = g.msLen + g.done
       /\ g.at >= g.start /\ g.at <= g.total /\ g.done < Payload(g)
  BY <1>2, <1>3, <1>6, <1>7, <1>8, <1>10
<1>13. FrameOk(s, g)
  BY <1>1, <1>8, <1>9, <1>11, <1>12, BodyMade
<1>14. QED
  BY <1>1, <1>3, <1>5, <1>8, <1>13 DEF Framed, Takes

LEMMA BodyBytesOk ==
  ASSUME NEW s \in StreamType, NEW f, FrameOk(s, f), f.stage = "Body", ~InMc(f),
         NEW n \in Nat \ {0}, f.at + n <= f.total
  PROVE  Framed(s, f, n, FeedBody(f, n))
<1> DEFINE k == Fewest(n, Payload(f) - f.done)
           g == [f EXCEPT !.done = @ + k, !.summed = @ + k, !.at = @ + k]
           h == IF g.done = Payload(g) THEN [g EXCEPT !.stage = "Crc"] ELSE g
<1>1. /\ f \in FrameType /\ Payload(f) \in Nat /\ f.done < Payload(f) /\ f.fieldLen = 0
      /\ f.at = f.start + f.msLen + f.done + f.fieldLen /\ f.summed = f.msLen + f.done
      /\ RecordEnd(f) <= f.total /\ f.at <= f.total /\ McFrame(s, f)
  BY BodyFacts
<1>2. /\ f.at \in Nat /\ f.total \in Nat /\ f.start \in Nat /\ f.done \in Nat /\ f.msLen \in Nat
      /\ f.summed \in Nat /\ f.mcLen \in Nat
  BY <1>1, FrameFields
<1>3. k \in 1..n /\ k <= Payload(f) - f.done
  BY <1>1, <1>2 DEF Fewest
<1>4. FeedBody(f, n) = Takes(h, k, "Payload")
  BY Zenon DEF FeedBody
<1> HIDE DEF k
<1>5. f.done + k \in Nat /\ f.summed + k \in Nat /\ f.at + k \in Nat
  BY <1>2, <1>3
<1>6. /\ g \in FrameType /\ g.done = f.done + k /\ g.summed = f.summed + k /\ g.at = f.at + k
      /\ g.start = f.start /\ g.records = f.records /\ g.total = f.total /\ g.size = f.size
      /\ g.words = f.words /\ g.msLen = f.msLen /\ g.fieldLen = 0 /\ g.stage = "Body"
      /\ g.format = f.format /\ g.mcLen = f.mcLen /\ g.mcDone = f.mcDone
  BY <1>1, <1>5 DEF FrameType
<1> HIDE DEF g
<1>7. /\ h \in FrameType /\ h.done = f.done + k /\ h.summed = f.summed + k /\ h.at = f.at + k
      /\ h.start = f.start /\ h.records = f.records /\ h.total = f.total /\ h.size = f.size
      /\ h.words = f.words /\ h.msLen = f.msLen /\ h.fieldLen = 0
      /\ h.format = f.format /\ h.mcLen = f.mcLen /\ h.mcDone = f.mcDone
      /\ h.stage = IF g.done = Payload(g) THEN "Crc" ELSE "Body"
  BY <1>6 DEF FrameType, Frames
<1> HIDE DEF h
<1>8. Payload(g) = Payload(f) /\ Payload(h) = Payload(f) /\ RecordEnd(h) = RecordEnd(f)
  BY <1>6, <1>7 DEF Payload, RecordEnd
<1>9. ~InMc(h) /\ McFrame(s, h)
  <2>1. RecordAt(s, h) = RecordAt(s, f)
    BY <1>7 DEF RecordAt
  <2>2. CASE f.format = "R2010"
    <3>1. h.mcDone /\ h.done >= h.mcLen
      BY <1>1, <1>2, <1>3, <1>7, <2>2 DEF InMc, McFrame
    <3>2. QED
      BY <1>1, <1>7, <2>1, <2>2, <3>1 DEF InMc, McFrame
  <2>3. CASE f.format # "R2010"
    BY <1>1, <1>7, <2>3 DEF InMc, McFrame
  <2>4. QED
    BY <2>2, <2>3
<1>10. /\ h.at = h.start + h.msLen + h.done + h.fieldLen /\ h.summed = h.msLen + h.done
       /\ h.at >= h.start /\ h.at <= h.total /\ h.done <= Payload(h)
  BY <1>1, <1>2, <1>3, <1>7, <1>8
<1>11. IF h.stage = "Crc" THEN h.done = Payload(h) ELSE h.done < Payload(h) /\ h.fieldLen = 0
  BY <1>1, <1>2, <1>3, <1>6, <1>7, <1>8, <1>10
<1>12. RecordEnd(h) <= h.total /\ h.stage \in {"Body", "Crc"}
  BY <1>1, <1>7, <1>8
<1>13. FrameOk(s, h)
  BY <1>7, <1>9, <1>10, <1>11, <1>12, BodyMade
<1>14. QED
  BY <1>1, <1>3, <1>4, <1>7, <1>12, <1>13 DEF Framed, Takes

\* A record has five bytes at least.
LEMMA CountStep ==
  ASSUME NEW a \in Nat, NEW b \in Nat, NEW m \in Nat, a >= Prologue,
         m <= (a - Prologue) \div MinRecord, b >= a + MinRecord
  PROVE  m + 1 <= (b - Prologue) \div MinRecord
BY DEF Prologue, MinRecord

LEMMA CrcBytesOk ==
  ASSUME NEW s \in StreamType, NEW f, FrameOk(s, f), f.stage = "Crc",
         NEW n \in Nat \ {0}, f.at + n <= f.total, FeedCrc(s, f, n).error = "none"
  PROVE  Framed(s, f, n, FeedCrc(s, f, n))
<1> DEFINE r == RecordAt(s, f)
           k == Fewest(n, 2 - f.fieldLen)
           g == [f EXCEPT !.at = @ + k, !.fieldLen = (@ + k) % 2]
           h == [g EXCEPT !.records = @ + 1]
<1>1. /\ f \in FrameType /\ Payload(f) \in Nat /\ Payload(f) >= f.size /\ f.done = Payload(f)
      /\ f.at = f.start + f.msLen + f.done + f.fieldLen /\ f.summed = f.msLen + f.done
      /\ f.at <= f.total /\ f.start <= f.at /\ McFrame(s, f) /\ StartOk(f)
      /\ f.size \in Nat \ {0} /\ f.msLen = 2 * f.words /\ f.words \in 1..2
      /\ ~InMc(f) /\ RecordEnd(f) <= f.total /\ f.total >= Prologue
  BY BodyFacts DEF InMc
<1>2. /\ f.at \in Nat /\ f.total \in Nat /\ f.start \in Nat /\ f.done \in Nat /\ f.msLen \in Nat
      /\ f.fieldLen \in 0..1 /\ f.records \in Nat /\ f.mcLen \in Nat
  BY <1>1, FrameFields
<1>3. k \in 1..n /\ k <= 2 - f.fieldLen
  BY <1>2 DEF Fewest
<1>4. FeedCrc(s, f, n) =
        IF f.fieldLen + k < 2 THEN Takes(g, k, "Framing")
        ELSE IF ~(r.crc /\ f.summed = f.msLen + Payload(f)) THEN Refuses(f, "RecordCrc")
        ELSE IF r.handle = NoHandle THEN Refuses(f, "RecordHeader")
        ELSE Takes(NextRecord(h), k, "Object")
  BY Zenon DEF FeedCrc
<1> HIDE DEF k, r, g, h
<1>5. (f.fieldLen + k) % 2 \in 0..1 /\ f.at + k \in Nat
  BY <1>2, <1>3
<1>6. /\ g \in FrameType /\ g.at = f.at + k /\ g.fieldLen = (f.fieldLen + k) % 2
      /\ g.start = f.start /\ g.records = f.records /\ g.total = f.total /\ g.size = f.size
      /\ g.words = f.words /\ g.msLen = f.msLen /\ g.stage = "Crc" /\ g.done = f.done
      /\ g.format = f.format /\ g.mcLen = f.mcLen /\ g.mcDone = f.mcDone /\ g.summed = f.summed
  BY <1>1, <1>5 DEF FrameType, g
<1>7. CASE f.fieldLen + k < 2
  <2>1. g.fieldLen = f.fieldLen + k
    BY <1>2, <1>3, <1>6, <1>7
  <2>2. Payload(g) = Payload(f) /\ RecordEnd(g) = RecordEnd(f) /\ ~InMc(g)
    BY <1>6 DEF Payload, RecordEnd, InMc
  <2>3. RecordAt(s, g) = RecordAt(s, f)
    BY <1>6 DEF RecordAt
  <2>4. McFrame(s, g)
    BY <1>1, <1>6, <2>3 DEF McFrame
  <2>5. /\ g.at = g.start + g.msLen + g.done + g.fieldLen /\ g.summed = g.msLen + g.done
        /\ g.at >= g.start /\ g.at <= g.total
    BY <1>1, <1>2, <1>3, <1>6, <2>1
  <2>6. FrameOk(s, g)
    BY <1>1, <1>6, <2>2, <2>4, <2>5, BodyMade
  <2>7. QED
    BY <1>3, <1>4, <1>6, <1>7, <2>6 DEF Framed, Takes
<1>8. CASE ~(f.fieldLen + k < 2)
  <2>1. FeedCrc(s, f, n) = Takes(NextRecord(h), k, "Object")
    BY <1>4, <1>8 DEF Refuses
  <2>2. f.fieldLen + k = 2
    BY <1>2, <1>3, <1>8
  <2>3. /\ h \in FrameType /\ h.at = g.at /\ h.total = g.total /\ h.records = f.records + 1
        /\ h.format = g.format
    BY <1>2, <1>6 DEF FrameType, h
  <2>4. h.at >= f.start + MinRecord /\ h.at <= h.total
    <3>1. h.at = f.at + k /\ h.total = f.total /\ k \in Nat /\ k <= n
      BY <1>3, <1>6, <2>3
    <3>2. f.words >= 1 /\ f.words \in Nat /\ f.size >= 1 /\ f.size \in Nat
      BY <1>1
    <3>3. f.msLen >= 2 /\ f.done >= 1
      BY <1>1, <1>2, <3>2
    <3>4. f.at + k >= f.start + 5
      BY <1>1, <1>2, <2>2, <3>1, <3>3
    <3>5. QED
      BY <1>2, <3>1, <3>4 DEF MinRecord
  <2>5. f.start >= Prologue /\ f.records <= (f.start - Prologue) \div MinRecord
    BY <1>1 DEF StartOk, CountOk
  <2>6. CountOk(h, h.at)
    BY <1>2, <1>5, <1>6, <2>3, <2>4, <2>5, CountStep DEF CountOk
  <2>7. h.at >= Prologue /\ (h.records = 0) = (h.at = Prologue)
    <3>1. h.records # 0 /\ h.at > Prologue
      BY <1>2, <1>5, <1>6, <2>3, <2>4, <2>5 DEF Prologue, MinRecord
    <3>2. QED
      BY <1>2, <1>5, <1>6, <2>3, <3>1 DEF Prologue
  <2> DEFINE e == NextRecord(h)
  <2>8. FrameOk(s, e) /\ e.format = h.format /\ e.total = h.total /\ e.at = h.at
        /\ e.stage # "Ended"
    BY <2>3, <2>4, <2>6, <2>7, NextRecordOk, Zenon
  <2> HIDE DEF e
  <2>9. FeedCrc(s, f, n) = Takes(e, k, "Object")
    BY <2>1 DEF e
  <2>10. QED
    BY <1>3, <1>6, <2>3, <2>8, <2>9 DEF Framed, Takes
<1>9. QED
  BY <1>7, <1>8

LEMMA FrameFeedOk ==
  ASSUME NEW s \in StreamType, NEW f, FrameOk(s, f), NEW n \in Nat \ {0}, f.at + n <= f.total,
         FrameFeed(s, f, n).error = "none"
  PROVE  Framed(s, f, n, FrameFeed(s, f, n))
<1>1. f.stage \in Frames
  BY FrameFields DEF FrameOk
<1>2. CASE f.stage = "Prologue"
  BY <1>2, PrologueOk DEF FrameFeed, InMc
<1>3. CASE f.stage = "Ms"
  BY <1>3, MsBytesOk DEF FrameFeed, InMc
<1>4. CASE InMc(f)
  BY <1>4, McBytesOk DEF FrameFeed, InMc
<1>5. CASE f.stage = "Body" /\ ~InMc(f)
  BY <1>5, BodyBytesOk DEF FrameFeed, InMc
<1>6. CASE f.stage = "Crc"
  BY <1>6, CrcBytesOk DEF FrameFeed, InMc
<1>7. CASE f.stage \in {"Done", "Ended"}
  BY <1>7 DEF FrameFeed, InMc, Refuses
<1>8. QED
  BY <1>1, <1>2, <1>3, <1>5, <1>4, <1>6, <1>7 DEF Frames

\* What a call is refused for.
LEMMA FrameFeedErrors ==
  ASSUME NEW s, NEW f, NEW n
  PROVE  FrameFeed(s, f, n).error \in Errors
<1>1. FeedPrologue(s, f, n).error \in Errors
  BY DEF FeedPrologue, Takes, Refuses, Errors
<1>2. FeedMs(s, f, n).error \in Errors
  BY DEF FeedMs, Takes, Refuses, Errors
<1>3. FeedMc(s, f, n).error \in Errors
  BY DEF FeedMc, Takes, Refuses, Errors
<1>4. FeedBody(f, n).error \in Errors
  BY DEF FeedBody, Takes, Errors
<1>5. FeedCrc(s, f, n).error \in Errors
  BY DEF FeedCrc, Takes, Refuses, Errors
<1>6. QED
  BY <1>1, <1>2, <1>3, <1>4, <1>5 DEF FrameFeed, Refuses, Errors

----------------------------------------------------------------------------
(* The script. *)

LEMMA FileFacts ==
  ASSUME file \in Files
  PROVE  /\ file.family \in {"R2004", "R2007"} /\ file.format \in Formats
         /\ file.stream \in StreamType
         /\ file.script \in Seq(ItemType) /\ Len(file.script) \in Nat \ {0}
         /\ file.script[Len(file.script)].kind \in {"Finished", "Refused"}
<1>1. /\ file.family \in {"R2004", "R2007"} /\ file.format \in Formats
      /\ file.stream \in StreamType /\ ScriptOk(file.script)
  BY FilesAssumption
<1>2. file.script \in Seq(ItemType) /\ Len(file.script) \in Nat \ {0}
  BY <1>1 DEF ScriptOk
<1>3. Len(file.script) \in DOMAIN file.script
  BY <1>2
<1>4. file.script[Len(file.script)].kind \in {"Finished", "Refused"}
  BY <1>1, <1>3 DEF ScriptOk
<1>5. QED
  BY <1>1, <1>2, <1>4

LEMMA ItemFacts ==
  ASSUME file \in Files, NEW n \in 1..Len(file.script)
  PROVE  LET item == file.script[n]
         IN /\ item \in ItemType
            /\ item.kind = "Section" => item.objects \in BOOLEAN /\ item.id \in Nat /\ item.size \in Nat
            /\ item.kind \in {"Data", "Hole"} =>
                 item.id \in Nat /\ item.from \in Nat /\ item.len \in Nat \ {0}
            /\ item.kind \in {"Section", "Data", "Hole", "SectionEnd", "Other", "Finished", "Refused"}
<1> DEFINE item == file.script[n]
<1>1. item \in ItemType
  BY FileFacts
<1> HIDE DEF item
<1>2. /\ item.kind = "Section" => item.objects \in BOOLEAN /\ item.id \in Nat /\ item.size \in Nat
      /\ item.kind \in {"Data", "Hole"} =>
           item.id \in Nat /\ item.from \in Nat /\ item.len \in Nat \ {0}
      /\ item.kind \in {"Section", "Data", "Hole", "SectionEnd", "Other", "Finished", "Refused"}
  BY <1>1 DEF ItemType
<1>3. QED
  BY <1>1, <1>2 DEF item

LEMMA WithinSection ==
  ASSUME file \in Files, NEW i \in 1..Len(file.script), NEW j \in 1..Len(file.script),
         file.script[i].kind = "Section", file.script[j].kind = "Data",
         file.script[i].id = file.script[j].id
  PROVE  file.script[j].from + file.script[j].len <= file.script[i].size
<1>1. ScriptOk(file.script)
  BY FilesAssumption
<1>2. DOMAIN file.script = 1..Len(file.script)
  BY FileFacts
<1>3. QED
  BY <1>1, <1>2 DEF ScriptOk

LEMMA GivenFacts ==
  ASSUME NEW script, NEW n \in Nat, NEW kind
  PROVE  /\ Given(script, n, kind) \in SUBSET (1..n)
         /\ IsFiniteSet(Given(script, n, kind))
         /\ Cardinality(Given(script, n, kind)) \in Nat
<1>1. Given(script, n, kind) \in SUBSET (1..n)
  BY DEF Given
<1>2. IsFiniteSet(1..n)
  BY FS_Interval
<1>3. IsFiniteSet(Given(script, n, kind))
  BY <1>1, <1>2, FS_Subset
<1>4. QED
  BY <1>1, <1>3, FS_CardinalityType

LEMMA GivenStep ==
  ASSUME NEW script, NEW n \in Nat, NEW kind
  PROVE  Given(script, n + 1, kind) =
           IF script[n + 1].kind = kind THEN Given(script, n, kind) \cup {n + 1}
           ELSE Given(script, n, kind)
<1>1. 1..(n + 1) = (1..n) \cup {n + 1}
  OBVIOUS
<1>2. QED
  BY <1>1 DEF Given

LEMMA GivenMonotone ==
  ASSUME NEW script, NEW n \in Nat, NEW m \in Nat, n <= m, NEW kind
  PROVE  Given(script, n, kind) \subseteq Given(script, m, kind)
BY DEF Given

LEMMA BytesEndStep ==
  ASSUME NEW script, NEW n \in Nat, NEW at
  PROVE  BytesEnd(script, n + 1, at) =
           IF script[n + 1].kind = "Data" /\ script[n + 1].id = at
           THEN script[n + 1].from + script[n + 1].len
           ELSE BytesEnd(script, n, at)
<1> DEFINE P(m) == {i \in Given(script, m, "Data") : script[i].id = at}
<1>1. P(n) \in SUBSET (1..n)
  BY GivenFacts
<1>2. CASE script[n + 1].kind = "Data" /\ script[n + 1].id = at
  <2>1. P(n + 1) = P(n) \cup {n + 1}
    BY <1>2, GivenStep
  <2> DEFINE p == P(n)
             q == P(n + 1)
  <2> HIDE DEF p, q
  <2>2. q = p \cup {n + 1} /\ p \in SUBSET (1..n)
    BY <1>1, <2>1 DEF p, q
  <2>3. Max(q) = n + 1 /\ q # {}
    BY <2>2, MaxOfLast
  <2>4. BytesEnd(script, n + 1, at) =
          IF q = {} THEN 0 ELSE script[Max(q)].from + script[Max(q)].len
    BY Zenon DEF BytesEnd, q
  <2>5. QED
    BY <1>2, <2>3, <2>4
<1>3. CASE ~(script[n + 1].kind = "Data" /\ script[n + 1].id = at)
  <2>1. P(n + 1) = P(n)
    BY <1>1, <1>3, GivenStep
  <2>2. QED
    BY <1>3, <2>1 DEF BytesEnd
<1>4. QED
  BY <1>2, <1>3

LEMMA NoBytesYet ==
  ASSUME NEW script, NEW n \in Nat, NEW at,
         \A i \in Given(script, n, "Data") : script[i].id # at
  PROVE  BytesEnd(script, n, at) = 0
BY DEF BytesEnd

----------------------------------------------------------------------------
(* R2007's sections. *)

LEMMA R2007Item ==
  ASSUME file \in Files, file.family = "R2007", NEW n \in 1..Len(file.script)
  PROVE  LET script == file.script
             item   == script[n]
         IN /\ item.kind = "Section" => item.id = Cardinality(Given(script, n - 1, "Section"))
            /\ item.kind \in {"Data", "Hole"} =>
                 Inside(script, n - 1) /\ LastOf(script, n - 1).id = item.id
            /\ item.kind = "Data" =>
                 \/ item.from = BytesEnd(script, n - 1, item.id)
                 \/ \E i \in Given(script, n - 1, "Hole") : script[i].id = item.id
            /\ item.kind = "Finished" => ~Inside(script, n - 1)
<1>1. R2007ScriptOk(file.script)
  BY FilesAssumption
<1>2. QED
  BY <1>1 DEF R2007ScriptOk

\* Inside a section there is a last one.
LEMMA InsideFacts ==
  ASSUME NEW script, NEW n \in Nat, Inside(script, n)
  PROVE  LET last == Max(Given(script, n, "Section"))
         IN /\ last \in Given(script, n, "Section") /\ LastOf(script, n) = script[last]
            /\ \A i \in Given(script, n, "Section") : i <= last
<1> DEFINE S == Given(script, n, "Section")
           E == Given(script, n, "SectionEnd")
<1>1. Cardinality(S) \in Nat /\ Cardinality(E) \in Nat /\ Cardinality(S) > Cardinality(E)
  BY GivenFacts DEF Inside
<1>2. S # {}
  BY <1>1, FS_EmptySet
<1>3. S \in SUBSET (1..n)
  BY GivenFacts
<1> HIDE DEF S
<1>4. Max(S) \in S /\ \A i \in S : i <= Max(S)
  BY <1>2, <1>3, MaxOfPositions
<1>5. QED
  BY <1>4, Zenon DEF S, LastOf

\* Sections are numbered in the order they come in.
LEMMA SectionsNumbered ==
  ASSUME file \in Files, file.family = "R2007", NEW n \in Nat, n <= Len(file.script),
         NEW i \in Given(file.script, n, "Section")
  PROVE  /\ i \in 1..n /\ file.script[i].kind = "Section"
         /\ file.script[i].id \in Nat
         /\ file.script[i].id < Cardinality(Given(file.script, n, "Section"))
<1> DEFINE S(m) == Given(file.script, m, "Section")
<1>1. i \in 1..n /\ file.script[i].kind = "Section" /\ i \in 1..Len(file.script)
  BY FileFacts DEF Given
<1>2. file.script[i].id = Cardinality(S(i - 1)) /\ i - 1 \in Nat
  BY <1>1, R2007Item
<1>3. i - 1 + 1 = i /\ i <= n /\ i \in Nat
  BY <1>1
<1>4. S(i) = S(i - 1) \cup {i}
  <2> DEFINE m == i - 1
  <2>1. m \in Nat /\ m + 1 = i
    BY <1>2, <1>3
  <2> HIDE DEF m
  <2>2. S(m + 1) = S(m) \cup {m + 1}
    BY <1>1, <2>1, GivenStep
  <2>3. QED
    BY <2>1, <2>2 DEF m
<1>5. S(i - 1) \in SUBSET (1..(i - 1)) /\ IsFiniteSet(S(i - 1)) /\ Cardinality(S(i - 1)) \in Nat
  BY <1>2, GivenFacts
<1>6. i \notin S(i - 1)
  BY <1>1, <1>5
<1>7. Cardinality(S(i)) = Cardinality(S(i - 1)) + 1
  <2> HIDE DEF S
  <2>1. QED
    BY <1>4, <1>5, <1>6, FS_AddElement
<1>8. S(i) \subseteq S(n) /\ IsFiniteSet(S(n)) /\ Cardinality(S(n)) \in Nat
  BY <1>3, GivenMonotone, GivenFacts
<1>9. Cardinality(S(i)) <= Cardinality(S(n)) /\ Cardinality(S(i)) \in Nat
  <2> HIDE DEF S
  <2>1. QED
    BY <1>5, <1>7, <1>8, FS_Subset
<1>10. QED
  BY <1>1, <1>2, <1>5, <1>7, <1>8, <1>9

LEMMA SectionsOrdered ==
  ASSUME file \in Files, file.family = "R2007", NEW n \in Nat, n <= Len(file.script),
         NEW i \in Given(file.script, n, "Section"), NEW j \in Given(file.script, n, "Section"),
         i < j
  PROVE  file.script[i].id < file.script[j].id
<1>1. i \in 1..n /\ j \in 1..n /\ file.script[i].kind = "Section" /\ file.script[j].kind = "Section"
  BY SectionsNumbered
<1>2. j - 1 \in Nat /\ j - 1 <= Len(file.script) /\ i \in 1..(j - 1) /\ j \in 1..Len(file.script)
  BY <1>1, FileFacts
<1>3. i \in Given(file.script, j - 1, "Section")
  BY <1>1, <1>2 DEF Given
<1>4. file.script[i].id < Cardinality(Given(file.script, j - 1, "Section"))
  BY <1>2, <1>3, SectionsNumbered
<1>5. file.script[j].id = Cardinality(Given(file.script, j - 1, "Section"))
  BY <1>1, <1>2, R2007Item
<1>6. QED
  BY <1>4, <1>5

\* Nothing of a section comes before its description.
LEMMA NothingBefore ==
  ASSUME file \in Files, file.family = "R2007", NEW n \in Nat, n < Len(file.script),
         file.script[n + 1].kind = "Section",
         NEW i \in 1..n, file.script[i].kind \in {"Data", "Hole"}
  PROVE  file.script[i].id # file.script[n + 1].id
<1> DEFINE j == Max(Given(file.script, i - 1, "Section"))
<1>1. i \in 1..Len(file.script) /\ i - 1 \in Nat /\ n + 1 \in Nat /\ n + 1 <= Len(file.script)
  BY FileFacts
<1>2. Inside(file.script, i - 1) /\ LastOf(file.script, i - 1).id = file.script[i].id
  BY <1>1, R2007Item
<1>3. j \in Given(file.script, i - 1, "Section") /\ LastOf(file.script, i - 1) = file.script[j]
  BY <1>1, <1>2, InsideFacts
<1> HIDE DEF j
<1>4. j \in 1..(i - 1) /\ file.script[j].kind = "Section"
  BY <1>3 DEF Given
<1>5. j < n + 1 /\ j \in 1..(n + 1)
  BY <1>4
<1>6. j \in Given(file.script, n + 1, "Section") /\ n + 1 \in Given(file.script, n + 1, "Section")
  BY <1>4, <1>5 DEF Given
<1>7. file.script[j].id < file.script[n + 1].id
  BY <1>1, <1>5, <1>6, SectionsOrdered
<1>8. file.script[j].id \in Nat /\ file.script[n + 1].id \in Nat
  BY <1>1, <1>6, SectionsNumbered
<1>9. QED
  BY <1>2, <1>3, <1>7, <1>8

----------------------------------------------------------------------------
(* The inductive invariant, of the walk and of a walk that was saved. *)

At(k) == file.script[k.inner.item + 1]

\* The framer's variables have their types.
Typed(k) ==
  /\ k.found \in BOOLEAN /\ k.id \in Nat /\ k.framer \in FrameType
  /\ k.pending \in 0..StageBytes /\ k.handed \in Nat

\* Bytes are given of a page, and no item is behind a refusal.
Placed(k) ==
  /\ k.inner \in [item : 0..Len(file.script), given : Nat]
  /\ k.inner.given > 0 =>
       k.inner.item < Len(file.script) /\ At(k).kind = "Data" /\ k.inner.given <= At(k).len
  /\ k.inner.item > 0 => file.script[k.inner.item].kind # "Refused"

\* The object section was not described yet.
Unfound(k) ==
  /\ k.framer = Idle /\ k.id = 0 /\ k.pending = 0
  /\ \A i \in Behind(k, "Section") : ~file.script[i].objects

\* The page at hand is the object section's, and some of it was given.
OnPage(k) == k.inner.given > 0 /\ At(k).id = k.id

\* Where the object section's bytes have got to.
Offset(k) ==
  IF OnPage(k) THEN At(k).from + k.inner.given
  ELSE BytesEnd(file.script, k.inner.item, k.id)

\* R2007: the framer has had every byte, and there was no hole.
Contiguous(k) ==
  /\ k.framer.at + k.pending = Offset(k)
  /\ \A i \in Behind(k, "Hole") : file.script[i].id # k.id

FoundOk(k) ==
  /\ FrameOk(file.stream, k.framer) /\ k.framer.format = file.format
  /\ k.framer.at + k.pending <= k.framer.total
  /\ \E i \in Behind(k, "Section") :
       file.script[i].id = k.id /\ file.script[i].size = k.framer.total
  /\ k.pending > 0 \/ k.framer.stage = "Done" => OnPage(k)
  /\ k.pending > 0 => k.framer.at + k.pending = At(k).from + k.inner.given
  /\ file.family = "R2007" => Contiguous(k)

WalkOk(k) == Typed(k) /\ Placed(k) /\ IF k.found THEN FoundOk(k) ELSE Unfound(k)

IInv ==
  /\ file \in Files
  /\ WalkOk(kept)
  /\ IF failure = "none" THEN WalkOk(Now) ELSE Typed(Now)
  /\ failure \in Errors
  /\ restarts \in 0..MaxRestarts

----------------------------------------------------------------------------
(* Steps of the file walk. *)

\* Passing an item moves the section's bytes nowhere: a page was given whole.
LEMMA PassOffset ==
  ASSUME file \in Files, NEW k, Placed(k), k.inner.item < Len(file.script),
         At(k).kind = "Data" => k.inner.given = At(k).len,
         NEW m, m.inner = [item |-> k.inner.item + 1, given |-> 0], m.id = k.id
  PROVE  Offset(m) = Offset(k)
<1> DEFINE n == k.inner.item
<1>1. n \in Nat /\ n + 1 \in 1..Len(file.script) /\ k.inner.given \in Nat
  BY FileFacts DEF Placed
<1>2. m.inner.item = n + 1 /\ m.inner.given = 0
  OBVIOUS
<1>3. Offset(m) = BytesEnd(file.script, n + 1, k.id)
  BY <1>2 DEF Offset, OnPage
<1>4. At(k).kind = "Data" => At(k).len \in Nat \ {0} /\ At(k).from \in Nat
  BY <1>1, ItemFacts DEF At
<1>5. BytesEnd(file.script, n + 1, k.id) =
        IF At(k).kind = "Data" /\ At(k).id = k.id THEN At(k).from + At(k).len
        ELSE BytesEnd(file.script, n, k.id)
  <2>1. file.script[n + 1] = At(k)
    BY DEF At
  <2> HIDE DEF n
  <2>2. n \in Nat
    BY <1>1
  <2>3. BytesEnd(file.script, n + 1, k.id) =
          IF file.script[n + 1].kind = "Data" /\ file.script[n + 1].id = k.id
          THEN file.script[n + 1].from + file.script[n + 1].len
          ELSE BytesEnd(file.script, n, k.id)
    BY <2>2, BytesEndStep, Zenon
  <2>4. QED
    BY <2>1, <2>3
<1>6. k.inner.given > 0 => At(k).kind = "Data"
  BY DEF Placed
<1> HIDE DEF n
<1>7. CASE At(k).kind = "Data" /\ At(k).id = k.id
  BY <1>1, <1>3, <1>4, <1>5, <1>7 DEF Offset, OnPage
<1>8. CASE ~(At(k).kind = "Data" /\ At(k).id = k.id)
  BY <1>1, <1>3, <1>5, <1>6, <1>8 DEF Offset, OnPage, n
<1>9. QED
  BY <1>7, <1>8

\* The item at hand is behind the walk, and says nothing of the object section.
LEMMA PassOk ==
  ASSUME file \in Files, NEW k, WalkOk(k), k.pending = 0, k.framer.stage # "Done",
         k.inner.item < Len(file.script),
         At(k).kind = "Data" => k.inner.given = At(k).len,
         At(k).kind = "Section" => ~At(k).objects,
         At(k).kind = "Hole" => ~(k.found /\ At(k).id = k.id),
         At(k).kind # "Refused",
         NEW m, m.inner = [item |-> k.inner.item + 1, given |-> 0],
         m.found = k.found, m.id = k.id, m.framer = k.framer, m.pending = k.pending,
         m.handed = k.handed
  PROVE  WalkOk(m)
<1> DEFINE n == k.inner.item
<1>1. n \in Nat /\ n < Len(file.script) /\ Len(file.script) \in Nat /\ k.inner.given \in Nat
      /\ n + 1 \in 1..Len(file.script)
  BY FileFacts DEF WalkOk, Placed
<1>2. m.inner.item = n + 1 /\ m.inner.given = 0
  OBVIOUS
<1>3. Typed(m)
  BY DEF WalkOk, Typed
<1>4. Placed(m)
  <2>1. file.script[n + 1] = At(k)
    BY DEF At
  <2>2. m.inner \in [item : 0..Len(file.script), given : Nat]
    BY <1>1
  <2> HIDE DEF n
  <2>3. QED
    BY <1>1, <1>2, <2>1, <2>2 DEF Placed
<1>5. \A kind : Behind(m, kind) = IF At(k).kind = kind THEN Behind(k, kind) \cup {n + 1}
                                  ELSE Behind(k, kind)
  <2>1. file.script[n + 1] = At(k) /\ \A kind : Behind(k, kind) = Given(file.script, n, kind)
    BY DEF At, Behind
  <2> HIDE DEF n
  <2>2. \A kind : Behind(m, kind) = Given(file.script, n + 1, kind)
    BY <1>2 DEF Behind
  <2>3. n \in Nat
    BY <1>1
  <2>4. \A kind : Given(file.script, n + 1, kind) =
                    IF file.script[n + 1].kind = kind THEN Given(file.script, n, kind) \cup {n + 1}
                    ELSE Given(file.script, n, kind)
    BY <2>3, GivenStep, Zenon
  <2>5. ASSUME NEW kind
        PROVE  Behind(m, kind) = IF At(k).kind = kind THEN Behind(k, kind) \cup {n + 1}
                                 ELSE Behind(k, kind)
    <3>1. /\ Behind(m, kind) = Given(file.script, n + 1, kind)
          /\ Behind(k, kind) = Given(file.script, n, kind)
          /\ file.script[n + 1] = At(k)
      BY <2>1, <2>2
    <3>2. CASE At(k).kind = kind
      BY <2>4, <3>1, <3>2
    <3>3. CASE At(k).kind # kind
      BY <2>4, <3>1, <3>3
    <3>4. QED
      BY <3>2, <3>3
  <2>6. QED
    BY <2>5
<1>6. CASE ~k.found
  <2>1. Unfound(k)
    BY <1>6 DEF WalkOk
  <2>2. \A i \in Behind(m, "Section") : ~file.script[i].objects
    BY <1>5, <2>1 DEF Unfound, At
  <2>3. Unfound(m)
    BY <2>1, <2>2 DEF Unfound
  <2>4. QED
    BY <1>3, <1>4, <1>6, <2>3 DEF WalkOk
<1>7. CASE k.found
  <2>1. FoundOk(k)
    BY <1>7 DEF WalkOk
  <2>2. \E i \in Behind(m, "Section") :
          file.script[i].id = m.id /\ file.script[i].size = m.framer.total
    BY <1>5, <2>1 DEF FoundOk
  <2>3. file.family = "R2007" => Contiguous(m)
    <3> SUFFICES ASSUME file.family = "R2007" PROVE Contiguous(m)
      OBVIOUS
    <3>1. Contiguous(k)
      BY <2>1 DEF FoundOk
    <3>2. \A i \in Behind(m, "Hole") : file.script[i].id # m.id
      BY <1>5, <1>7, <3>1 DEF Contiguous, At
    <3>7. Offset(m) = Offset(k)
      BY PassOffset DEF WalkOk
    <3>8. QED
      BY <3>1, <3>2, <3>7 DEF Contiguous
  <2>4. FoundOk(m)
    BY <2>1, <2>2, <2>3 DEF FoundOk
  <2>5. QED
    BY <1>3, <1>4, <1>7, <2>4 DEF WalkOk
<1>8. QED
  BY <1>3, <1>6, <1>7 DEF Typed

\* The object section is described.
LEMMA FoundSectionOk ==
  ASSUME file \in Files, NEW k, WalkOk(k), ~k.found, k.inner.item < Len(file.script),
         At(k).kind = "Section", ~TooShort(At(k).size),
         NEW m, m.inner = [item |-> k.inner.item + 1, given |-> 0],
         m.found = TRUE, m.id = At(k).id, m.framer = Begin(file.format, At(k).size),
         m.pending = 0, m.handed = k.handed
  PROVE  WalkOk(m)
<1> DEFINE n == k.inner.item
<1>1. n \in Nat /\ n < Len(file.script) /\ Len(file.script) \in Nat
      /\ n + 1 \in 1..Len(file.script)
  BY FileFacts DEF WalkOk, Placed
<1>2. m.inner.item = n + 1 /\ m.inner.given = 0
  OBVIOUS
<1>3. At(k).id \in Nat /\ At(k).size \in Nat /\ At(k).size >= Prologue /\ file.format \in Formats
  BY <1>1, ItemFacts, FileFacts DEF At, TooShort, Prologue
<1>4. /\ m.framer \in FrameType /\ m.framer.format = file.format /\ m.framer.total = At(k).size
      /\ m.framer.at = 0 /\ m.framer.stage = "Prologue"
  BY <1>3, BeginType
<1>5. FrameOk(file.stream, m.framer)
  BY <1>3, BeginOk
<1>6. Typed(m)
  <2>1. Typed(k) /\ 0 \in 0..StageBytes
    BY BoundsAssumption DEF WalkOk
  <2>2. QED
    BY <1>3, <1>4, <2>1 DEF Typed
<1>7. Placed(m)
  <2>1. file.script[n + 1] = At(k)
    BY DEF At
  <2>2. m.inner \in [item : 0..Len(file.script), given : Nat]
    BY <1>1
  <2> HIDE DEF n
  <2>3. QED
    BY <1>1, <1>2, <2>1, <2>2 DEF Placed
<1>8. n + 1 \in Behind(m, "Section") /\ file.script[n + 1] = At(k)
  BY <1>1, <1>2 DEF Behind, Given, At
<1>9. file.family = "R2007" => Contiguous(m)
  <2> SUFFICES ASSUME file.family = "R2007" PROVE Contiguous(m)
    OBVIOUS
  <2>1. \A i \in 1..n : file.script[i].kind \in {"Data", "Hole"} => file.script[i].id # m.id
    BY <1>1, NothingBefore DEF At
  <2>2. Behind(m, "Hole") = Given(file.script, n, "Hole")
    <3>1. file.script[n + 1].kind = "Section"
      BY DEF At
    <3> HIDE DEF n
    <3>2. Behind(m, "Hole") = Given(file.script, n + 1, "Hole")
      BY <1>2 DEF Behind
    <3>3. n \in Nat
      BY <1>1
    <3>4. \A kind : Given(file.script, n + 1, kind) =
                      IF file.script[n + 1].kind = kind THEN Given(file.script, n, kind) \cup {n + 1}
                      ELSE Given(file.script, n, kind)
      BY <3>3, GivenStep, Zenon
    <3>5. QED
      BY <3>1, <3>2, <3>4
  <2>3. BytesEnd(file.script, n + 1, m.id) = BytesEnd(file.script, n, m.id)
    <3>1. file.script[n + 1].kind = "Section"
      BY DEF At
    <3> HIDE DEF n
    <3>2. QED
      BY <1>1, <3>1, BytesEndStep
  <2>4. BytesEnd(file.script, n, m.id) = 0
    <3>1. \A i \in Given(file.script, n, "Data") : file.script[i].id # m.id
      BY <2>1 DEF Given
    <3>2. QED
      BY <1>1, <3>1, NoBytesYet
  <2>5. Offset(m) = 0
    BY <1>2, <2>3, <2>4 DEF Offset, OnPage
  <2>6. \A i \in Behind(m, "Hole") : file.script[i].id # m.id
    BY <2>1, <2>2 DEF Given
  <2>7. QED
    BY <1>4, <2>5, <2>6 DEF Contiguous
<1>10. FoundOk(m)
  BY <1>3, <1>4, <1>5, <1>8, <1>9 DEF FoundOk
<1>11. QED
  BY <1>6, <1>7, <1>10 DEF WalkOk

\* A page gives some of its bytes, to the framer when they are its own.
LEMMA GiveOk ==
  ASSUME file \in Files, NEW k, WalkOk(k), k.pending = 0, k.framer.stage # "Done",
         k.inner.item < Len(file.script), At(k).kind = "Data",
         NEW n \in Nat \ {0}, k.inner.given + n <= At(k).len, n <= StageBytes,
         NEW m, m.inner = [k.inner EXCEPT !.given = @ + n],
         m.found = k.found, m.id = k.id, m.framer = k.framer, m.handed = k.handed,
         \/ /\ k.found /\ At(k).id = k.id /\ At(k).from + k.inner.given = k.framer.at
            /\ m.pending = n
         \/ ~(k.found /\ At(k).id = k.id) /\ m.pending = 0
  PROVE  WalkOk(m)
<1> DEFINE j == k.inner.item + 1
<1>1. /\ k.inner \in [item : 0..Len(file.script), given : Nat] /\ k.inner.given \in Nat
      /\ Len(file.script) \in Nat /\ j \in 1..Len(file.script) /\ file.script[j] = At(k)
      /\ k.inner.item \in Nat
  BY FileFacts DEF WalkOk, Placed, At
<1>2. m.inner \in [item : 0..Len(file.script), given : Nat]
      /\ m.inner.item = k.inner.item /\ m.inner.given = k.inner.given + n
  BY <1>1
<1>3. At(k).id \in Nat /\ At(k).from \in Nat /\ At(k).len \in Nat
  <2> HIDE DEF j
  <2>1. QED
    BY <1>1, ItemFacts
<1>4. At(m) = At(k) /\ \A kind : Behind(m, kind) = Behind(k, kind)
  BY <1>2 DEF At, Behind
<1>5. Typed(m)
  <2>1. Typed(k) /\ n \in 0..StageBytes /\ 0 \in 0..StageBytes
    BY BoundsAssumption DEF WalkOk
  <2>2. QED
    BY <2>1 DEF Typed
<1>6. Placed(m)
  BY <1>1, <1>2, <1>4 DEF Placed, WalkOk
<1>7. CASE ~k.found
  <2>1. Unfound(m)
    BY <1>4, <1>7 DEF WalkOk, Unfound
  <2>2. QED
    BY <1>5, <1>6, <1>7, <2>1 DEF WalkOk
<1>8. CASE k.found
  <2>1. FoundOk(k)
    BY <1>8 DEF WalkOk
  <2>2. FrameOk(file.stream, k.framer) /\ k.framer.at \in Nat /\ k.framer.total \in Nat
    BY <2>1, FrameFields DEF FoundOk, FrameOk
  <2>3. /\ FrameOk(file.stream, m.framer) /\ m.framer.format = file.format
        /\ \E i \in Behind(m, "Section") :
             file.script[i].id = m.id /\ file.script[i].size = m.framer.total
        /\ m.framer.stage # "Done"
    BY <1>4, <2>1 DEF FoundOk
  <2>4. CASE At(k).id = k.id
    <3>1. m.pending = n /\ At(k).from + k.inner.given = k.framer.at
      BY <1>8, <2>4
    <3>2. m.framer.at + m.pending = At(m).from + m.inner.given
      <4>1. /\ At(m).from = At(k).from /\ m.inner.given = k.inner.given + n
            /\ m.framer.at = At(k).from + k.inner.given
        BY <1>2, <1>4, <3>1
      <4>2. At(k).from \in Nat /\ k.inner.given \in Nat
        BY <1>1, <1>3
      <4>3. QED
        BY <3>1, <4>1, <4>2
    <3>3. OnPage(m)
      BY <1>1, <1>2, <1>4, <2>4 DEF OnPage
    <3>4. m.framer.at + m.pending <= m.framer.total
      <4>1. PICK i \in Behind(k, "Section") :
              file.script[i].id = k.id /\ file.script[i].size = k.framer.total
        BY <2>1 DEF FoundOk
      <4>2. i \in 1..Len(file.script) /\ file.script[i].kind = "Section"
        BY <1>1, <4>1 DEF Behind, Given
      <4> HIDE DEF j
      <4>3. At(k).from + At(k).len <= k.framer.total
        BY <1>1, <2>4, <4>1, <4>2, WithinSection
      <4>4. m.framer.at + m.pending = At(k).from + (k.inner.given + n) /\ m.framer.total = k.framer.total
        BY <1>2, <1>4, <3>2
      <4>5. k.inner.given \in Nat /\ At(k).from \in Nat /\ At(k).len \in Nat
        BY <1>1, <1>3
      <4>6. At(k).from + (k.inner.given + n) <= At(k).from + At(k).len
        BY <4>5
      <4>7. At(k).from + (k.inner.given + n) <= k.framer.total
        BY <2>2, <4>3, <4>5, <4>6
      <4>8. QED
        BY <4>4, <4>7
    <3>5. file.family = "R2007" => Contiguous(m)
      BY <1>4, <2>1, <3>2, <3>3 DEF Contiguous, Offset, FoundOk
    <3>6. FoundOk(m)
      BY <2>3, <3>2, <3>3, <3>4, <3>5 DEF FoundOk
    <3>7. QED
      BY <1>5, <1>6, <1>8, <3>6 DEF WalkOk
  <2>5. CASE At(k).id # k.id
    <3>1. m.pending = 0
      BY <1>8, <2>5
    <3>2. ~OnPage(k) /\ ~OnPage(m)
      BY <1>4, <2>5 DEF OnPage
    <3>3. Offset(m) = Offset(k)
      BY <1>2, <3>2 DEF Offset
    <3>4. file.family = "R2007" => Contiguous(m)
      BY <1>4, <2>1, <3>1, <3>3 DEF Contiguous, FoundOk
    <3>5. m.framer.at + m.pending <= m.framer.total
      BY <2>1, <3>1 DEF FoundOk
    <3>6. FoundOk(m)
      BY <2>2, <2>3, <3>1, <3>4, <3>5 DEF FoundOk
    <3>7. QED
      BY <1>5, <1>6, <1>8, <3>6 DEF WalkOk
  <2>6. QED
    BY <2>4, <2>5
<1>9. QED
  BY <1>7, <1>8 DEF WalkOk, Typed

----------------------------------------------------------------------------
(* Steps of the framer. *)

LEMMA SamePlace ==
  ASSUME NEW k, NEW m, m.inner = k.inner, m.id = k.id
  PROVE  /\ At(m) = At(k) /\ OnPage(m) = OnPage(k) /\ Offset(m) = Offset(k)
         /\ \A kind : Behind(m, kind) = Behind(k, kind)
         /\ Placed(m) <=> Placed(k)
<1>1. At(m) = At(k)
  BY DEF At
<1>2. OnPage(m) = OnPage(k)
  BY <1>1 DEF OnPage
<1>3. QED
  BY <1>1, <1>2 DEF Offset, Behind, Placed

LEMMA FramedOk ==
  ASSUME file \in Files, NEW k, WalkOk(k), k.pending > 0,
         FrameFeed(file.stream, k.framer, k.pending).error = "none",
         NEW m, m.inner = k.inner, m.found = k.found, m.id = k.id,
         m.framer = FrameFeed(file.stream, k.framer, k.pending).frame,
         m.pending = k.pending - FrameFeed(file.stream, k.framer, k.pending).taken,
         m.handed \in Nat
  PROVE  WalkOk(m)
<1> DEFINE r == FrameFeed(file.stream, k.framer, k.pending)
<1>1. Typed(k) /\ k.pending \in Nat \ {0} /\ k.found = TRUE
  BY BoundsAssumption DEF WalkOk, Typed, Unfound
<1>2. FoundOk(k)
  BY <1>1 DEF WalkOk
<1>3. FrameOk(file.stream, k.framer) /\ k.framer.at + k.pending <= k.framer.total
  BY <1>2 DEF FoundOk
<1>4. Framed(file.stream, k.framer, k.pending, r)
  BY <1>1, <1>3, FileFacts, FrameFeedOk
<1> HIDE DEF r
<1>5. /\ r.taken \in 1..k.pending /\ FrameOk(file.stream, m.framer)
      /\ m.framer.format = k.framer.format /\ m.framer.total = k.framer.total
      /\ m.framer.at = k.framer.at + r.taken /\ m.pending = k.pending - r.taken
      /\ m.framer \in FrameType /\ k.framer \in FrameType
  BY <1>3, <1>4 DEF Framed, r, FrameOk
<1>6. k.framer.at \in Nat /\ m.framer.at \in Nat /\ k.framer.total \in Nat
  BY <1>5, FrameFields
<1>7. m.framer.at + m.pending = k.framer.at + k.pending /\ m.pending \in 0..StageBytes
  BY <1>1, <1>5, <1>6, BoundsAssumption DEF Typed
<1>8. Typed(m) /\ Placed(m)
  BY <1>1, <1>5, <1>7, SamePlace DEF Typed, WalkOk
<1>9. /\ At(m) = At(k) /\ OnPage(m) = OnPage(k) /\ Offset(m) = Offset(k)
      /\ \A kind : Behind(m, kind) = Behind(k, kind)
  BY SamePlace
<1>10. FoundOk(m)
  <2>1. file.family = "R2007" => Contiguous(m)
    BY <1>2, <1>7, <1>9 DEF Contiguous, FoundOk
  <2>2. OnPage(m) /\ m.framer.at + m.pending = At(m).from + m.inner.given
    BY <1>2, <1>7, <1>9 DEF FoundOk
  <2>3. \E i \in Behind(m, "Section") :
          file.script[i].id = m.id /\ file.script[i].size = m.framer.total
    BY <1>2, <1>5, <1>9 DEF FoundOk
  <2>4. m.framer.at + m.pending <= m.framer.total /\ m.framer.format = file.format
    BY <1>2, <1>5, <1>7 DEF FoundOk
  <2>5. QED
    BY <1>5, <2>1, <2>2, <2>3, <2>4 DEF FoundOk
<1>11. QED
  BY <1>1, <1>8, <1>10 DEF WalkOk

LEMMA EndedOk ==
  ASSUME file \in Files, NEW k, WalkOk(k), k.framer.stage = "Done",
         NEW m, m.inner = k.inner, m.found = k.found, m.id = k.id, m.pending = k.pending,
         m.framer = [k.framer EXCEPT !.stage = "Ended"], m.handed = k.handed
  PROVE  WalkOk(m)
<1>1. Typed(k) /\ Placed(k) /\ k.found = TRUE
  BY DEF WalkOk, Typed, Unfound, Idle
<1>2. FoundOk(k) /\ FrameOk(file.stream, k.framer) /\ k.framer \in FrameType
  BY <1>1 DEF WalkOk, FoundOk, Typed
<1>3. /\ m.framer \in FrameType /\ m.framer.stage = "Ended"
      /\ m.framer.format = k.framer.format /\ m.framer.total = k.framer.total
      /\ m.framer.at = k.framer.at /\ m.framer.start = k.framer.start
      /\ m.framer.records = k.framer.records
  BY <1>2 DEF FrameType, Frames
<1>4. NoRecord(k.framer) => NoRecord(m.framer)
  BY <1>2 DEF FrameType, NoRecord
<1>5. CountOk(k.framer, k.framer.at) => CountOk(m.framer, m.framer.at)
  BY <1>3 DEF CountOk
<1>6. FrameOk(file.stream, m.framer)
  BY <1>2, <1>3, <1>4, <1>5 DEF FrameOk
<1>7. /\ At(m) = At(k) /\ OnPage(m) = OnPage(k) /\ Offset(m) = Offset(k)
      /\ \A kind : Behind(m, kind) = Behind(k, kind)
      /\ Placed(m)
  BY <1>1, SamePlace
<1>8. FoundOk(m)
  <2>1. file.family = "R2007" => Contiguous(m)
    BY <1>2, <1>3, <1>7 DEF Contiguous, FoundOk
  <2>2. QED
    BY <1>2, <1>3, <1>6, <1>7, <2>1 DEF FoundOk
<1>9. QED
  BY <1>1, <1>3, <1>7, <1>8 DEF WalkOk, Typed

----------------------------------------------------------------------------
(* Every step keeps the invariant. *)

LEMMA SameWalk ==
  ASSUME NEW k, NEW m, m.inner = k.inner, m.found = k.found, m.id = k.id,
         m.framer = k.framer, m.pending = k.pending, m.handed = k.handed, WalkOk(k)
  PROVE  WalkOk(m)
<1>1. /\ At(m) = At(k) /\ OnPage(m) = OnPage(k) /\ Offset(m) = Offset(k)
      /\ \A kind : Behind(m, kind) = Behind(k, kind)
      /\ Placed(m) /\ Typed(m)
  BY SamePlace DEF WalkOk, Typed
<1>2. Contiguous(k) => Contiguous(m)
  BY <1>1 DEF Contiguous
<1>3. FoundOk(k) => FoundOk(m)
  BY <1>1, <1>2 DEF FoundOk
<1>4. Unfound(k) => Unfound(m)
  BY <1>1 DEF Unfound
<1>5. QED
  BY <1>1, <1>3, <1>4 DEF WalkOk

\* The invariant of a walk depends on nothing but the walk and its file.
LEMMA WalkOkSame ==
  ASSUME NEW k, file' = file
  PROVE  WalkOk(k)' <=> WalkOk(k)
<1>1. /\ At(k)' = At(k)
      /\ Placed(k)' <=> Placed(k)
      /\ OnPage(k)' <=> OnPage(k)
      /\ Offset(k)' = Offset(k)
  BY DEF Placed, OnPage, Offset, At, BytesEnd, Given
<1>2. Unfound(k)' <=> Unfound(k)
  BY DEF Unfound, Behind, Given
<1>3. Contiguous(k)' <=> Contiguous(k)
  BY <1>1 DEF Contiguous, Behind, Given
<1>4. FoundOk(k)' <=> FoundOk(k)
  BY <1>1, <1>3 DEF FoundOk, Behind, Given
<1>5. QED
  BY <1>1, <1>2, <1>4 DEF WalkOk

Resulting(m) ==
  /\ m.inner = inner' /\ m.found = found' /\ m.id = id' /\ m.framer = framer'
  /\ m.pending = pending' /\ m.handed = handed'

LEMMA NowFacts ==
  /\ Now.inner = inner /\ Now.found = found /\ Now.id = id /\ Now.framer = framer
  /\ Now.pending = pending /\ Now.handed = handed
  /\ Resulting(Now')
BY DEF Now, Resulting

LEMMA StepKeeps ==
  ASSUME IInv, file' = file, kept' = kept, restarts' \in 0..MaxRestarts, failure' \in Errors,
         IF failure' = "none" THEN WalkOk(Now') ELSE Typed(Now')
  PROVE  IInv'
<1>1. WalkOk(kept)' <=> WalkOk(kept)
  BY WalkOkSame
<1>2. WalkOk(Now)' <=> WalkOk(Now')
  BY WalkOkSame
<1>3. Typed(Now)' <=> Typed(Now')
  BY DEF Typed
<1>4. QED
  BY <1>1, <1>2, <1>3 DEF IInv

\* A step refused: everything but the failure and the place is as it was.
LEMMA FailKeeps ==
  ASSUME IInv, failure = "none", NEW error \in Errors \ {"none"}, Fail(error),
         file' = file, kept' = kept, restarts' = restarts
  PROVE  IInv'
<1>1. failure' = error
  BY DEF Fail
<1>2. Typed(Now)
  BY DEF IInv, WalkOk
<1>3. Typed(Now')
  BY <1>2 DEF Fail, Typed, Now
<1>4. QED
  BY <1>1, <1>3, StepKeeps DEF IInv

\* What a call that may take a step of the file walk knows.
Waiting ==
  /\ file \in Files /\ WalkOk(Now) /\ failure = "none"
  /\ pending = 0 /\ framer.stage # "Done" /\ inner.item < Len(file.script)
  /\ Item = At(Now)

LEMMA WaitingFacts ==
  ASSUME IInv, failure = "none", ~Buffered, ~Done
  PROVE  Waiting
<1>1. file \in Files /\ WalkOk(Now)
  BY DEF IInv
<1>2. inner.item \in 0..Len(file.script) /\ pending \in 0..StageBytes
  BY <1>1 DEF WalkOk, Placed, Typed, Now
<1>3. Len(file.script) \in Nat /\ StageBytes \in Nat
  BY <1>1, FileFacts, BoundsAssumption
<1>4. Item = At(Now)
  BY DEF Item, At, Now
<1>5. QED
  BY <1>1, <1>2, <1>3, <1>4 DEF Buffered, Done, Waiting

\* The item at hand is passed.
LEMMA PassKeeps ==
  ASSUME IInv, Waiting, inner' = Passed,
         UNCHANGED <<file, kept, restarts, found, id, framer, pending, failure, handed>>,
         Item.kind = "Data" => inner.given = Item.len,
         Item.kind = "Section" => ~Item.objects,
         Item.kind = "Hole" => ~(found /\ Item.id = id),
         Item.kind # "Refused"
  PROVE  IInv'
<1> DEFINE m == Now'
<1>1. /\ m.inner = [item |-> Now.inner.item + 1, given |-> 0] /\ m.found = Now.found /\ m.id = Now.id
      /\ m.framer = Now.framer /\ m.pending = Now.pending /\ m.handed = Now.handed
  BY DEF Now, Passed
<1>2. /\ At(Now).kind = "Data" => Now.inner.given = At(Now).len
      /\ At(Now).kind = "Section" => ~At(Now).objects
      /\ At(Now).kind = "Hole" => ~(Now.found /\ At(Now).id = Now.id)
      /\ At(Now).kind # "Refused" /\ Now.pending = 0 /\ Now.framer.stage # "Done"
      /\ Now.inner.item < Len(file.script) /\ file \in Files /\ WalkOk(Now)
  BY NowFacts DEF Waiting
<1>3. WalkOk(m)
  <2> HIDE DEF m
  <2>1. QED
    BY <1>1, <1>2, PassOk
<1>4. QED
  BY <1>3, StepKeeps DEF IInv, Waiting

LEMMA OnSectionKeeps ==
  ASSUME IInv, Waiting, OnSection, UNCHANGED <<file, kept, restarts>>
  PROVE  IInv'
<1>1. Item.kind = "Section" /\ inner' = Passed /\ failure = "none"
  BY DEF OnSection, Waiting
<1>2. CASE Fail(IF found THEN "SectionEntry" ELSE "ObjectPrologue")
  BY <1>1, <1>2, FailKeeps DEF Errors
<1>3. CASE /\ Item.objects /\ ~found /\ ~TooShort(Item.size)
           /\ found' = TRUE /\ id' = Item.id
           /\ framer' = Begin(file.format, Item.size)
           /\ UNCHANGED <<pending, failure, handed, commits>>
  <2> DEFINE m == Now'
  <2>1. /\ m.inner = [item |-> Now.inner.item + 1, given |-> 0] /\ m.found = TRUE
        /\ m.id = At(Now).id /\ m.framer = Begin(file.format, At(Now).size)
        /\ m.pending = 0 /\ m.handed = Now.handed
    BY <1>1, <1>3 DEF Now, Passed, Waiting
  <2>2. /\ file \in Files /\ WalkOk(Now) /\ ~Now.found /\ Now.inner.item < Len(file.script)
        /\ At(Now).kind = "Section" /\ ~TooShort(At(Now).size)
    BY <1>1, <1>3, NowFacts DEF Waiting
  <2>3. WalkOk(m)
    <3> HIDE DEF m
    <3>1. QED
      BY <2>1, <2>2, FoundSectionOk
  <2>4. QED
    BY <1>1, <1>3, <2>3, StepKeeps DEF IInv
<1>4. CASE ~Item.objects /\ UNCHANGED <<found, id, framer, pending, failure, handed, commits>>
  BY <1>1, <1>4, PassKeeps
<1>5. QED
  BY <1>2, <1>3, <1>4 DEF OnSection

LEMMA OnDataKeeps ==
  ASSUME IInv, Waiting, OnData, UNCHANGED <<file, kept, restarts>>
  PROVE  IInv'
<1>1. /\ Item.kind = "Data" /\ inner.given < Item.len /\ failure = "none"
  BY DEF OnData, Waiting
<1>2. /\ inner.given \in Nat /\ Item.len \in Nat /\ StageBytes \in Nat \ {0}
  <2>1. inner.given \in Nat /\ inner.item \in Nat /\ inner.item + 1 \in 1..Len(file.script)
    BY FileFacts DEF Waiting, WalkOk, Placed, Now
  <2>2. Item.len \in Nat
    BY <1>1, <2>1, ItemFacts DEF Item, Waiting
  <2>3. QED
    BY <2>1, <2>2, BoundsAssumption
<1>3. PICK piece \in Pieces :
        LET n == Fewest(piece, Fewest(Item.len - inner.given, StageBytes))
        IN /\ inner' = [inner EXCEPT !.given = @ + n]
           /\ \/ /\ found /\ Item.id = id /\ ~InOrder
                 /\ Fail("ObjectsOrder")
              \/ /\ found /\ Item.id = id /\ InOrder
                 /\ pending' = n
                 /\ UNCHANGED <<found, id, framer, failure, handed, commits>>
              \/ /\ ~(found /\ Item.id = id)
                 /\ UNCHANGED <<found, id, framer, pending, failure, handed, commits>>
  BY DEF OnData
<1> DEFINE n == Fewest(piece, Fewest(Item.len - inner.given, StageBytes))
<1>4. n \in Nat \ {0} /\ inner.given + n <= Item.len /\ n <= StageBytes
  <2>1. Item.len - inner.given \in Nat \ {0} /\ piece \in Nat \ {0}
    BY <1>1, <1>2, BoundsAssumption
  <2>2. QED
    BY <1>2, <2>1, FewestFacts
<1> HIDE DEF n
<1>5. /\ inner' = [inner EXCEPT !.given = @ + n]
      /\ \/ Fail("ObjectsOrder")
         \/ /\ found /\ Item.id = id /\ InOrder /\ pending' = n
            /\ UNCHANGED <<found, id, framer, failure, handed, commits>>
         \/ /\ ~(found /\ Item.id = id)
            /\ UNCHANGED <<found, id, framer, pending, failure, handed, commits>>
  BY <1>3 DEF n
<1>6. CASE Fail("ObjectsOrder")
  BY <1>1, <1>6, FailKeeps DEF Errors
<1>7. CASE ~Fail("ObjectsOrder")
  <2> DEFINE m == Now'
  <2>1. /\ m.inner = [Now.inner EXCEPT !.given = @ + n] /\ m.found = Now.found
        /\ m.id = Now.id /\ m.framer = Now.framer /\ m.handed = Now.handed
    BY <1>5, <1>7 DEF Now
  <2>2. \/ /\ Now.found /\ At(Now).id = Now.id /\ At(Now).from + Now.inner.given = Now.framer.at
           /\ m.pending = n
        \/ ~(Now.found /\ At(Now).id = Now.id) /\ m.pending = 0
    BY <1>5, <1>7 DEF Now, Waiting, InOrder, Cursor
  <2>3. /\ file \in Files /\ WalkOk(Now) /\ Now.pending = 0 /\ Now.framer.stage # "Done"
        /\ Now.inner.item < Len(file.script) /\ At(Now).kind = "Data"
        /\ Now.inner.given + n <= At(Now).len
    BY <1>1, <1>4, NowFacts DEF Waiting
  <2>4. WalkOk(m)
    <3> HIDE DEF m
    <3>1. QED
      BY <1>4, <2>1, <2>2, <2>3, GiveOk
  <2>5. failure' = failure
    BY <1>5, <1>7
  <2>6. QED
    BY <1>1, <2>4, <2>5, StepKeeps DEF IInv
<1>8. QED
  BY <1>6, <1>7

LEMMA OnWalkKeeps ==
  ASSUME IInv, failure = "none", OnWalk, UNCHANGED <<file, kept, restarts>>
  PROVE  IInv'
<1>1. Waiting
  BY WaitingFacts DEF OnWalk
<1>2. CASE OnSection
  BY <1>1, <1>2, OnSectionKeeps
<1>3. CASE OnData
  BY <1>1, <1>3, OnDataKeeps
<1>4. CASE OnHole
  <2>1. Item.kind = "Hole" /\ inner' = Passed
    BY <1>4 DEF OnHole
  <2>2. CASE Fail("ObjectsOrder")
    BY <2>2, FailKeeps DEF Errors
  <2>3. CASE /\ ~(found /\ Item.id = id)
             /\ UNCHANGED <<found, id, framer, pending, failure, handed, commits>>
    BY <1>1, <2>1, <2>3, PassKeeps
  <2>4. QED
    BY <1>4, <2>2, <2>3 DEF OnHole
<1>5. CASE OnOther
  <2>1. /\ Item.kind \in {"Other", "SectionEnd"} \/ (Item.kind = "Data" /\ inner.given = Item.len)
        /\ inner' = Passed
        /\ UNCHANGED <<found, id, framer, pending, failure, handed, commits>>
    BY <1>5 DEF OnOther
  <2>2. QED
    BY <1>1, <2>1, PassKeeps
<1>6. CASE OnRefused
  BY <1>6, FailKeeps DEF OnRefused, Errors
<1>7. CASE OnFinished
  <2>1. Item.kind = "Finished" /\ inner' = Passed
    BY <1>7 DEF OnFinished
  <2>2. CASE FinishFault # "none" /\ Fail(FinishFault)
    <3>1. FinishFault \in Errors \ {"none"}
      BY <2>2 DEF FinishFault, Errors
    <3>2. QED
      BY <2>2, <3>1, FailKeeps
  <2>3. CASE UNCHANGED <<found, id, framer, pending, failure, handed>>
    BY <1>1, <2>1, <2>3, PassKeeps
  <2>4. QED
    BY <1>7, <2>2, <2>3 DEF OnFinished
<1>8. QED
  BY <1>2, <1>3, <1>4, <1>5, <1>6, <1>7 DEF OnWalk

LEMMA FrameDoneKeeps ==
  ASSUME IInv, failure = "none", FrameDone, UNCHANGED <<file, kept, restarts>>
  PROVE  IInv'
<1> DEFINE m == Now'
<1>1. /\ m.inner = Now.inner /\ m.found = Now.found /\ m.id = Now.id /\ m.pending = Now.pending
      /\ m.framer = [Now.framer EXCEPT !.stage = "Ended"] /\ m.handed = Now.handed
  BY DEF FrameDone, Now
<1>2. file \in Files /\ WalkOk(Now) /\ Now.framer.stage = "Done"
  BY NowFacts DEF FrameDone, IInv
<1>3. WalkOk(m)
  <2> HIDE DEF m
  <2>1. QED
    BY <1>1, <1>2, EndedOk
<1>4. failure' = failure
  BY DEF FrameDone
<1>5. QED
  BY <1>3, <1>4, StepKeeps DEF IInv

LEMMA FramePendingKeeps ==
  ASSUME IInv, failure = "none", FramePending, UNCHANGED <<file, kept, restarts>>
  PROVE  IInv'
<1> DEFINE r == FrameFeed(file.stream, framer, pending)
<1>1. CASE r.error # "none"
  <2>1. Fail(r.error)
    BY <1>1 DEF FramePending
  <2>2. r.error \in Errors \ {"none"}
    BY <1>1, FrameFeedErrors
  <2> HIDE DEF r
  <2>3. QED
    BY <2>1, <2>2, FailKeeps
<1>2. CASE r.error = "none"
  <2> DEFINE m == Now'
  <2>1. /\ inner' = inner /\ found' = found /\ id' = id /\ failure' = failure
        /\ framer' = r.frame /\ pending' = pending - r.taken
        /\ handed' = CASE r.event = "Payload" -> handed + r.taken
                       [] r.event = "Object"  -> 0
                       [] OTHER               -> handed
    BY <1>2 DEF FramePending
  <2>2. file \in Files /\ WalkOk(Now) /\ Now.pending > 0 /\ framer.stage # "Done"
    BY NowFacts DEF FramePending, IInv
  <2>3. r.taken \in Nat /\ handed \in Nat
    <3>1. /\ found = TRUE /\ FoundOk(Now) /\ pending \in Nat \ {0} /\ handed \in Nat
      BY <2>2, NowFacts, BoundsAssumption DEF WalkOk, Typed, Unfound
    <3>2. FrameOk(file.stream, framer) /\ framer.at + pending <= framer.total
      BY <3>1, NowFacts DEF FoundOk
    <3>3. Framed(file.stream, framer, pending, r)
      BY <1>2, <2>2, <3>1, <3>2, FileFacts, FrameFeedOk
    <3> HIDE DEF r
    <3>4. QED
      BY <3>1, <3>3 DEF Framed
  <2>4. /\ m.inner = Now.inner /\ m.found = Now.found /\ m.id = Now.id
        /\ m.framer = FrameFeed(file.stream, Now.framer, Now.pending).frame
        /\ m.pending = Now.pending - FrameFeed(file.stream, Now.framer, Now.pending).taken
    BY <2>1 DEF Now
  <2>5. m.handed \in Nat
    <3>1. m.handed = handed'
      BY DEF Now
    <3> HIDE DEF r, m
    <3>2. QED
      BY <2>1, <2>3, <3>1
  <2>6. FrameFeed(file.stream, Now.framer, Now.pending).error = "none"
    BY <1>2, NowFacts
  <2>7. WalkOk(m)
    <3> HIDE DEF m
    <3>1. QED
      BY <2>2, <2>4, <2>5, <2>6, FramedOk
  <2>8. QED
    BY <2>1, <2>7, StepKeeps DEF IInv
<1>3. QED
  BY <1>1, <1>2

LEMMA SaveKeeps ==
  ASSUME IInv, Save
  PROVE  IInv'
<1>1. /\ file' = file /\ kept' = Now /\ restarts' = restarts /\ failure' = failure
      /\ failure = "none" /\ Now' = Now
  BY DEF Save, walkVars, Now
<1>2. WalkOk(Now)
  BY <1>1 DEF IInv
<1>3. WalkOk(Now)' /\ WalkOk(kept)'
  BY <1>1, <1>2, WalkOkSame
<1>4. QED
  BY <1>1, <1>3 DEF IInv

LEMMA RestartKeeps ==
  ASSUME IInv, Restart
  PROVE  IInv'
<1> DEFINE m == Now'
<1>1. /\ file' = file /\ kept' = kept /\ restarts' = restarts + 1 /\ restarts < MaxRestarts
      /\ failure' = "none"
  BY DEF Restart
<1>2. /\ m.inner = kept.inner /\ m.found = kept.found /\ m.id = kept.id /\ m.framer = kept.framer
      /\ m.pending = kept.pending /\ m.handed = kept.handed
  BY DEF Restart, KeptPending, Now
<1>3. WalkOk(kept)
  BY DEF IInv
<1>4. WalkOk(m)
  <2> HIDE DEF m
  <2>1. QED
    BY <1>2, <1>3, SameWalk
<1>5. restarts' \in 0..MaxRestarts
  BY <1>1, BoundsAssumption DEF IInv
<1>6. QED
  BY <1>1, <1>4, <1>5, StepKeeps DEF Errors

LEMMA InitIInv == Init => IInv
<1> SUFFICES ASSUME Init PROVE IInv
  OBVIOUS
<1>1. /\ file \in Files /\ Now.inner = [item |-> 0, given |-> 0] /\ Now.found = FALSE /\ Now.id = 0
      /\ Now.framer = Idle /\ Now.pending = 0 /\ Now.handed = 0
      /\ failure = "none" /\ kept = Now /\ restarts = 0
  BY DEF Init, Now
<1>2. Typed(Now)
  <2>1. Idle \in FrameType /\ 0 \in 0..StageBytes
    BY FramerAssumption, BoundsAssumption DEF Idle, FrameType, Formats, Frames
  <2>2. Now.found \in BOOLEAN
    BY <1>1, Zenon
  <2>3. Now.id \in Nat /\ Now.handed \in Nat
    BY <1>1
  <2>4. Now.framer \in FrameType /\ Now.pending \in 0..StageBytes
    BY <1>1, <2>1
  <2>5. QED
    BY <2>2, <2>3, <2>4, Zenon DEF Typed
<1>3. Placed(Now)
  <2>1. 0 \in 0..Len(file.script)
    BY <1>1, FileFacts
  <2>2. QED
    BY <1>1, <2>1 DEF Placed
<1>4. Unfound(Now)
  BY <1>1 DEF Unfound, Behind, Given
<1>5. WalkOk(Now)
  BY <1>1, <1>2, <1>3, <1>4 DEF WalkOk
<1>6. QED
  BY <1>1, <1>5, BoundsAssumption DEF IInv, Errors

LEMMA NextKeeps == IInv /\ [Next]_vars => IInv'
<1> SUFFICES ASSUME IInv, [Next]_vars PROVE IInv'
  OBVIOUS
<1>1. CASE Walk
  <2>1. failure = "none" /\ UNCHANGED <<file, kept, restarts>> /\ (OnWalk \/ FrameDone \/ FramePending)
    BY <1>1 DEF Walk
  <2>2. QED
    BY <2>1, OnWalkKeeps, FrameDoneKeeps, FramePendingKeeps
<1>2. CASE Save
  BY <1>2, SaveKeeps
<1>3. CASE Restart
  BY <1>3, RestartKeeps
<1>4. CASE UNCHANGED vars
  <2>1. /\ file' = file /\ kept' = kept /\ restarts' = restarts /\ failure' = failure /\ Now' = Now
    BY <1>4 DEF vars, walkVars, Now
  <2>2. QED
    BY <2>1, StepKeeps DEF IInv
<1>5. QED
  BY <1>1, <1>2, <1>3, <1>4 DEF Next

LEMMA Invariant == Spec => []IInv
BY InitIInv, NextKeeps, PTL DEF Spec

----------------------------------------------------------------------------
(* What the run checks, for every value of the constants. *)

\* Of a walk that has failed the invariant says little: the place it had got to
\* and the bytes its record had taken are still what they were.
NoOverrun == framer.stage \in {"Body", "Crc"} => framer.done <= Payload(framer)

Left == inner \in PlaceType /\ NoOverrun

LEMMA FrameOverrun ==
  ASSUME NEW s, NEW f, FrameOk(s, f), f.stage \in {"Body", "Crc"}
  PROVE  f.done <= Payload(f)
<1>1. f \in FrameType /\ BodyFrame(s, f)
  BY DEF FrameOk
<1>2. f.done \in Nat /\ f.size \in Nat /\ f.mcLen \in Nat
  BY <1>1, FrameFields, FramerAssumption
<1>3. QED
  BY <1>1, <1>2 DEF BodyFrame, Payload

\* A walk that has not failed is at a place, and has overrun no record.
LEMMA SoundLeft == IInv /\ failure = "none" => Left
<1> SUFFICES ASSUME IInv, failure = "none" PROVE Left
  OBVIOUS
<1>1. WalkOk(Now) /\ Now.inner = inner /\ Now.framer = framer
  BY NowFacts DEF IInv
<1>2. inner \in PlaceType
  BY <1>1 DEF WalkOk, Placed, PlaceType
<1>3. CASE Now.found
  BY <1>1, <1>2, <1>3, FrameOverrun DEF WalkOk, FoundOk, Left, NoOverrun
<1>4. CASE ~Now.found
  BY <1>1, <1>2, <1>4 DEF WalkOk, Unfound, Idle, Left, NoOverrun
<1>5. QED
  BY <1>3, <1>4

LEMMA SoundLeftNext == (IInv /\ failure = "none" => Left)'
BY SoundLeft, PTL

\* A step of the file walk that refuses ends at a place.
LEMMA OnWalkPlaced ==
  ASSUME IInv, failure = "none", OnWalk, UNCHANGED file
  PROVE  inner' \in PlaceType
<1>1. Waiting
  BY WaitingFacts DEF OnWalk
<1>2. inner \in PlaceType /\ inner.item < Len(file.script) /\ Len(file.script) \in Nat
  BY <1>1, FileFacts, SoundLeft DEF Left, Waiting
<1>3. PlaceType' = PlaceType
  BY DEF PlaceType
<1>4. CASE inner' = Passed
  BY <1>2, <1>3, <1>4 DEF Passed, PlaceType
<1>5. CASE inner' = inner
  BY <1>2, <1>3, <1>5
<1>6. CASE OnData
  <2>1. Item.kind = "Data" /\ inner.given < Item.len
    BY <1>6 DEF OnData
  <2>2. PICK n : inner' = [inner EXCEPT !.given = @ + n] /\ \E piece \in Pieces :
                   n = Fewest(piece, Fewest(Item.len - inner.given, StageBytes))
    BY <1>6 DEF OnData
  <2>3. Item.len \in Nat
    <3>1. inner.item + 1 \in 1..Len(file.script)
      BY <1>2 DEF PlaceType
    <3>2. QED
      BY <1>1, <2>1, <3>1, ItemFacts DEF Item, Waiting
  <2>4. n \in Nat
    BY <1>2, <2>1, <2>2, <2>3, BoundsAssumption DEF Fewest, PlaceType
  <2>5. QED
    BY <1>2, <1>3, <2>2, <2>4 DEF PlaceType
<1>7. QED
  BY <1>4, <1>5, <1>6 DEF OnWalk, OnSection, OnHole, OnOther, OnRefused, OnFinished

LEMMA LeftInv == IInv /\ Left /\ [Next]_vars => Left'
<1> SUFFICES ASSUME IInv, Left, [Next]_vars PROVE Left'
  OBVIOUS
<1>1. IInv'
  BY NextKeeps
<1>2. CASE failure' = "none"
  BY <1>1, <1>2, SoundLeftNext
<1>3. CASE Walk /\ failure' # "none"
  <2>1. failure = "none" /\ UNCHANGED file
    BY <1>3 DEF Walk
  <2>2. framer' = framer
    BY <1>3, <2>1 DEF Walk, OnWalk, OnSection, OnData, OnHole, OnOther, OnRefused, OnFinished,
                      FrameDone, FramePending, Fail
  <2>3. inner' \in PlaceType'
    <3>1. PlaceType' = PlaceType
      BY <2>1 DEF PlaceType
    <3>2. OnWalk \/ inner' = inner
      BY <1>3 DEF Walk, FrameDone, FramePending
    <3>3. QED
      BY <2>1, <3>1, <3>2, OnWalkPlaced DEF Left
  <2>4. QED
    BY <2>2, <2>3 DEF Left, NoOverrun
<1>4. CASE (Save \/ UNCHANGED vars) /\ failure' # "none"
  BY <1>4 DEF Save, vars, walkVars, Left, NoOverrun, PlaceType
<1>5. CASE Restart
  BY <1>2, <1>5 DEF Restart
<1>6. QED
  BY <1>2, <1>3, <1>4, <1>5 DEF Next

\* The file walk's place, the walk, the framer and the checkpoint have their
\* types: no more is staged than the stage holds, and no record takes more
\* bytes than it has.
THEOREM TypeCorrect == Spec => []TypeOK
<1>1. IInv /\ Left => TypeOK
  <2> SUFFICES ASSUME IInv, Left PROVE TypeOK
    OBVIOUS
  <2>1. Typed(Now) /\ Typed(kept) /\ Placed(kept)
    BY DEF IInv, WalkOk
  <2>2. kept.inner \in PlaceType
    BY <2>1 DEF Placed, PlaceType
  <2>3. QED
    BY <2>1, <2>2, NowFacts DEF IInv, Left, NoOverrun, Typed, TypeOK
<1>2. Init => Left
  BY InitIInv, SoundLeft DEF Init
<1>3. QED
  BY <1>1, <1>2, LeftInv, InitIInv, NextKeeps, PTL DEF Spec

\* A frame of a record that can still be whole is one restore accepts.
LEMMA FrameAccepted ==
  ASSUME NEW s \in StreamType, NEW f, FrameOk(s, f),
         ~(f.stage = "Ms" /\ f.at = f.total), ~(InMc(f) /\ f.mcLen = MaxMc)
  PROVE  FrameConsistent(s, f)
<1>1. /\ f \in FrameType /\ f.total >= Prologue /\ f.start <= f.at /\ f.at <= f.total
  BY DEF FrameOk
<1>2. /\ f.stage \in Frames /\ f.at \in Nat /\ f.total \in Nat /\ f.total # 0
      /\ f.mcLen \in 0..MaxMc /\ MaxMc \in Nat /\ f.words \in 0..2 /\ f.msLen \in 0..4
      /\ f.mcDone \in BOOLEAN
  BY <1>1, FrameFields, FramerAssumption DEF Prologue
<1>3. f.stage \in {"Prologue", "Done", "Ended"} => FrameConsistent(s, f)
  BY <1>1, <1>2 DEF FrameOk, FrameConsistent
<1>4. CASE f.stage = "Ms"
  <2>1. MsFrame(f)
    BY <1>4 DEF FrameOk
  <2>2. MsOk(f)
    BY <1>1, <1>2, <1>4, <2>1 DEF MsFrame, MsOk
  <2>3. QED
    BY <1>1, <1>2, <1>4, <2>2 DEF FrameConsistent
<1>5. CASE f.stage \in {"Body", "Crc"}
  <2>1. /\ StartOk(f) /\ f.size \in Nat \ {0} /\ f.msLen = 2 * f.words /\ f.words \in 1..2
        /\ f.at = f.start + f.msLen + f.done + f.fieldLen
        /\ f.summed = f.msLen + f.done /\ McFrame(s, f)
        /\ IF InMc(f) THEN f.start + f.msLen + f.size + 3 <= f.total ELSE RecordEnd(f) <= f.total
        /\ IF f.stage = "Crc" THEN f.done = Payload(f) ELSE f.done < Payload(f) /\ f.fieldLen = 0
    BY <1>5, BodyFacts
  <2>2. McOk(s, f)
    <3>1. CASE f.format = "R2010"
      <4>1. ~f.mcDone => f.mcLen < MaxMc
        <5>1. CASE f.stage = "Body"
          BY <1>2, <3>1, <5>1 DEF InMc
        <5>2. CASE f.stage = "Crc"
          <6>1. f.done = f.mcLen + f.size
            BY <2>1, <3>1, <5>2 DEF Payload
          <6>2. ~f.mcDone => f.done = f.mcLen
            BY <2>1, <3>1 DEF McFrame
          <6>3. QED
            BY <1>2, <2>1, <6>1, <6>2
        <5>3. QED
          BY <1>5, <5>1, <5>2
      <4>2. QED
        BY <2>1, <3>1, <4>1 DEF McFrame, McOk
    <3>2. CASE f.format # "R2010"
      BY <2>1, <3>2 DEF McFrame, McOk
    <3>3. QED
      BY <3>1, <3>2
  <2>3. f.msLen \in {2, 4} /\ f.words = f.msLen \div 2
    BY <2>1
  <2>4. f.size # 0
    BY <2>1
  <2>5. BodyOk(s, f)
    BY <2>1, <2>2, <2>3, <2>4 DEF BodyOk
  <2>6. QED
    BY <1>1, <1>2, <1>5, <2>5 DEF FrameConsistent
<1>6. QED
  BY <1>2, <1>3, <1>4, <1>5 DEF Frames

LEMMA R2004Tied ==
  ASSUME file \in Files, NEW k, WalkOk(k)
  PROVE  R2004Ties(k)
<1> SUFFICES ASSUME k.found PROVE R2004Ties(k)
  BY DEF R2004Ties
<1>1. FoundOk(k)
  BY DEF WalkOk
<1>2. \E slot \in Slots(k) : slot.id = k.id /\ slot.size = k.framer.total
  BY <1>1 DEF FoundOk, Slots
<1>3. Tied(k)
  BY <1>1 DEF Tied, FoundOk, OnPage, At, WalkOk, Placed
<1>4. QED
  BY <1>1, <1>2, <1>3 DEF R2004Ties, FoundOk

\* When the file walk is at its end it is inside no section.
LEMMA InsideGoesOn ==
  ASSUME file \in Files, file.family = "R2007", NEW k, WalkOk(k), Named(k)
  PROVE  k.inner.item < Len(file.script)
<1> DEFINE l == Len(file.script)
           n == l - 1
<1>1. k.inner.item \in 0..l /\ l \in Nat \ {0} /\ n \in Nat /\ n + 1 = l /\ l \in 1..l
  BY FileFacts DEF WalkOk, Placed
<1> SUFFICES ASSUME k.inner.item = l PROVE FALSE
  BY <1>1
<1>2. file.script[l].kind = "Finished"
  BY <1>1, FileFacts DEF WalkOk, Placed
<1>3. ~Inside(file.script, n)
  BY <1>1, <1>2, R2007Item
<1> HIDE DEF n
<1>4. \A kind : Given(file.script, n + 1, kind) =
                IF file.script[n + 1].kind = kind THEN Given(file.script, n, kind) \cup {n + 1}
                ELSE Given(file.script, n, kind)
  BY <1>1, GivenStep, Zenon
<1>5. /\ Given(file.script, l, "Section") = Given(file.script, n, "Section")
      /\ Given(file.script, l, "SectionEnd") = Given(file.script, n, "SectionEnd")
  BY <1>1, <1>2, <1>4
<1>6. ~Inside(file.script, l)
  BY <1>3, <1>5 DEF Inside
<1>7. QED
  BY <1>6 DEF Named

LEMMA R2007Tied ==
  ASSUME file \in Files, file.family = "R2007", NEW k, WalkOk(k)
  PROVE  R2007Ties(k)
<1> DEFINE n == k.inner.item
           last == Max(Given(file.script, n, "Section"))
<1>1. n \in Nat /\ n <= Len(file.script) /\ Len(file.script) \in Nat /\ k.pending \in Nat
      /\ k.inner.given \in Nat /\ k.found \in BOOLEAN
  BY FileFacts, BoundsAssumption DEF WalkOk, Placed, Typed
<1>2. ASSUME Named(k)
      PROVE  /\ last \in Given(file.script, n, "Section") /\ Current(k) = file.script[last]
             /\ \A i \in Given(file.script, n, "Section") : i <= last
  BY <1>1, <1>2, InsideFacts DEF Named, Current
<1>3. Behind(k, "Section") = Given(file.script, n, "Section")
  BY DEF Behind
<1> HIDE DEF last
<1>4. CASE ~k.found
  <2>1. \A i \in Behind(k, "Section") : ~file.script[i].objects
    BY <1>4 DEF WalkOk, Unfound
  <2>2. ~(Named(k) /\ Current(k).objects)
    BY <1>2, <1>3, <2>1
  <2>3. QED
    BY <1>4, <2>2 DEF R2007Ties
<1>5. CASE k.found
  <2>1. FoundOk(k) /\ Contiguous(k)
    BY <1>5 DEF WalkOk, FoundOk
  <2>2. PICK i \in Given(file.script, n, "Section") :
          file.script[i].id = k.id /\ file.script[i].size = k.framer.total
    BY <1>3, <2>1 DEF FoundOk
  <2>3. i \in 1..n /\ k.id \in Nat /\ k.id < Cardinality(Given(file.script, n, "Section"))
        /\ Cardinality(Given(file.script, n, "Section")) \in Nat
    BY <1>1, <2>2, SectionsNumbered, GivenFacts
  <2>4. CASE Named(k) /\ Current(k).id = k.id
    <3>1. last = i
      <4>1. i <= last /\ last \in 1..n
        BY <1>1, <1>2, <2>2, <2>4, SectionsNumbered
      <4>2. ~(i < last)
        <5> SUFFICES ASSUME i < last PROVE FALSE
          OBVIOUS
        <5>1. file.script[i].id < file.script[last].id
          BY <1>1, <1>2, <2>2, <2>4, SectionsOrdered
        <5>2. QED
          BY <1>2, <2>2, <2>3, <2>4, <5>1
      <4>3. QED
        BY <2>3, <4>1, <4>2
    <3>2. Current(k).size = k.framer.total
      BY <1>2, <2>2, <2>4, <3>1
    <3>3. n < Len(file.script) /\ n + 1 \in 1..Len(file.script)
      BY <1>1, <2>4, InsideGoesOn
    <3>4. NextOffset(k) = Offset(k)
      <4>1. NextOffset(k) = IF At(k).kind = "Data" /\ At(k).id = k.id
                            THEN At(k).from + k.inner.given ELSE BytesEnd(file.script, n, k.id)
        BY Zenon DEF NextOffset, At
      <4>2. Offset(k) = IF k.inner.given > 0 /\ At(k).id = k.id
                        THEN At(k).from + k.inner.given ELSE BytesEnd(file.script, n, k.id)
        BY Zenon DEF Offset, OnPage
      <4>3. k.inner.given > 0 => At(k).kind = "Data"
        BY DEF WalkOk, Placed
      <4>4. CASE At(k).kind = "Data" /\ At(k).id = k.id /\ k.inner.given = 0
        <5>1. file.script[n + 1] = At(k)
          BY DEF At
        <5> HIDE DEF n
        <5>2. n + 1 - 1 = n
          BY <1>1
        <5>3. \/ At(k).from = BytesEnd(file.script, n, k.id)
              \/ \E h \in Given(file.script, n, "Hole") : file.script[h].id = k.id
          <6> DEFINE j == n + 1
          <6>1. j \in 1..Len(file.script) /\ j - 1 = n /\ file.script[j] = At(k)
            BY <1>1, <3>3, <5>1
          <6> HIDE DEF j
          <6>2. QED
            BY <4>4, <6>1, R2007Item
        <5>4. ~\E h \in Given(file.script, n, "Hole") : file.script[h].id = k.id
          BY <2>1 DEF Contiguous, Behind, n
        <5>5. At(k).from \in Nat
          BY <3>3, <4>4, <5>1, ItemFacts
        <5>6. QED
          BY <4>1, <4>2, <4>4, <5>3, <5>4, <5>5
      <4>5. CASE ~(At(k).kind = "Data" /\ At(k).id = k.id /\ k.inner.given = 0)
        BY <1>1, <4>1, <4>2, <4>3, <4>5
      <4>6. QED
        BY <4>4, <4>5
    <3>5. k.framer.at + k.pending = NextOffset(k)
      BY <2>1, <3>4 DEF Contiguous
    <3>6. QED
      BY <1>5, <2>4, <3>2, <3>5 DEF R2007Ties
  <2>5. CASE ~(Named(k) /\ Current(k).id = k.id)
    <3>1. Named(k) => Current(k).id > k.id
      <4> SUFFICES ASSUME Named(k) PROVE Current(k).id > k.id
        OBVIOUS
      <4>1. Current(k).id # k.id /\ Current(k) = file.script[last] /\ i <= last /\ last \in 1..n
            /\ last \in Given(file.script, n, "Section")
        BY <1>1, <1>2, <2>2, <2>5, SectionsNumbered
      <4>2. i < last
        BY <2>2, <2>3, <4>1
      <4>3. file.script[i].id < file.script[last].id /\ file.script[last].id \in Nat
        BY <1>1, <2>2, <4>1, <4>2, SectionsOrdered, SectionsNumbered
      <4>4. QED
        BY <2>2, <2>3, <4>1, <4>3
    <3>2. Cardinality(Behind(k, "Section")) > k.id
      BY <1>3, <2>3
    <3>3. k.pending = 0 /\ k.framer.stage # "Done"
      <4> SUFFICES ASSUME k.pending > 0 \/ k.framer.stage = "Done" PROVE FALSE
        BY <1>1
      <4>1. /\ n < Len(file.script) /\ At(k).kind = "Data" /\ At(k).id = k.id
        BY <2>1 DEF FoundOk, OnPage, WalkOk, Placed
      <4>2. file.script[n + 1] = At(k)
        BY DEF At
      <4> HIDE DEF n
      <4>3. n + 1 \in 1..Len(file.script) /\ n + 1 - 1 = n
        BY <1>1, <4>1
      <4>4. Inside(file.script, n) /\ LastOf(file.script, n).id = k.id
        <5> DEFINE j == n + 1
        <5>1. j \in 1..Len(file.script) /\ j - 1 = n /\ file.script[j] = At(k)
          BY <1>1, <4>2, <4>3
        <5> HIDE DEF j
        <5>2. QED
          BY <4>1, <5>1, R2007Item
      <4>5. QED
        BY <2>5, <4>4 DEF Named, Current, n
    <3>4. QED
      BY <1>5, <2>5, <3>1, <3>2, <3>3 DEF R2007Ties
  <2>6. QED
    BY <2>4, <2>5
<1>6. QED
  BY <1>1, <1>4, <1>5

\* Framer, staged bytes and file walk are accepted together in every state of
\* a walk that has not failed, but those of a record that can only be refused.
THEOREM RestorableHolds == Spec => []Restorable
<1>1. IInv => Restorable
  <2> SUFFICES ASSUME IInv, failure = "none", ~Doomed PROVE Consistent(Now)
    BY DEF Restorable
  <2>1. file \in Files /\ WalkOk(Now)
    BY DEF IInv
  <2>2. IF file.family = "R2004" THEN R2004Ties(Now) ELSE R2007Ties(Now)
    BY <2>1, FileFacts, R2004Tied, R2007Tied
  <2>3. CASE ~found
    <3>1. ~Now.found /\ Unfound(Now)
      BY <2>1, <2>3, NowFacts DEF WalkOk
    <3>2. QED
      BY <2>2, <3>1 DEF Consistent, Unfound
  <2>4. CASE found
    <3>1. Now.found /\ FoundOk(Now) /\ Now.framer = framer /\ Typed(Now)
      BY <2>1, <2>4, NowFacts DEF WalkOk
    <3>2. FrameOk(file.stream, framer)
      BY <3>1 DEF FoundOk
    <3>3. FrameConsistent(file.stream, framer)
      BY <2>1, <3>2, FileFacts, FrameAccepted DEF Doomed
    <3>4. Now.pending > 0 => framer.stage \notin {"Done", "Ended"}
      <4>1. /\ framer.at + Now.pending <= framer.total /\ framer.at \in Nat /\ framer.total \in Nat
            /\ Now.pending \in Nat
        BY <3>1, <3>2, FrameFields, BoundsAssumption DEF FoundOk, FrameOk, Typed
      <4>2. framer.stage \in {"Done", "Ended"} => framer.at = framer.total
        BY <3>2 DEF FrameOk
      <4>3. QED
        BY <4>1, <4>2
    <3>5. Now.framer.format = file.format
      BY <3>1 DEF FoundOk
    <3>6. QED
      BY <2>2, <3>1, <3>3, <3>4, <3>5 DEF Consistent
  <2>5. QED
    BY <2>3, <2>4
<1>2. QED
  BY <1>1, Invariant, PTL
----------------------------------------------------------------------------
(* The reading.  Records lie one after the other. *)

LEMMA SetInduction ==
  ASSUME NEW T \in SUBSET Nat, 0 \in T, \A n \in T : n + 1 \in T
  PROVE  T = Nat
<1> SUFFICES ASSUME Nat \ T # {} PROVE FALSE
  OBVIOUS
<1>1. PICK e \in Nat \ T : \A f \in Nat \ T : e <= f
  BY LeastMember
<1>2. e - 1 \in Nat /\ e - 1 + 1 = e /\ ~(e <= e - 1)
  BY <1>1
<1>3. QED
  BY <1>1, <1>2

\* The recursion has a solution, so that `Start` is one.
LEMMA StartDefined ==
  Start = [n \in Nat |-> IF n = 0 THEN Prologue ELSE Start[n - 1] + Whole(n - 1)]
<1> DEFINE Upto(n, f) ==
             f = [m \in 0..n |-> IF m = 0 THEN Prologue ELSE f[m - 1] + Whole(m - 1)]
<1> HIDE DEF Prologue, Whole
<1>1. ASSUME NEW n \in Nat, NEW f, Upto(n, f)
      PROVE  /\ f[0] = Prologue
             /\ \A m \in 1..n : f[m] = f[m - 1] + Whole(m - 1)
  BY <1>1
<1>2. ASSUME NEW n \in Nat, NEW k \in Nat, NEW f, NEW g, Upto(n, f), Upto(k, g), n <= k
      PROVE  \A m \in 0..n : f[m] = g[m]
  <2> DEFINE T == {m \in Nat : m <= n => f[m] = g[m]}
  <2>1. 0 \in T
    BY <1>1, <1>2
  <2>2. ASSUME NEW m \in T PROVE m + 1 \in T
    <3>1. SUFFICES ASSUME m + 1 <= n PROVE f[m + 1] = g[m + 1]
      BY <2>2
    <3>2. m + 1 \in 1..n /\ m + 1 \in 1..k /\ (m + 1) - 1 = m /\ m <= n
      BY <1>2, <2>2, <3>1
    <3>3. f[m] = g[m]
      BY <2>2, <3>2
    <3>4. f[m + 1] = f[m] + Whole(m) /\ g[m + 1] = g[m] + Whole(m)
      BY <1>1, <1>2, <3>2
    <3>5. QED
      BY <3>3, <3>4
  <2> HIDE DEF T
  <2>3. T = Nat
    <3>1. T \in SUBSET Nat
      BY DEF T
    <3>2. QED
      BY <2>1, <2>2, <3>1, SetInduction
  <2>4. QED
    BY <2>3 DEF T
<1>3. \A n \in Nat : \E f : Upto(n, f)
  <2> DEFINE T == {n \in Nat : \E f : Upto(n, f)}
  <2>1. 0 \in T
    <3> DEFINE g == [m \in 0..0 |-> Prologue]
    <3>1. Upto(0, g)
      OBVIOUS
    <3>2. QED
      BY <3>1
  <2>2. ASSUME NEW n \in T PROVE n + 1 \in T
    <3>1. PICK f : Upto(n, f)
      BY <2>2
    <3> DEFINE g == [m \in 0..(n + 1) |-> IF m = n + 1 THEN f[n] + Whole(n) ELSE f[m]]
    <3>2. n \in Nat /\ f[0] = Prologue /\ \A m \in 1..n : f[m] = f[m - 1] + Whole(m - 1)
      BY <1>1, <2>2, <3>1
    <3>3. ASSUME NEW m \in 0..(n + 1)
          PROVE  g[m] = IF m = 0 THEN Prologue ELSE g[m - 1] + Whole(m - 1)
      <4>1. CASE m = 0
        BY <3>2, <4>1
      <4>2. CASE m \in 1..n
        <5>1. m - 1 \in 0..(n + 1) /\ m - 1 # n + 1 /\ m # n + 1 /\ m # 0
          BY <3>2, <4>2
        <5>2. QED
          BY <3>2, <4>2, <5>1
      <4>3. CASE m = n + 1
        <5>1. m - 1 = n /\ n \in 0..(n + 1) /\ n # n + 1 /\ m # 0
          BY <3>2, <4>3
        <5>2. g[n] = f[n] /\ g[m] = f[n] + Whole(n)
          BY <4>3, <5>1
        <5>3. QED
          BY <5>1, <5>2
      <4>4. QED
        BY <3>2, <4>1, <4>2, <4>3
    <3>4. Upto(n + 1, g)
      BY <3>3
    <3> HIDE DEF Upto, g
    <3>5. QED
      BY <3>2, <3>4
  <2> HIDE DEF T
  <2>3. T = Nat
    <3>1. T \in SUBSET Nat
      BY DEF T
    <3>2. QED
      BY <2>1, <2>2, <3>1, SetInduction
  <2>4. QED
    BY <2>3 DEF T
<1> DEFINE part(n) == CHOOSE f : Upto(n, f)
           all == [n \in Nat |-> part(n)[n]]
<1>4. \A n \in Nat : Upto(n, part(n))
  BY <1>3
<1> HIDE DEF Upto, part
<1>5. \A n \in Nat : n # 0 => part(n)[n - 1] = part(n - 1)[n - 1]
  <2>1. SUFFICES ASSUME NEW n \in Nat, n # 0
                 PROVE  part(n)[n - 1] = part(n - 1)[n - 1]
    OBVIOUS
  <2>2. n - 1 \in Nat /\ n - 1 \in 0..(n - 1) /\ n - 1 <= n
    BY <2>1
  <2>3. QED
    BY <1>2, <1>4, <2>2
<1>6. all = [n \in Nat |-> IF n = 0 THEN Prologue ELSE all[n - 1] + Whole(n - 1)]
  <2>1. \A n \in Nat : part(n)[n] = IF n = 0 THEN Prologue ELSE all[n - 1] + Whole(n - 1)
    <3>1. SUFFICES ASSUME NEW n \in Nat
                   PROVE  part(n)[n] = IF n = 0 THEN Prologue ELSE all[n - 1] + Whole(n - 1)
      OBVIOUS
    <3>2. CASE n = 0
      BY <1>1, <1>4, <3>2
    <3>3. CASE n # 0
      <4>1. n - 1 \in Nat /\ n \in 1..n
        BY <3>3
      <4>2. part(n)[n] = part(n)[n - 1] + Whole(n - 1)
        BY <1>1, <1>4, <4>1
      <4>3. QED
        BY <1>5, <3>3, <4>1, <4>2
    <3>4. QED
      BY <3>2, <3>3
  <2>2. QED
    BY <2>1
<1>7. QED
  BY <1>6 DEF Start

LEMMA SpeltFacts ==
  ASSUME file \in Files, NEW n \in Nat
  PROVE  /\ Spelt(n) \in RecordType
         /\ Spelt(n).words \in Nat \ {0} /\ Spelt(n).size \in Nat /\ Spelt(n).mc \in Nat \ {0}
         /\ Spelt(n).wide \in BOOLEAN /\ Spelt(n).mcFits \in BOOLEAN /\ Spelt(n).crc \in BOOLEAN
         /\ McOf(n) \in Nat /\ Whole(n) \in Nat /\ Whole(n) > 3
<1>1. Stream.records \in Seq(RecordType)
  BY FileFacts DEF StreamType, Stream
<1>2. Spelt(n) \in RecordType
  <2>1. CASE n < Len(Stream.records)
    BY <1>1, <2>1 DEF Spelt, RecordAt
  <2>2. CASE ~(n < Len(Stream.records))
    BY <2>2 DEF Spelt, RecordAt, Zeros, RecordType
  <2>3. QED
    BY <2>1, <2>2
<1>3. /\ Spelt(n).words \in Nat \ {0} /\ Spelt(n).size \in Nat /\ Spelt(n).mc \in Nat \ {0}
      /\ Spelt(n).wide \in BOOLEAN /\ Spelt(n).mcFits \in BOOLEAN /\ Spelt(n).crc \in BOOLEAN
  BY <1>2 DEF RecordType
<1>4. McOf(n) \in Nat
  BY <1>3 DEF McOf
<1>5. QED
  BY <1>2, <1>3, <1>4 DEF Whole

\* Behind the last record there are zeros, which spell none.
LEMMA SpeltBehind ==
  ASSUME file \in Files, NEW n \in Nat, n >= Len(Stream.records)
  PROVE  Spelt(n).size = 0
<1>1. Len(Stream.records) \in Nat
  BY FileFacts DEF StreamType, Stream
<1>2. ~(n < Len(Stream.records))
  BY <1>1
<1>3. QED
  BY <1>2 DEF Spelt, RecordAt, Zeros

LEMMA SpeltAt ==
  ASSUME NEW f
  PROVE  RecordAt(file.stream, f) = Spelt(f.records)
BY DEF Spelt, RecordAt, Stream

LEMMA StartFacts ==
  ASSUME file \in Files
  PROVE  /\ Start[0] = Prologue
         /\ \A n \in Nat : Start[n] \in Nat /\ Start[n + 1] = Start[n] + Whole(n)
<1>1. Start[0] = Prologue
  BY StartDefined
<1>2. \A n \in Nat : Start[n + 1] = Start[n] + Whole(n)
  <2>1. \A n \in Nat : n + 1 \in Nat /\ n + 1 # 0 /\ (n + 1) - 1 = n
    OBVIOUS
  <2>2. QED
    BY <2>1, StartDefined
<1> DEFINE T == {n \in Nat : Start[n] \in Nat}
<1>3. 0 \in T
  BY <1>1 DEF Prologue
<1>4. ASSUME NEW n \in T PROVE n + 1 \in T
  <2>1. n \in Nat /\ Start[n] \in Nat /\ Start[n + 1] = Start[n] + Whole(n)
    BY <1>2, <1>4
  <2>2. Whole(n) \in Nat
    BY <2>1, SpeltFacts
  <2>3. QED
    BY <2>1, <2>2
<1>5. T = Nat
  <2>1. T \in SUBSET Nat
    OBVIOUS
  <2> HIDE DEF T
  <2>2. QED
    BY <1>3, <1>4, <2>1, SetInduction
<1>6. QED
  BY <1>1, <1>2, <1>5

LEMMA StartMonotone ==
  ASSUME file \in Files, NEW m \in Nat, NEW n \in Nat, m <= n
  PROVE  Start[m] <= Start[n]
<1> DEFINE T == {d \in Nat : Start[m] <= Start[m + d]}
<1>1. 0 \in T
  BY StartFacts
<1>2. ASSUME NEW d \in T PROVE d + 1 \in T
  <2>1. d \in Nat /\ m + d \in Nat /\ Start[m] <= Start[m + d] /\ m + (d + 1) = (m + d) + 1
    BY <1>2
  <2>2. /\ Start[(m + d) + 1] = Start[m + d] + Whole(m + d)
        /\ Start[m] \in Nat /\ Start[m + d] \in Nat /\ Whole(m + d) \in Nat
    BY <2>1, StartFacts, SpeltFacts
  <2>3. QED
    BY <2>1, <2>2
<1>3. T = Nat
  <2>1. T \in SUBSET Nat
    OBVIOUS
  <2> HIDE DEF T
  <2>2. QED
    BY <1>1, <1>2, <2>1, SetInduction
<1>4. n - m \in Nat /\ m + (n - m) = n
  OBVIOUS
<1>5. n - m \in T
  BY <1>3, <1>4
<1>6. QED
  BY <1>4, <1>5

LEMMA Layout ==
  ASSUME file \in Files, NEW n \in Nat
  PROVE  /\ Start[n] \in Nat /\ McAt(n) \in Nat /\ BodyAt(n) \in Nat /\ Start[n + 1] \in Nat
         /\ McAt(n) = Start[n] + 2 * Spelt(n).words
         /\ BodyAt(n) = McAt(n) + McOf(n)
         /\ Start[n + 1] = BodyAt(n) + Spelt(n).size + 2
         /\ McAt(n) >= Start[n] + 2
<1>1. /\ Start[n] \in Nat /\ Start[n + 1] = Start[n] + Whole(n)
      /\ Spelt(n).words \in Nat \ {0} /\ Spelt(n).size \in Nat /\ McOf(n) \in Nat
  BY StartFacts, SpeltFacts
<1>2. QED
  BY <1>1 DEF McAt, BodyAt, Whole

\* What is checked of a record.
LEMMA CheckList ==
  ASSUME NEW n \in Nat
  PROVE  LET r == Spelt(n)
             least == r.size + 2 + (IF file.format = "R2010" THEN 1 ELSE 0)
         IN /\ DOMAIN Checks(n) = 1..9
            /\ Checks(n)[1] = Check(Start[n] + 4, "RecordSize", r.words > 2)
            /\ Checks(n)[2] = Check(McAt(n), "RecordSize", r.size = 0)
            /\ Checks(n)[3] = Check(McAt(n), "RecordRange", McAt(n) + least > Objects.size)
            /\ Checks(n)[4] = Check(McAt(n) + MaxMc, "RecordHeader", McOf(n) >= MaxMc /\ r.wide)
            /\ Checks(n)[5] = Check(McAt(n) + MaxMc + 1, "RecordHeader", McOf(n) > MaxMc)
            /\ Checks(n)[6] = Check(BodyAt(n), "RecordRange", Start[n + 1] > Objects.size)
            /\ Checks(n)[7] = Check(BodyAt(n), "RecordHeader", file.format = "R2010" /\ ~r.mcFits)
            /\ Checks(n)[8] = Check(Start[n + 1], "RecordCrc", ~r.crc)
            /\ Checks(n)[9] = Check(Start[n + 1], "RecordHeader", r.handle = NoHandle)
BY DEF Checks

LEMMA WrongFacts ==
  ASSUME NEW n \in Nat
  PROVE  /\ Wrong(n) \in SUBSET (1..9)
         /\ \A c \in 1..9 : c \in Wrong(n) <=> Checks(n)[c].error # "none"
<1>1. DOMAIN Checks(n) = 1..9
  BY CheckList
<1>2. QED
  BY <1>1 DEF Wrong

\* Each check: the bytes it needs, and what it takes to fail it.
LEMMA CheckIs ==
  ASSUME NEW n \in Nat
  PROVE  LET r == Spelt(n)
             least == r.size + 2 + (IF file.format = "R2010" THEN 1 ELSE 0)
         IN /\ Wrong(n) \in SUBSET (1..9)
            /\ Checks(n)[1].upTo = Start[n] + 4
            /\ 1 \in Wrong(n) <=> r.words > 2
            /\ 1 \in Wrong(n) => Checks(n)[1].error = "RecordSize"
            /\ Checks(n)[2].upTo = McAt(n)
            /\ 2 \in Wrong(n) <=> r.size = 0
            /\ 2 \in Wrong(n) => Checks(n)[2].error = "RecordSize"
            /\ Checks(n)[3].upTo = McAt(n)
            /\ 3 \in Wrong(n) <=> McAt(n) + least > Objects.size
            /\ 3 \in Wrong(n) => Checks(n)[3].error = "RecordRange"
            /\ Checks(n)[4].upTo = McAt(n) + MaxMc
            /\ 4 \in Wrong(n) <=> McOf(n) >= MaxMc /\ r.wide
            /\ 4 \in Wrong(n) => Checks(n)[4].error = "RecordHeader"
            /\ Checks(n)[5].upTo = McAt(n) + MaxMc + 1
            /\ 5 \in Wrong(n) <=> McOf(n) > MaxMc
            /\ 5 \in Wrong(n) => Checks(n)[5].error = "RecordHeader"
            /\ Checks(n)[6].upTo = BodyAt(n)
            /\ 6 \in Wrong(n) <=> Start[n + 1] > Objects.size
            /\ 6 \in Wrong(n) => Checks(n)[6].error = "RecordRange"
            /\ Checks(n)[7].upTo = BodyAt(n)
            /\ 7 \in Wrong(n) <=> file.format = "R2010" /\ ~r.mcFits
            /\ 7 \in Wrong(n) => Checks(n)[7].error = "RecordHeader"
            /\ Checks(n)[8].upTo = Start[n + 1]
            /\ 8 \in Wrong(n) <=> ~r.crc
            /\ 8 \in Wrong(n) => Checks(n)[8].error = "RecordCrc"
            /\ Checks(n)[9].upTo = Start[n + 1]
            /\ 9 \in Wrong(n) <=> r.handle = NoHandle
            /\ 9 \in Wrong(n) => Checks(n)[9].error = "RecordHeader"
<1> DEFINE C(c) == Checks(n)[c]
           r == Spelt(n)
           least == r.size + 2 + (IF file.format = "R2010" THEN 1 ELSE 0)
<1>1. Wrong(n) \in SUBSET (1..9) /\ \A c \in 1..9 : c \in Wrong(n) <=> C(c).error # "none"
  BY WrongFacts
<1>2. C(1) = Check(Start[n] + 4, "RecordSize", r.words > 2)
  BY CheckList
<1>3. C(2) = Check(McAt(n), "RecordSize", r.size = 0)
  BY CheckList
<1>4. C(3) = Check(McAt(n), "RecordRange", McAt(n) + least > Objects.size)
  BY CheckList
<1>5. C(4) = Check(McAt(n) + MaxMc, "RecordHeader", McOf(n) >= MaxMc /\ r.wide)
  BY CheckList
<1>6. C(5) = Check(McAt(n) + MaxMc + 1, "RecordHeader", McOf(n) > MaxMc)
  BY CheckList
<1>7. C(6) = Check(BodyAt(n), "RecordRange", Start[n + 1] > Objects.size)
  BY CheckList
<1>8. C(7) = Check(BodyAt(n), "RecordHeader", file.format = "R2010" /\ ~r.mcFits)
  BY CheckList
<1>9. C(8) = Check(Start[n + 1], "RecordCrc", ~r.crc)
  BY CheckList
<1>10. C(9) = Check(Start[n + 1], "RecordHeader", r.handle = NoHandle)
  BY CheckList
<1> HIDE DEF C, r, least
<1>11. /\ C(1).upTo = Start[n] + 4
       /\ 1 \in Wrong(n) <=> r.words > 2
       /\ 1 \in Wrong(n) => C(1).error = "RecordSize"
  BY <1>1, <1>2 DEF Check
<1>12. /\ C(2).upTo = McAt(n)
       /\ 2 \in Wrong(n) <=> r.size = 0
       /\ 2 \in Wrong(n) => C(2).error = "RecordSize"
  BY <1>1, <1>3 DEF Check
<1>13. /\ C(3).upTo = McAt(n)
       /\ 3 \in Wrong(n) <=> McAt(n) + least > Objects.size
       /\ 3 \in Wrong(n) => C(3).error = "RecordRange"
  BY <1>1, <1>4 DEF Check
<1>14. /\ C(4).upTo = McAt(n) + MaxMc
       /\ 4 \in Wrong(n) <=> McOf(n) >= MaxMc /\ r.wide
       /\ 4 \in Wrong(n) => C(4).error = "RecordHeader"
  BY <1>1, <1>5 DEF Check
<1>15. /\ C(5).upTo = McAt(n) + MaxMc + 1
       /\ 5 \in Wrong(n) <=> McOf(n) > MaxMc
       /\ 5 \in Wrong(n) => C(5).error = "RecordHeader"
  BY <1>1, <1>6 DEF Check
<1>16. /\ C(6).upTo = BodyAt(n)
       /\ 6 \in Wrong(n) <=> Start[n + 1] > Objects.size
       /\ 6 \in Wrong(n) => C(6).error = "RecordRange"
  BY <1>1, <1>7 DEF Check
<1>17. /\ C(7).upTo = BodyAt(n)
       /\ 7 \in Wrong(n) <=> file.format = "R2010" /\ ~r.mcFits
       /\ 7 \in Wrong(n) => C(7).error = "RecordHeader"
  BY <1>1, <1>8 DEF Check
<1>18. /\ C(8).upTo = Start[n + 1]
       /\ 8 \in Wrong(n) <=> ~r.crc
       /\ 8 \in Wrong(n) => C(8).error = "RecordCrc"
  BY <1>1, <1>9 DEF Check
<1>19. /\ C(9).upTo = Start[n + 1]
       /\ 9 \in Wrong(n) <=> r.handle = NoHandle
       /\ 9 \in Wrong(n) => C(9).error = "RecordHeader"
  BY <1>1, <1>10 DEF Check
<1>20. QED
  BY <1>1, <1>11, <1>12, <1>13, <1>14, <1>15, <1>16, <1>17, <1>18, <1>19, Zenon DEF C, r, least

LEMMA LeastIs ==
  ASSUME NEW S \in SUBSET Nat, NEW e \in S, \A f \in S : e <= f
  PROVE  Min(S) = e
<1> DEFINE m == Min(S)
<1>1. m \in S /\ \A f \in S : m <= f
  BY Zenon DEF Min
<1> HIDE DEF m
<1>2. m <= e /\ e <= m /\ m \in Nat /\ e \in Nat
  BY <1>1
<1>3. m = e
  BY <1>2
<1>4. QED
  BY <1>3 DEF m

LEMMA MinFacts ==
  ASSUME NEW S \in SUBSET Nat, S # {}
  PROVE  Min(S) \in S /\ \A f \in S : Min(S) <= f
<1>1. \E e \in S : \A f \in S : e <= f
  BY LeastMember
<1>2. QED
  BY <1>1, Zenon DEF Min

\* A record is refused for the first check that fails.
LEMMA RefusalIs ==
  ASSUME NEW n \in Nat, NEW c \in Wrong(n), \A b \in 1..9 : b < c => b \notin Wrong(n)
  PROVE  Refusal(n) = Checks(n)[c]
<1>1. Wrong(n) \in SUBSET (1..9)
  BY WrongFacts
<1>2. \A b \in Wrong(n) : c <= b
  BY <1>1
<1>3. Wrong(n) \in SUBSET Nat
  BY <1>1
<1>4. Min(Wrong(n)) = c
  BY <1>2, <1>3, LeastIs
<1>5. QED
  BY <1>4 DEF Refusal

----------------------------------------------------------------------------
(* The framer and the reading. *)

\* The framer is where a reading of the section has that record.
Spells(f) ==
  /\ Fewest(f.at, Prologue) <= Stream.prologue
  /\ \A n \in 0..(f.records - 1) : Wrong(n) = {}
  /\ f.stage # "Prologue" => f.start = Start[f.records]
  /\ f.stage = "Ms" => f.words < Spelt(f.records).words
  /\ f.stage \in {"Body", "Crc"} =>
       f.words = Spelt(f.records).words /\ f.size = Spelt(f.records).size

\* The framer in a section that the reading is of.
Reads(f) ==
  /\ FrameOk(file.stream, f) /\ f.format = file.format /\ f.total = Objects.size
  /\ Spells(f)

LEMMA ReadsFacts ==
  ASSUME file \in Files, NEW f, Reads(f)
  PROVE  /\ f \in FrameType /\ f.records \in Nat /\ f.at \in Nat /\ f.total \in Nat
         /\ f.total >= Prologue /\ f.at <= f.total /\ f.start \in Nat
         /\ file.stream \in StreamType /\ FrameOk(file.stream, f)
         /\ RecordAt(file.stream, f) = Spelt(f.records)
         /\ Start[0] = Prologue
<1>1. FrameOk(file.stream, f)
  BY DEF Reads
<1>2. f \in FrameType
  BY <1>1 DEF FrameOk
<1>3. QED
  BY <1>1, <1>2, FrameFields, FileFacts, SpeltAt, StartFacts DEF FrameOk

\* A record at its payload is one that the checks of its head let through.
LEMMA HeadRight ==
  ASSUME file \in Files, NEW f, Reads(f), f.stage \in {"Body", "Crc"}
  PROVE  LET n == f.records
         IN /\ f.start = Start[n] /\ f.start + f.msLen = McAt(n)
            /\ 1 \notin Wrong(n) /\ 2 \notin Wrong(n)
            /\ 3 \notin Wrong(n)
            /\ ~InMc(f) =>
                 /\ \A c \in 4..7 : c \notin Wrong(n)
                 /\ Payload(f) = McOf(n) + Spelt(n).size
                 /\ RecordEnd(f) = Start[n + 1]
            /\ InMc(f) =>
                 /\ f.at = McAt(n) + f.mcLen /\ f.mcLen < McOf(n) /\ McOf(n) = Spelt(n).mc
                 /\ f.mcLen = MaxMc => ~Spelt(n).wide
<1> DEFINE n == f.records
           r == Spelt(n)
<1>1. /\ n \in Nat /\ f.start = Start[n] /\ f.words = r.words /\ f.size = r.size
      /\ RecordAt(file.stream, f) = r /\ file.stream \in StreamType /\ FrameOk(file.stream, f)
      /\ f.total = Objects.size /\ f.format = file.format
  BY ReadsFacts DEF Reads, Spells
<1>2. /\ r.words \in Nat \ {0} /\ r.size \in Nat /\ r.mc \in Nat \ {0} /\ McOf(n) \in Nat
      /\ r.mcFits \in BOOLEAN /\ r.wide \in BOOLEAN
  BY <1>1, SpeltFacts
<1>3. /\ f \in FrameType /\ f.size \in Nat \ {0} /\ f.msLen = 2 * f.words /\ f.words \in 1..2
      /\ f.at = f.start + f.msLen + f.done + f.fieldLen
      /\ McFrame(file.stream, f)
      /\ IF InMc(f) THEN f.start + f.msLen + f.size + 3 <= f.total ELSE RecordEnd(f) <= f.total
      /\ IF f.stage = "Crc" THEN f.done = Payload(f) ELSE f.done < Payload(f) /\ f.fieldLen = 0
  BY <1>1, BodyFacts
<1>4. f.start \in Nat /\ f.mcLen \in 0..MaxMc /\ MaxMc \in Nat \ {0} /\ f.total \in Nat
  BY <1>3, FrameFields, FramerAssumption
<1>a. McAt(n) = Start[n] + 2 * r.words
  BY <1>1, Layout
<1>5. /\ McAt(n) \in Nat
      /\ BodyAt(n) = McAt(n) + McOf(n) /\ Start[n + 1] = BodyAt(n) + r.size + 2
  BY <1>1, Layout
<1> HIDE DEF n, r
<1>6. f.start + f.msLen = McAt(n)
  BY <1>1, <1>2, <1>3, <1>a
<1>7. McOf(n) = IF f.format = "R2010" THEN r.mc ELSE 0
  BY <1>1 DEF McOf, r
<1>8. /\ 1 \in Wrong(n) <=> r.words > 2
      /\ 2 \in Wrong(n) <=> r.size = 0
      /\ 3 \in Wrong(n) <=> McAt(n) + (r.size + 2 + (IF file.format = "R2010" THEN 1 ELSE 0)) > Objects.size
      /\ 4 \in Wrong(n) <=> McOf(n) >= MaxMc /\ r.wide
      /\ 5 \in Wrong(n) <=> McOf(n) > MaxMc
      /\ 6 \in Wrong(n) <=> Start[n + 1] > Objects.size
      /\ 7 \in Wrong(n) <=> file.format = "R2010" /\ ~r.mcFits
  BY <1>1, CheckIs DEF r
<1>9. 1 \notin Wrong(n) /\ 2 \notin Wrong(n)
  BY <1>1, <1>3, <1>8
<1>10. CASE InMc(f)
  <2>1. f.format = "R2010" /\ f.stage = "Body" /\ ~f.mcDone
    BY <1>10 DEF InMc
  <2>2. f.mcLen <= r.mc /\ f.mcDone = (f.mcLen = r.mc) /\ (f.mcLen = MaxMc => ~r.wide)
        /\ f.done = f.mcLen
    BY <1>1, <1>3, <2>1 DEF McFrame
  <2>3. f.fieldLen = 0 /\ f.start + f.msLen + f.size + 3 <= f.total
    BY <1>3, <1>10, <2>1
  <2>4. 3 \notin Wrong(n)
    <3>1. McAt(n) + f.size + 3 <= f.total
      BY <1>6, <2>3
    <3>2. McAt(n) + (r.size + 2 + 1) <= Objects.size
      BY <1>1, <1>2, <1>4, <1>5, <3>1
    <3>3. f.format = file.format
      BY <1>1
    <3>4. McAt(n) + (r.size + 2 + 1) \in Nat /\ Objects.size \in Nat
      BY <1>1, <1>2, <1>4, <1>5
    <3>5. ~(McAt(n) + (r.size + 2 + (IF file.format = "R2010" THEN 1 ELSE 0)) > Objects.size)
      BY <2>1, <3>2, <3>3, <3>4
    <3>6. QED
      BY <1>8, <3>5
  <2>5. f.at = McAt(n) + f.mcLen /\ f.mcLen < McOf(n) /\ McOf(n) = r.mc
    <3>1. f.at = f.start + f.msLen + f.mcLen + 0
      BY <1>3, <2>2, <2>3
    <3>2. f.at = McAt(n) + f.mcLen
      BY <1>4, <1>5, <1>6, <3>1
    <3>3. f.mcLen # r.mc
      BY <2>1, <2>2
    <3>4. f.mcLen < r.mc
      BY <1>2, <1>4, <2>2, <3>3
    <3>5. QED
      BY <1>7, <2>1, <3>2, <3>4
  <2>6. QED
    BY <1>1, <1>6, <1>9, <1>10, <2>2, <2>4, <2>5 DEF n, r
<1>11. CASE ~InMc(f)
  <2>1. RecordEnd(f) <= f.total
    BY <1>3, <1>11
  <2>2. f.format = "R2010" => f.mcLen = r.mc /\ r.mcFits /\ (f.mcLen = MaxMc => ~r.wide)
    <3>1. SUFFICES ASSUME f.format = "R2010" PROVE f.mcLen = r.mc /\ r.mcFits /\ (f.mcLen = MaxMc => ~r.wide)
      OBVIOUS
    <3>2. f.stage = "Crc" => f.mcDone
      <4>1. SUFFICES ASSUME f.stage = "Crc", ~f.mcDone PROVE FALSE
        OBVIOUS
      <4>2. f.done = f.mcLen /\ f.done = Payload(f)
        BY <1>1, <1>3, <3>1, <4>1 DEF McFrame
      <4>3. Payload(f) = f.mcLen + f.size
        BY <3>1 DEF Payload
      <4>4. QED
        BY <1>3, <1>4, <4>2, <4>3
    <3>3. f.mcDone
      BY <1>11, <3>1, <3>2 DEF InMc
    <3>4. QED
      BY <1>1, <1>3, <3>1, <3>3 DEF McFrame
  <2>3. Payload(f) = McOf(n) + r.size
    BY <1>1, <1>2, <1>7, <2>2 DEF Payload
  <2>4. RecordEnd(f) = Start[n + 1]
    BY <1>2, <1>5, <1>6, <2>3 DEF RecordEnd
  <2>5. 3 \notin Wrong(n)
    BY <1>1, <1>2, <1>4, <1>5, <1>7, <1>8, <2>1, <2>4
  <2>6. 6 \notin Wrong(n)
    BY <1>1, <1>2, <1>4, <1>5, <1>8, <2>1, <2>4
  <2>7. 4 \notin Wrong(n) /\ 5 \notin Wrong(n) /\ 7 \notin Wrong(n)
    BY <1>1, <1>2, <1>4, <1>7, <1>8, <2>2
  <2>8. \A c \in 4..7 : c \notin Wrong(n)
    BY <2>6, <2>7
  <2>9. QED
    BY <1>1, <1>6, <1>9, <1>11, <2>3, <2>4, <2>5, <2>8 DEF n, r
<1>12. QED
  BY <1>10, <1>11

\* Behind the prologue, which was right.
LEMMA Behind4 ==
  ASSUME file \in Files, NEW f, Reads(f), f.stage # "Prologue"
  PROVE  /\ f.start = Start[f.records] /\ Start[f.records] >= Prologue /\ f.start <= f.at
         /\ f.at >= Prologue /\ Stream.prologue >= Prologue
<1>1. f.start = Start[f.records] /\ Fewest(f.at, Prologue) <= Stream.prologue
  BY DEF Reads, Spells
<1>2. f.records \in Nat /\ f.start <= f.at /\ f.at \in Nat /\ f.start \in Nat
  BY ReadsFacts DEF FrameOk
<1>3. Start[f.records] >= Prologue /\ Start[f.records] \in Nat
  BY <1>2, StartFacts, StartMonotone
<1>4. f.at >= Prologue
  BY <1>1, <1>2, <1>3 DEF Prologue
<1>5. Stream.prologue >= Prologue
  BY <1>1, <1>2, <1>4 DEF Fewest, Prologue
<1>6. QED
  BY <1>1, <1>2, <1>3, <1>4, <1>5

\* The bytes framed do not tell yet what the record at hand is refused for,
\* nor are they all of it.
LEMMA NotYet ==
  ASSUME file \in Files, NEW f, Reads(f)
  PROVE  /\ Start[f.records + 1] > f.at
         /\ \A c \in Wrong(f.records) : Checks(f.records)[c].upTo > f.at
<1> DEFINE n == f.records
           r == Spelt(n)
<1>1. /\ n \in Nat /\ f.at \in Nat /\ f.start \in Nat /\ f \in FrameType
      /\ FrameOk(file.stream, f) /\ Start[0] = Prologue /\ f.stage \in Frames
  BY ReadsFacts, FrameFields
<1>2. /\ r.words \in Nat \ {0} /\ r.size \in Nat /\ r.mc \in Nat \ {0} /\ McOf(n) \in Nat
      /\ MaxMc \in Nat \ {0}
  BY <1>1, SpeltFacts, FramerAssumption
<1>3. /\ Start[n] \in Nat /\ McAt(n) \in Nat /\ BodyAt(n) \in Nat /\ Start[n + 1] \in Nat
      /\ BodyAt(n) = McAt(n) + McOf(n)
      /\ Start[n + 1] = BodyAt(n) + r.size + 2
      /\ McAt(n) >= Start[n] + 2
  BY <1>1, Layout
<1>4. McAt(n) = Start[n] + 2 * r.words
  BY <1>1, Layout
<1>5. /\ Wrong(n) \in SUBSET (1..9)
      /\ Checks(n)[1].upTo = Start[n] + 4
      /\ Checks(n)[2].upTo = McAt(n) /\ Checks(n)[3].upTo = McAt(n)
      /\ Checks(n)[4].upTo = McAt(n) + MaxMc /\ Checks(n)[5].upTo = McAt(n) + MaxMc + 1
      /\ Checks(n)[6].upTo = BodyAt(n) /\ Checks(n)[7].upTo = BodyAt(n)
      /\ Checks(n)[8].upTo = Start[n + 1] /\ Checks(n)[9].upTo = Start[n + 1]
      /\ 4 \in Wrong(n) => r.wide
  BY <1>1, CheckIs
<1> HIDE DEF n, r
<1>6. ASSUME f.at < McAt(n), f.at < Start[n] + 4
      PROVE  Start[n + 1] > f.at /\ \A c \in Wrong(n) : Checks(n)[c].upTo > f.at
  <2>1. \A c \in 1..9 : Checks(n)[c].upTo > f.at
    BY <1>1, <1>2, <1>3, <1>5, <1>6
  <2>2. QED
    BY <1>1, <1>2, <1>3, <1>5, <1>6, <2>1
<1>7. CASE f.stage = "Prologue"
  <2>1. n = 0 /\ f.at < Prologue
    BY <1>1, <1>7 DEF FrameOk, n
  <2>2. f.at < McAt(n) /\ f.at < Start[n] + 4
    BY <1>1, <1>3, <2>1 DEF Prologue
  <2>3. QED
    BY <1>6, <2>2 DEF n
<1>8. CASE f.stage \in {"Done", "Ended"}
  <2>1. f.start = f.at /\ f.start = Start[n]
    BY <1>1, <1>8, Behind4 DEF FrameOk, n
  <2>2. f.at < McAt(n) /\ f.at < Start[n] + 4
    BY <1>1, <1>3, <2>1
  <2>3. QED
    BY <1>6, <2>2 DEF n
<1>9. CASE f.stage = "Ms"
  <2>1. f.start = Start[n] /\ MsFrame(f)
    BY <1>1, <1>9, Behind4 DEF FrameOk, n
  <2>2. f.words < r.words
    BY <1>9 DEF Reads, Spells, r, n
  <2>3. f.at = f.start + f.msLen /\ f.words <= 1 /\ f.msLen = 2 * f.words + f.fieldLen
        /\ f.fieldLen \in 0..1 /\ f.words \in 0..2
    BY <1>1, <2>1, FrameFields DEF MsFrame
  <2>4. f.at < McAt(n)
    BY <1>1, <1>2, <1>4, <2>1, <2>2, <2>3
  <2>5. f.at < Start[n] + 4
    BY <1>1, <1>3, <2>1, <2>3
  <2>6. QED
    BY <1>6, <2>4, <2>5 DEF n
<1>10. CASE InMc(f)
  <2>1. f.stage = "Body"
    BY <1>10 DEF InMc
  <2>2. /\ 1 \notin Wrong(n) /\ 2 \notin Wrong(n) /\ 3 \notin Wrong(n)
        /\ f.at = McAt(n) + f.mcLen /\ f.mcLen < McOf(n)
        /\ f.mcLen = MaxMc => ~r.wide
    BY <1>10, <2>1, HeadRight DEF n, r
  <2>3. f.mcLen \in 0..MaxMc
    BY <1>1, FrameFields
  <2>4. 4 \in Wrong(n) => f.mcLen < MaxMc
    BY <1>2, <1>5, <2>2, <2>3
  <2>5. ASSUME NEW c \in Wrong(n) PROVE Checks(n)[c].upTo > f.at
    <3>1. c \in {4, 5, 6, 7, 8, 9}
      BY <1>5, <2>2, <2>5
    <3>2. QED
      BY <1>2, <1>3, <1>5, <2>2, <2>3, <2>4, <2>5, <3>1
  <2>6. Start[n + 1] > f.at
    BY <1>2, <1>3, <2>2, <2>3
  <2>7. QED
    BY <2>5, <2>6 DEF n
<1>11. CASE f.stage \in {"Body", "Crc"} /\ ~InMc(f)
  <2>1. /\ 1 \notin Wrong(n) /\ 2 \notin Wrong(n) /\ 3 \notin Wrong(n)
        /\ \A c \in 4..7 : c \notin Wrong(n)
        /\ RecordEnd(f) = Start[n + 1]
    BY <1>11, HeadRight DEF n
  <2>2. /\ f.at = f.start + f.msLen + f.done + f.fieldLen
        /\ Payload(f) \in Nat
        /\ IF f.stage = "Crc" THEN f.done = Payload(f) ELSE f.done < Payload(f) /\ f.fieldLen = 0
    BY <1>1, <1>11, BodyFacts, FileFacts
  <2>3. f.msLen \in Nat /\ f.done \in Nat /\ f.fieldLen \in 0..1
    BY <1>1, FrameFields
  <2>4. Start[n + 1] > f.at
    BY <1>1, <2>1, <2>2, <2>3 DEF RecordEnd
  <2>5. ASSUME NEW c \in Wrong(n) PROVE Checks(n)[c].upTo > f.at
    <3>1. c \in {8, 9}
      BY <1>5, <2>1, <2>5
    <3>2. QED
      BY <1>5, <2>4, <3>1
  <2>6. QED
    BY <2>4, <2>5 DEF n
<1>12. f.stage \in {"Prologue", "Ms", "Body", "Crc", "Done", "Ended"}
  BY <1>1 DEF Frames
<1>13. QED
  BY <1>7, <1>8, <1>9, <1>10, <1>11, <1>12

\* The records framed are those that stand, when the one at hand does not.
LEMMA CountIs ==
  ASSUME file \in Files, NEW f, Reads(f), NEW d \in Nat, f.at <= d, ~Stands(f.records, d)
  PROVE  Count(d) = f.records
<1> DEFINE n == f.records
           S == {m \in 0..Len(Stream.records) : ~Stands(m, d)}
<1>1. n \in Nat /\ f.at \in Nat /\ \A m \in 0..(n - 1) : Wrong(m) = {}
  BY ReadsFacts DEF Reads, Spells
<1>2. Len(Stream.records) \in Nat
  BY FileFacts DEF StreamType, Stream
<1>3. n <= Len(Stream.records)
  <2>1. SUFFICES ASSUME n > Len(Stream.records) PROVE FALSE
    BY <1>1, <1>2
  <2>2. Len(Stream.records) \in 0..(n - 1)
    BY <1>1, <1>2, <2>1
  <2>3. Spelt(Len(Stream.records)).size = 0
    BY <1>2, SpeltBehind
  <2>4. 2 \in Wrong(Len(Stream.records))
    BY <1>2, <2>3, CheckIs
  <2>5. QED
    BY <1>1, <2>2, <2>4
<1>4. ASSUME NEW m \in Nat, m < n PROVE Stands(m, d)
  <2>1. Wrong(m) = {}
    BY <1>1, <1>4
  <2>2. f.stage # "Prologue"
    <3>1. FrameOk(file.stream, f) /\ n # 0
      BY <1>1, <1>4, ReadsFacts
    <3>2. QED
      BY <3>1 DEF FrameOk
  <2>3. Start[n] <= f.at
    BY <2>2, Behind4
  <2>4. Start[m + 1] <= Start[n] /\ Start[m + 1] \in Nat /\ Start[n] \in Nat
    BY <1>1, <1>4, StartMonotone, StartFacts
  <2>5. Start[m + 1] <= d
    BY <1>1, <2>3, <2>4
  <2>6. QED
    BY <2>1, <2>5 DEF Stands
<1>5. n \in S /\ S \in SUBSET Nat
  BY <1>1, <1>2, <1>3
<1>6. ASSUME NEW m \in S PROVE n <= m
  <2>1. m \in Nat /\ ~Stands(m, d)
    BY <1>6
  <2>2. QED
    BY <1>1, <1>4, <2>1
<1> HIDE DEF S
<1>7. Min(S) = n
  BY <1>5, <1>6, LeastIs
<1>8. QED
  BY <1>7 DEF Count, S

\* All that was delivered is framed: the record at hand is neither whole nor
\* refused.
LEMMA CountAll ==
  ASSUME file \in Files, NEW f, Reads(f)
  PROVE  Count(f.at) = f.records /\ ~RefusedIn(f.records, f.at)
<1>1. f.at \in Nat /\ f.records \in Nat
  BY ReadsFacts
<1>2. Start[f.records + 1] > f.at /\ Start[f.records + 1] \in Nat
  BY <1>1, NotYet, StartFacts
<1>3. ~Stands(f.records, f.at)
  BY <1>1, <1>2 DEF Stands
<1>4. Count(f.at) = f.records
  BY <1>1, <1>3, CountIs
<1>a. Wrong(f.records) \in SUBSET (1..9)
  BY <1>1, WrongFacts
<1>5. ASSUME Wrong(f.records) # {} PROVE Refusal(f.records).upTo > f.at
  <2> DEFINE W == Wrong(f.records)
  <2>1. W \in SUBSET Nat
    BY <1>a
  <2> HIDE DEF W
  <2>2. Min(W) \in W
    BY <1>5, <2>1, MinFacts DEF W
  <2>3. Refusal(f.records) = Checks(f.records)[Min(W)]
    BY DEF Refusal, W
  <2>4. QED
    BY <2>2, <2>3, NotYet DEF W
<1>6. ~RefusedIn(f.records, f.at)
  <2>1. SUFFICES ASSUME RefusedIn(f.records, f.at) PROVE FALSE
    OBVIOUS
  <2>2. Wrong(f.records) # {} /\ Refusal(f.records).upTo <= f.at
    BY <2>1 DEF RefusedIn
  <2>3. PICK c \in Wrong(f.records) : Refusal(f.records) = Checks(f.records)[c]
    <3> DEFINE W == Wrong(f.records)
    <3>1. W \in SUBSET Nat /\ W # {}
      BY <1>a, <2>2
    <3> HIDE DEF W
    <3>2. Min(W) \in W
      BY <3>1, MinFacts
    <3>3. QED
      BY <3>2 DEF Refusal, W
  <2>4. Checks(f.records)[c].upTo \in Nat
    <3>1. /\ Start[f.records] \in Nat /\ McAt(f.records) \in Nat /\ BodyAt(f.records) \in Nat
          /\ Start[f.records + 1] \in Nat /\ MaxMc \in Nat
      BY <1>1, Layout, FramerAssumption
    <3> DEFINE C(b) == Checks(f.records)[b].upTo
    <3>2. /\ C(1) = Start[f.records] + 4 /\ C(2) = McAt(f.records) /\ C(3) = McAt(f.records)
          /\ C(4) = McAt(f.records) + MaxMc /\ C(5) = McAt(f.records) + MaxMc + 1
          /\ C(6) = BodyAt(f.records) /\ C(7) = BodyAt(f.records)
          /\ C(8) = Start[f.records + 1] /\ C(9) = Start[f.records + 1]
      BY <1>1, CheckIs
    <3>3. c \in 1..9
      BY <1>a
    <3> HIDE DEF C
    <3>4. C(c) \in Nat
      BY <3>1, <3>2, <3>3
    <3>5. QED
      BY <3>4 DEF C
  <2>5. QED
    BY <1>1, <1>5, <2>2, <2>3, <2>4
<1>7. QED
  BY <1>4, <1>6

\* What a call makes of the records, and of the payload handed out.
Stepped(f, r) ==
  LET n == f.records
  IN IF r.event = "Object"
     THEN /\ f.stage = "Crc" /\ r.frame.records = n + 1 /\ r.frame.done = 0
          /\ f.start = Start[n] /\ f.size = Spelt(n).size
          /\ f.done = McOf(n) + Spelt(n).size
     ELSE /\ r.frame.records = n
          /\ r.frame.done = IF r.event = "Payload" THEN f.done + r.taken ELSE f.done

LEMMA SpellsSame ==
  ASSUME NEW f, Spells(f), f.stage # "Prologue", NEW g, g.stage \in {"Ms", "Body", "Crc"},
         g.records = f.records, g.start = f.start,
         Fewest(g.at, Prologue) <= Stream.prologue,
         g.stage = "Ms" => g.words < Spelt(g.records).words,
         g.stage \in {"Body", "Crc"} =>
           g.words = Spelt(g.records).words /\ g.size = Spelt(g.records).size
  PROVE  Spells(g)
BY DEF Spells

LEMMA PrologueHeld ==
  ASSUME file \in Files, NEW f, Reads(f), f.stage # "Prologue"
  PROVE  \A m \in Nat : Fewest(m, Prologue) <= Stream.prologue
<1>1. Stream.prologue >= Prologue /\ Stream.prologue \in Nat
  BY Behind4, FileFacts DEF StreamType, Stream, Prologue
<1>2. QED
  BY <1>1 DEF Fewest, Prologue

\* The record behind n others that are right.
LEMMA NextSpells ==
  ASSUME file \in Files, NEW f \in FrameType, f.at = Start[f.records],
         \A n \in 0..(f.records - 1) : Wrong(n) = {},
         Fewest(f.at, Prologue) <= Stream.prologue
  PROVE  LET g == NextRecord(f)
         IN Spells(g) /\ g.records = f.records /\ g.done = 0
<1> DEFINE b == Begin(f.format, f.total)
           g == NextRecord(f)
<1>1. f.format \in Formats /\ f.total \in Nat /\ f.at \in Nat /\ f.records \in Nat
  BY FrameFields
<1>2. b \in FrameType /\ NoRecord(b)
  BY <1>1, BeginType
<1>3. g = [b EXCEPT !.at = f.at, !.records = f.records, !.start = f.at,
                    !.stage = IF f.at = f.total THEN "Done" ELSE "Ms"]
  BY Zenon DEF NextRecord
<1> HIDE DEF b, g
<1>4. /\ g.at = f.at /\ g.start = f.at /\ g.records = f.records /\ g.words = 0 /\ g.done = 0
      /\ g.stage \in {"Done", "Ms"}
  BY <1>1, <1>2, <1>3 DEF FrameType, NoRecord
<1>5. Spelt(f.records).words \in Nat \ {0}
  BY <1>1, SpeltFacts
<1>6. Spells(g)
  BY <1>4, <1>5 DEF Spells
<1>7. QED
  BY <1>4, <1>6 DEF g

LEMMA PrologueReads ==
  ASSUME file \in Files, NEW f, Reads(f), f.stage = "Prologue",
         NEW n \in Nat \ {0}, FeedPrologue(file.stream, f, n).error = "none"
  PROVE  LET r == FeedPrologue(file.stream, f, n) IN Spells(r.frame) /\ Stepped(f, r)
<1> DEFINE k == Fewest(n, Prologue - f.at)
           g == [f EXCEPT !.at = @ + k]
           h == IF g.at = Prologue THEN NextRecord(g) ELSE g
           s == file.stream
<1>1. /\ f \in FrameType /\ f.at \in Nat /\ f.at < Prologue /\ f.records = 0 /\ NoRecord(f)
      /\ Start[0] = Prologue
  BY ReadsFacts DEF FrameOk
<1>2. k \in 1..n /\ k <= Prologue - f.at
  BY <1>1 DEF Fewest, Prologue
<1>3. FeedPrologue(s, f, n) = IF g.at > s.prologue THEN Refuses(f, "ObjectPrologue")
                              ELSE Takes(h, k, "Framing")
  BY Zenon DEF FeedPrologue
<1> HIDE DEF k, g, h
<1>4. FeedPrologue(s, f, n) = Takes(h, k, "Framing") /\ ~(g.at > s.prologue)
  BY <1>3 DEF Refuses
<1>5. /\ g \in FrameType /\ g.at = f.at + k /\ g.records = 0 /\ g.done = 0 /\ f.done = 0
      /\ g.stage = "Prologue"
  BY <1>1, <1>2 DEF FrameType, NoRecord, g
<1>6. Fewest(g.at, Prologue) <= Stream.prologue
  <2>1. g.at \in Nat /\ s.prologue \in Nat /\ g.at <= Prologue
    BY <1>1, <1>2, <1>5, FileFacts DEF StreamType, Prologue
  <2>2. QED
    BY <1>4, <2>1 DEF Fewest, Prologue, Stream
<1>7. Spells(h) /\ h.records = 0 /\ h.done = 0
  <2>1. CASE g.at = Prologue
    <3>1. \A m \in 0..(g.records - 1) : Wrong(m) = {}
      BY <1>5
    <3>2. QED
      BY <1>1, <1>5, <1>6, <2>1, <3>1, NextSpells DEF h
  <2>2. CASE g.at # Prologue
    BY <1>5, <1>6, <2>2 DEF Spells, h
  <2>3. QED
    BY <2>1, <2>2
<1>8. QED
  BY <1>1, <1>4, <1>5, <1>7 DEF Takes, Stepped

LEMMA MsReads ==
  ASSUME file \in Files, NEW f, Reads(f), f.stage = "Ms",
         NEW n \in Nat \ {0}, FeedMs(file.stream, f, n).error = "none"
  PROVE  LET r == FeedMs(file.stream, f, n) IN Spells(r.frame) /\ Stepped(f, r)
<1> DEFINE s     == file.stream
           r     == RecordAt(s, f)
           k     == Fewest(n, 2 - f.fieldLen)
           some  == [f EXCEPT !.msLen = @ + k, !.summed = @ + k, !.at = @ + k,
                              !.fieldLen = (@ + k) % 2]
           word  == [some EXCEPT !.words = @ + 1]
           whole == [word EXCEPT !.size = r.size, !.stage = "Body"]
<1>1. /\ f \in FrameType /\ f.at \in Nat /\ f.fieldLen \in 0..1 /\ f.words \in 0..2
      /\ r = Spelt(f.records) /\ f.records \in Nat
  BY ReadsFacts, FrameFields
<1>2. r.words \in Nat \ {0} /\ f.words < r.words /\ Spells(f)
  BY <1>1, SpeltFacts DEF Reads, Spells
<1>3. k \in 1..n /\ k <= 2 - f.fieldLen
  BY <1>1 DEF Fewest
<1>4. FeedMs(s, f, n) =
        IF f.fieldLen + k < 2 THEN Takes(some, k, "Framing")
        ELSE IF word.words < r.words
        THEN IF word.words = 2 THEN Refuses(f, "RecordSize") ELSE Takes(word, k, "Framing")
        ELSE IF r.size = 0 THEN Refuses(f, "RecordSize")
        ELSE IF MsFits(whole) THEN Takes(whole, k, "Framing")
        ELSE Refuses(f, "RecordRange")
  BY Zenon DEF FeedMs
<1> HIDE DEF k, r, some, word, whole
<1>5. /\ some.words = f.words /\ some.stage = "Ms" /\ some.records = f.records
      /\ some.start = f.start /\ some.done = f.done /\ some.at = f.at + k
  BY <1>1 DEF FrameType, some
<1>6. /\ word.words = f.words + 1 /\ word.stage = "Ms" /\ word.records = f.records
      /\ word.start = f.start /\ word.done = f.done /\ word.at = f.at + k
  BY <1>1 DEF FrameType, some, word
<1>7. /\ whole.words = f.words + 1 /\ whole.stage = "Body" /\ whole.records = f.records
      /\ whole.start = f.start /\ whole.done = f.done /\ whole.at = f.at + k
      /\ whole.size = r.size
  BY <1>1 DEF FrameType, some, word, whole
<1>8. Fewest(f.at + k, Prologue) <= Stream.prologue
  BY <1>1, <1>3, PrologueHeld
<1>9. Spells(some)
  BY <1>1, <1>2, <1>5, <1>8, SpellsSame
<1>10. word.words < r.words => Spells(word)
  BY <1>1, <1>2, <1>6, <1>8, SpellsSame
<1>11. ~(word.words < r.words) => Spells(whole)
  <2>1. SUFFICES ASSUME ~(word.words < r.words) PROVE Spells(whole)
    OBVIOUS
  <2>2. f.words + 1 = r.words
    BY <1>1, <1>2, <1>6, <2>1
  <2>3. QED
    BY <1>1, <1>2, <1>7, <1>8, <2>2, SpellsSame
<1>12. CASE f.fieldLen + k < 2
  BY <1>4, <1>5, <1>9, <1>12 DEF Takes, Stepped
<1>13. CASE ~(f.fieldLen + k < 2) /\ word.words < r.words
  BY <1>4, <1>6, <1>10, <1>13 DEF Takes, Refuses, Stepped
<1>14. CASE ~(f.fieldLen + k < 2) /\ ~(word.words < r.words)
  BY <1>4, <1>7, <1>11, <1>14 DEF Takes, Refuses, Stepped
<1>15. QED
  BY <1>12, <1>13, <1>14

LEMMA McReads ==
  ASSUME file \in Files, NEW f, Reads(f), InMc(f),
         NEW n \in Nat \ {0}, FeedMc(file.stream, f, n).error = "none"
  PROVE  LET r == FeedMc(file.stream, f, n) IN Spells(r.frame) /\ Stepped(f, r)
<1> DEFINE s == file.stream
           r == RecordAt(s, f)
           k == Fewest(n, r.mc - f.mcLen)
           g == [f EXCEPT !.mcLen = @ + k, !.done = @ + k, !.summed = @ + k, !.at = @ + k,
                          !.mcDone = f.mcLen + k = r.mc]
<1>1. /\ f \in FrameType /\ f.at \in Nat /\ f.done \in Nat /\ r = Spelt(f.records)
      /\ f.records \in Nat /\ f.mcLen \in Nat /\ f.stage = "Body"
  BY ReadsFacts, FrameFields DEF InMc
<1>2. r.mc \in Nat /\ f.mcLen < r.mc /\ Spells(f)
  BY <1>1, HeadRight, SpeltFacts DEF Reads
<1>3. k \in 1..n
  BY <1>1, <1>2 DEF Fewest
<1>4. FeedMc(s, f, n) =
        IF g.mcLen > MaxMc \/ (g.mcLen = MaxMc /\ r.wide) THEN Refuses(f, "RecordHeader")
        ELSE IF g.mcDone /\ RecordEnd(g) > g.total THEN Refuses(f, "RecordRange")
        ELSE IF g.mcDone /\ ~r.mcFits THEN Refuses(f, "RecordHeader")
        ELSE Takes(g, k, "Payload")
  BY Zenon DEF FeedMc
<1> HIDE DEF k, r, g
<1>5. FeedMc(s, f, n) = Takes(g, k, "Payload")
  BY <1>4 DEF Refuses
<1>6. /\ g.records = f.records /\ g.start = f.start /\ g.words = f.words /\ g.size = f.size
      /\ g.stage = "Body" /\ g.at = f.at + k /\ g.done = f.done + k
  BY <1>1 DEF FrameType, g
<1>7. Fewest(f.at + k, Prologue) <= Stream.prologue
  BY <1>1, <1>3, PrologueHeld
<1>8. f.words = Spelt(f.records).words /\ f.size = Spelt(f.records).size
  BY <1>1, <1>2 DEF Spells
<1>9. Spells(g)
  BY <1>1, <1>2, <1>6, <1>7, <1>8, SpellsSame
<1>10. QED
  BY <1>5, <1>6, <1>9 DEF Takes, Stepped

LEMMA BodyReads ==
  ASSUME file \in Files, NEW f, Reads(f), f.stage = "Body", ~InMc(f), NEW n \in Nat \ {0}
  PROVE  LET r == FeedBody(f, n) IN Spells(r.frame) /\ Stepped(f, r)
<1> DEFINE k == Fewest(n, Payload(f) - f.done)
           g == [f EXCEPT !.done = @ + k, !.summed = @ + k, !.at = @ + k]
           h == IF g.done = Payload(g) THEN [g EXCEPT !.stage = "Crc"] ELSE g
<1>1. /\ f \in FrameType /\ f.at \in Nat /\ f.done \in Nat /\ Payload(f) \in Nat /\ f.done < Payload(f)
      /\ Spells(f)
  BY ReadsFacts, FrameFields, BodyFacts DEF Reads
<1>2. k \in 1..n
  BY <1>1 DEF Fewest
<1>3. FeedBody(f, n) = Takes(h, k, "Payload")
  BY Zenon DEF FeedBody
<1> HIDE DEF k
<1>4. /\ g \in FrameType /\ g.records = f.records /\ g.start = f.start /\ g.words = f.words
      /\ g.size = f.size /\ g.stage = "Body" /\ g.at = f.at + k /\ g.done = f.done + k
  <2>1. f.done + k \in Nat /\ f.summed + k \in Nat /\ f.at + k \in Nat
    BY <1>1, <1>2, FrameFields
  <2>2. QED
    BY <1>1, <2>1 DEF FrameType
<1> HIDE DEF g
<1>5. /\ h.records = f.records /\ h.start = f.start /\ h.words = f.words
      /\ h.size = f.size /\ h.stage \in {"Body", "Crc"} /\ h.at = f.at + k /\ h.done = f.done + k
  BY <1>4 DEF FrameType
<1> HIDE DEF h
<1>6. Fewest(f.at + k, Prologue) <= Stream.prologue
  BY <1>1, <1>2, PrologueHeld
<1>7. f.words = Spelt(f.records).words /\ f.size = Spelt(f.records).size
  BY <1>1 DEF Spells
<1>8. Spells(h)
  BY <1>1, <1>5, <1>6, <1>7, SpellsSame
<1>9. QED
  BY <1>3, <1>5, <1>8 DEF Takes, Stepped

LEMMA CrcReads ==
  ASSUME file \in Files, NEW f, Reads(f), f.stage = "Crc",
         NEW n \in Nat \ {0}, FeedCrc(file.stream, f, n).error = "none"
  PROVE  LET r == FeedCrc(file.stream, f, n) IN Spells(r.frame) /\ Stepped(f, r)
<1> DEFINE s == file.stream
           m == f.records
           r == RecordAt(s, f)
           k == Fewest(n, 2 - f.fieldLen)
           g == [f EXCEPT !.at = @ + k, !.fieldLen = (@ + k) % 2]
           h == [g EXCEPT !.records = @ + 1]
<1>1. /\ f \in FrameType /\ f.at \in Nat /\ f.fieldLen \in 0..1 /\ m \in Nat
      /\ r = Spelt(m) /\ Spells(f) /\ FrameOk(s, f) /\ s \in StreamType
  BY ReadsFacts, FrameFields DEF Reads
<1>2. /\ Payload(f) \in Nat /\ f.done = Payload(f) /\ f.summed = f.msLen + f.done
      /\ f.at = f.start + f.msLen + f.done + f.fieldLen /\ ~InMc(f)
  BY <1>1, BodyFacts DEF InMc
<1>3. k \in 1..n /\ k <= 2 - f.fieldLen
  BY <1>1 DEF Fewest
<1>4. FeedCrc(s, f, n) =
        IF f.fieldLen + k < 2 THEN Takes(g, k, "Framing")
        ELSE IF ~(r.crc /\ f.summed = f.msLen + Payload(f)) THEN Refuses(f, "RecordCrc")
        ELSE IF r.handle = NoHandle THEN Refuses(f, "RecordHeader")
        ELSE Takes(NextRecord(h), k, "Object")
  BY Zenon DEF FeedCrc
<1>5. /\ f.start = Start[m] /\ f.words = Spelt(m).words /\ f.size = Spelt(m).size
  BY <1>1 DEF Spells
<1>6. /\ Wrong(m) \in SUBSET (1..9)
      /\ \A c \in 1..7 : c \notin Wrong(m)
      /\ Payload(f) = McOf(m) + Spelt(m).size
      /\ RecordEnd(f) = Start[m + 1]
  <2>1. /\ 1 \notin Wrong(m) /\ 2 \notin Wrong(m) /\ 3 \notin Wrong(m)
        /\ \A c \in 4..7 : c \notin Wrong(m)
        /\ Payload(f) = McOf(m) + Spelt(m).size
        /\ RecordEnd(f) = Start[m + 1]
    BY <1>2, HeadRight
  <2>2. QED
    BY <1>1, <2>1, WrongFacts
<1>7. (8 \in Wrong(m) <=> ~Spelt(m).crc) /\ (9 \in Wrong(m) <=> Spelt(m).handle = NoHandle)
  BY <1>1, CheckIs
<1> HIDE DEF k, r, g, h, m
<1>8. (f.fieldLen + k) % 2 \in 0..1 /\ f.at + k \in Nat
  BY <1>1, <1>3
<1>9. /\ g \in FrameType /\ g.records = m /\ g.start = f.start /\ g.words = f.words
      /\ g.size = f.size /\ g.stage = "Crc" /\ g.at = f.at + k /\ g.done = f.done
  BY <1>1, <1>8 DEF FrameType, g, m
<1>10. h \in FrameType /\ h.records = m + 1 /\ h.at = f.at + k
  BY <1>1, <1>9 DEF FrameType, h
<1>11. Fewest(f.at + k, Prologue) <= Stream.prologue
  BY <1>1, <1>3, PrologueHeld
<1>12. CASE f.fieldLen + k < 2
  <2>1. Spells(g)
    BY <1>1, <1>5, <1>9, <1>11, SpellsSame DEF m
  <2>2. QED
    BY <1>4, <1>9, <1>12, <2>1 DEF Takes, Stepped, m
<1>13. CASE ~(f.fieldLen + k < 2)
  <2>1. r.crc /\ r.handle # NoHandle /\ FeedCrc(s, f, n) = Takes(NextRecord(h), k, "Object")
    BY <1>4, <1>13 DEF Refuses
  <2>2. Wrong(m) = {}
    <3>1. 8 \notin Wrong(m) /\ 9 \notin Wrong(m)
      BY <1>1, <1>7, <2>1
    <3>2. QED
      BY <1>6, <3>1
  <2>3. \A i \in 0..(h.records - 1) : Wrong(i) = {}
    <3>1. \A i \in 0..(m - 1) : Wrong(i) = {}
      BY <1>1 DEF Spells, m
    <3>2. QED
      BY <1>1, <1>10, <2>2, <3>1
  <2>4. h.at = Start[h.records]
    <3>1. f.fieldLen + k = 2
      BY <1>1, <1>3, <1>13
    <3>2. f.start \in Nat /\ f.msLen \in Nat
      BY <1>1, FrameFields
    <3>3. f.at + k = RecordEnd(f)
      BY <1>1, <1>2, <1>3, <3>1, <3>2 DEF RecordEnd
    <3>4. QED
      BY <1>6, <1>10, <3>3
  <2> DEFINE e == NextRecord(h)
  <2>5. Spells(e) /\ e.records = h.records /\ e.done = 0
    BY <1>10, <1>11, <2>3, <2>4, NextSpells
  <2> HIDE DEF e
  <2>6. FeedCrc(s, f, n) = Takes(e, k, "Object")
    BY <2>1 DEF e
  <2>7. QED
    BY <1>2, <1>5, <1>6, <1>10, <2>5, <2>6 DEF Takes, Stepped, m
<1>14. QED
  BY <1>12, <1>13

LEMMA FeedReads ==
  ASSUME file \in Files, NEW f, Reads(f), NEW n \in Nat \ {0}, f.at + n <= f.total,
         FrameFeed(file.stream, f, n).error = "none"
  PROVE  LET r == FrameFeed(file.stream, f, n) IN Reads(r.frame) /\ Stepped(f, r)
<1> DEFINE s == file.stream
           r == FrameFeed(s, f, n)
<1>1. f.stage \in Frames
  BY ReadsFacts, FrameFields
<1>2. Spells(r.frame) /\ Stepped(f, r)
  <2>1. CASE f.stage = "Prologue"
    BY <2>1, PrologueReads DEF FrameFeed, InMc
  <2>2. CASE f.stage = "Ms"
    BY <2>2, MsReads DEF FrameFeed, InMc
  <2>3. CASE InMc(f)
    BY <2>3, McReads DEF FrameFeed, InMc
  <2>4. CASE f.stage = "Body" /\ ~InMc(f)
    BY <2>4, BodyReads DEF FrameFeed, InMc
  <2>5. CASE f.stage = "Crc"
    BY <2>5, CrcReads DEF FrameFeed, InMc
  <2>6. CASE f.stage \in {"Done", "Ended"}
    BY <2>6 DEF FrameFeed, InMc, Refuses
  <2>7. QED
    BY <1>1, <2>1, <2>2, <2>3, <2>4, <2>5, <2>6 DEF Frames
<1>3. Framed(s, f, n, r)
  BY ReadsFacts, FrameFeedOk
<1> HIDE DEF r
<1>4. Reads(r.frame)
  BY <1>2, <1>3 DEF Reads, Framed
<1>5. QED
  BY <1>2, <1>4 DEF r

\* A record refused for its first failing check, whose bytes are there.
LEMMA RefusedFor ==
  ASSUME NEW n \in Nat, NEW d \in Nat, NEW c \in Wrong(n), \A b \in 1..9 : b < c => b \notin Wrong(n),
         NEW e, Checks(n)[c].error = e, Checks(n)[c].upTo <= d
  PROVE  RefusedIn(n, d) /\ Refusal(n).error = e
<1>1. Refusal(n) = Checks(n)[c]
  BY RefusalIs
<1>2. Wrong(n) # {}
  OBVIOUS
<1>3. QED
  BY <1>1, <1>2 DEF RefusedIn

LEMMA PrologueRefused ==
  ASSUME file \in Files, NEW f, Reads(f), f.stage = "Prologue", NEW n \in Nat \ {0},
         NEW d \in Nat, f.at + n <= d, FeedPrologue(file.stream, f, n).error # "none"
  PROVE  /\ FeedPrologue(file.stream, f, n).error = "ObjectPrologue"
         /\ Fewest(d, Prologue) > Stream.prologue
<1> DEFINE k == Fewest(n, Prologue - f.at)
           g == [f EXCEPT !.at = @ + k]
           h == IF g.at = Prologue THEN NextRecord(g) ELSE g
           s == file.stream
<1>1. f \in FrameType /\ f.at \in Nat /\ f.at < Prologue /\ s.prologue \in Nat
  <2>1. f \in FrameType /\ f.at \in Nat /\ f.at < Prologue
    BY ReadsFacts DEF FrameOk
  <2>2. s.prologue \in Nat
    BY FileFacts DEF StreamType, Prologue
  <2>3. QED
    BY <2>1, <2>2
<1>2. k \in 1..n /\ k <= Prologue - f.at
  BY <1>1 DEF Fewest, Prologue
<1>3. FeedPrologue(s, f, n) = IF g.at > s.prologue THEN Refuses(f, "ObjectPrologue")
                              ELSE Takes(h, k, "Framing")
  BY Zenon DEF FeedPrologue
<1> HIDE DEF k, g, h
<1>4. FeedPrologue(s, f, n) = Refuses(f, "ObjectPrologue") /\ g.at > s.prologue
  BY <1>3 DEF Takes
<1>5. g.at = f.at + k
  BY <1>1 DEF FrameType, g
<1>6. Fewest(d, Prologue) > s.prologue
  BY <1>1, <1>2, <1>4, <1>5 DEF Fewest, Prologue
<1>7. QED
  BY <1>4, <1>6 DEF Refuses, Stream

LEMMA MsRefused ==
  ASSUME file \in Files, NEW f, Reads(f), f.stage = "Ms", NEW n \in Nat \ {0},
         NEW d \in Nat, f.at + n <= d, FeedMs(file.stream, f, n).error # "none"
  PROVE  RefusedIn(f.records, d) /\ Refusal(f.records).error = FeedMs(file.stream, f, n).error
<1> DEFINE s     == file.stream
           m     == f.records
           r     == RecordAt(s, f)
           k     == Fewest(n, 2 - f.fieldLen)
           some  == [f EXCEPT !.msLen = @ + k, !.summed = @ + k, !.at = @ + k,
                              !.fieldLen = (@ + k) % 2]
           word  == [some EXCEPT !.words = @ + 1]
           whole == [word EXCEPT !.size = r.size, !.stage = "Body"]
<1>1. /\ f \in FrameType /\ f.at \in Nat /\ f.fieldLen \in 0..1 /\ f.words \in 0..2
      /\ r = Spelt(m) /\ m \in Nat /\ MsFrame(f) /\ f.start \in Nat /\ f.total \in Nat
      /\ f.format = file.format /\ f.total = Objects.size /\ f.msLen \in 0..4
  BY ReadsFacts, FrameFields DEF Reads, FrameOk
<1>2. /\ r.words \in Nat \ {0} /\ f.words < r.words /\ f.start = Start[m] /\ r.size \in Nat
  BY <1>1, SpeltFacts DEF Reads, Spells
<1>3. k \in 1..n /\ k <= 2 - f.fieldLen
  BY <1>1 DEF Fewest
<1>4. FeedMs(s, f, n) =
        IF f.fieldLen + k < 2 THEN Takes(some, k, "Framing")
        ELSE IF word.words < r.words
        THEN IF word.words = 2 THEN Refuses(f, "RecordSize") ELSE Takes(word, k, "Framing")
        ELSE IF r.size = 0 THEN Refuses(f, "RecordSize")
        ELSE IF MsFits(whole) THEN Takes(whole, k, "Framing")
        ELSE Refuses(f, "RecordRange")
  BY Zenon DEF FeedMs
<1>5. /\ Wrong(m) \in SUBSET (1..9)
      /\ Checks(m)[1].upTo = Start[m] + 4
      /\ Checks(m)[2].upTo = McAt(m) /\ Checks(m)[3].upTo = McAt(m)
      /\ 1 \in Wrong(m) <=> r.words > 2
      /\ 2 \in Wrong(m) <=> r.size = 0
      /\ 3 \in Wrong(m) <=>
           McAt(m) + (r.size + 2 + (IF file.format = "R2010" THEN 1 ELSE 0)) > Objects.size
      /\ 1 \in Wrong(m) => Checks(m)[1].error = "RecordSize"
      /\ 2 \in Wrong(m) => Checks(m)[2].error = "RecordSize"
      /\ 3 \in Wrong(m) => Checks(m)[3].error = "RecordRange"
  BY <1>1, CheckIs
<1>6. McAt(m) = Start[m] + 2 * r.words
  BY <1>1, Layout
<1>7. McAt(m) \in Nat
  BY <1>1, Layout
<1> HIDE DEF k, r, some, word, whole, m
<1>8. word.words = f.words + 1
  BY <1>1 DEF FrameType, some, word
<1>9. /\ whole.start = f.start /\ whole.msLen = f.msLen + k /\ whole.size = r.size
      /\ whole.total = f.total /\ whole.format = f.format /\ whole.mcLen = 0
  BY <1>1 DEF FrameType, MsFrame, some, word, whole
<1>10. f.fieldLen + k = 2 /\ f.words <= 1
  BY <1>1, <1>3, <1>4 DEF Takes, MsFrame
<1>11. f.at + k = f.start + 2 * (f.words + 1) /\ f.start + (f.msLen + k) = f.at + k
  BY <1>1, <1>2, <1>3, <1>10 DEF MsFrame
<1>12. f.at + k <= d
  BY <1>1, <1>3
<1>13. CASE f.words + 1 < r.words
  <2>1. f.words + 1 = 2 /\ FeedMs(s, f, n) = Refuses(f, "RecordSize")
    BY <1>4, <1>8, <1>10, <1>13 DEF Takes
  <2>2. 1 \in Wrong(m)
    BY <1>2, <1>5, <1>13, <2>1
  <2>3. Checks(m)[1].upTo <= d
    BY <1>1, <1>2, <1>5, <1>11, <1>12, <2>1
  <2>4. \A b \in 1..9 : b < 1 => b \notin Wrong(m)
    OBVIOUS
  <2>5. RefusedIn(m, d) /\ Refusal(m).error = "RecordSize"
    BY <1>1, <1>5, <2>2, <2>3, <2>4, RefusedFor DEF m
  <2>6. QED
    BY <2>1, <2>5 DEF Refuses, m
<1>14. CASE ~(f.words + 1 < r.words)
  <2>1. f.words + 1 = r.words
    BY <1>1, <1>2, <1>14
  <2>2. McAt(m) = f.at + k
    BY <1>2, <1>6, <1>11, <2>1
  <2>3. 1 \notin Wrong(m)
    BY <1>1, <1>2, <1>5, <1>10, <2>1
  <2>4. CASE r.size = 0
    <3>1. FeedMs(s, f, n) = Refuses(f, "RecordSize")
      BY <1>4, <1>8, <1>10, <1>14, <2>4
    <3>2. 2 \in Wrong(m) /\ \A b \in 1..9 : b < 2 => b \notin Wrong(m)
      BY <1>5, <2>3, <2>4
    <3>3. Checks(m)[2].upTo <= d
      BY <1>5, <1>12, <2>2
    <3>4. RefusedIn(m, d) /\ Refusal(m).error = "RecordSize"
      BY <1>1, <1>5, <3>2, <3>3, RefusedFor DEF m
    <3>5. QED
      BY <3>1, <3>4 DEF Refuses, m
  <2>5. CASE r.size # 0
    <3>1. ~MsFits(whole) /\ FeedMs(s, f, n) = Refuses(f, "RecordRange")
      BY <1>4, <1>8, <1>10, <1>14, <2>5 DEF Takes
    <3>2. whole.start + whole.msLen = McAt(m)
      BY <1>9, <1>11, <2>2
    <3>3. CASE f.format = "R2010"
      <4>1. ~(McAt(m) + r.size + 3 <= f.total)
        BY <1>9, <3>1, <3>2, <3>3 DEF MsFits
      <4>2. 3 \in Wrong(m)
        BY <1>1, <1>2, <1>5, <1>7, <3>3, <4>1
      <4>3. QED
        <5>1. \A b \in 1..9 : b < 3 => b \notin Wrong(m)
          BY <1>5, <2>3, <2>5
        <5>2. Checks(m)[3].upTo <= d
          BY <1>5, <1>12, <2>2
        <5>3. RefusedIn(m, d) /\ Refusal(m).error = "RecordRange"
          BY <1>1, <1>5, <4>2, <5>1, <5>2, RefusedFor DEF m
        <5>4. QED
          BY <3>1, <5>3 DEF Refuses, m
    <3>4. CASE f.format # "R2010"
      <4>1. ~(McAt(m) + (0 + r.size) + 2 <= f.total)
        BY <1>9, <3>1, <3>2, <3>4 DEF MsFits, RecordEnd, Payload
      <4>2. 3 \in Wrong(m)
        BY <1>1, <1>2, <1>5, <1>7, <3>4, <4>1
      <4>3. QED
        <5>1. \A b \in 1..9 : b < 3 => b \notin Wrong(m)
          BY <1>5, <2>3, <2>5
        <5>2. Checks(m)[3].upTo <= d
          BY <1>5, <1>12, <2>2
        <5>3. RefusedIn(m, d) /\ Refusal(m).error = "RecordRange"
          BY <1>1, <1>5, <4>2, <5>1, <5>2, RefusedFor DEF m
        <5>4. QED
          BY <3>1, <5>3 DEF Refuses, m
    <3>5. QED
      BY <3>3, <3>4
  <2>6. QED
    BY <2>4, <2>5
<1>15. QED
  BY <1>13, <1>14

LEMMA McRefused ==
  ASSUME file \in Files, NEW f, Reads(f), InMc(f), NEW n \in Nat \ {0},
         NEW d \in Nat, f.at + n <= d, FeedMc(file.stream, f, n).error # "none"
  PROVE  RefusedIn(f.records, d) /\ Refusal(f.records).error = FeedMc(file.stream, f, n).error
<1> DEFINE s == file.stream
           m == f.records
           r == RecordAt(s, f)
           k == Fewest(n, r.mc - f.mcLen)
           g == [f EXCEPT !.mcLen = @ + k, !.done = @ + k, !.summed = @ + k, !.at = @ + k,
                          !.mcDone = f.mcLen + k = r.mc]
<1>1. /\ f \in FrameType /\ f.at \in Nat /\ r = Spelt(m) /\ m \in Nat /\ f.mcLen \in Nat
      /\ f.stage = "Body" /\ f.format = "R2010" /\ f.format = file.format /\ f.start \in Nat
      /\ f.total = Objects.size /\ f.total \in Nat /\ f.size = Spelt(m).size /\ f.msLen \in Nat
  BY ReadsFacts, FrameFields DEF InMc, Reads, Spells
<1>2. /\ r.mc \in Nat /\ r.size \in Nat /\ MaxMc \in Nat \ {0}
      /\ f.mcLen < r.mc /\ McOf(m) = r.mc /\ f.at = McAt(m) + f.mcLen
      /\ 1 \notin Wrong(m) /\ 2 \notin Wrong(m) /\ 3 \notin Wrong(m)
      /\ f.start + f.msLen = McAt(m)
  <2>1. Reads(f) /\ InMc(f) /\ f.stage \in {"Body", "Crc"}
    BY <1>1
  <2>2. /\ f.start + f.msLen = McAt(m) /\ 1 \notin Wrong(m) /\ 2 \notin Wrong(m) /\ 3 \notin Wrong(m)
        /\ f.at = McAt(m) + f.mcLen /\ f.mcLen < McOf(m) /\ McOf(m) = Spelt(m).mc
    BY <2>1, HeadRight
  <2>3. Spelt(m).size \in Nat /\ Spelt(m).mc \in Nat \ {0}
    BY <1>1, SpeltFacts
  <2>4. QED
    BY <1>1, <2>2, <2>3, FramerAssumption
<1>3. k \in 1..n /\ f.mcLen + k <= r.mc
  BY <1>1, <1>2 DEF Fewest
<1>4. FeedMc(s, f, n) =
        IF g.mcLen > MaxMc \/ (g.mcLen = MaxMc /\ r.wide) THEN Refuses(f, "RecordHeader")
        ELSE IF g.mcDone /\ RecordEnd(g) > g.total THEN Refuses(f, "RecordRange")
        ELSE IF g.mcDone /\ ~r.mcFits THEN Refuses(f, "RecordHeader")
        ELSE Takes(g, k, "Payload")
  BY Zenon DEF FeedMc
<1>5. /\ Wrong(m) \in SUBSET (1..9)
      /\ Checks(m)[4].upTo = McAt(m) + MaxMc /\ Checks(m)[5].upTo = McAt(m) + MaxMc + 1
      /\ Checks(m)[6].upTo = BodyAt(m) /\ Checks(m)[7].upTo = BodyAt(m)
      /\ 4 \in Wrong(m) <=> McOf(m) >= MaxMc /\ r.wide
      /\ 5 \in Wrong(m) <=> McOf(m) > MaxMc
      /\ 6 \in Wrong(m) <=> Start[m + 1] > Objects.size
      /\ 7 \in Wrong(m) <=> file.format = "R2010" /\ ~r.mcFits
      /\ 4 \in Wrong(m) => Checks(m)[4].error = "RecordHeader"
      /\ 5 \in Wrong(m) => Checks(m)[5].error = "RecordHeader"
      /\ 6 \in Wrong(m) => Checks(m)[6].error = "RecordRange"
      /\ 7 \in Wrong(m) => Checks(m)[7].error = "RecordHeader"
  <2> HIDE DEF r, m
  <2>1. m \in Nat /\ r = Spelt(m)
    BY <1>1
  <2>2. QED
    BY <2>1, CheckIs, SMTT(30)
<1>6. /\ McAt(m) \in Nat /\ BodyAt(m) = McAt(m) + McOf(m)
      /\ Start[m + 1] = BodyAt(m) + r.size + 2
  BY <1>1, Layout
<1> HIDE DEF k, r, g, m
<1>7. /\ g.mcLen = f.mcLen + k /\ g.mcDone = (f.mcLen + k = r.mc) /\ g.total = f.total
      /\ g.start = f.start /\ g.msLen = f.msLen /\ g.size = f.size /\ g.format = "R2010"
  BY <1>1 DEF FrameType, g
<1>8. McAt(m) + g.mcLen <= d /\ g.mcLen \in Nat
  BY <1>1, <1>2, <1>3, <1>6, <1>7
<1>9. CASE g.mcLen > MaxMc \/ (g.mcLen = MaxMc /\ r.wide)
  <2>1. FeedMc(s, f, n) = Refuses(f, "RecordHeader")
    BY <1>4, <1>9
  <2>2. CASE 4 \in Wrong(m)
    <3>1. \A b \in 1..9 : b < 4 => b \notin Wrong(m)
      BY <1>2
    <3>2. Checks(m)[4].upTo <= d
      BY <1>2, <1>5, <1>6, <1>8, <1>9
    <3>3. RefusedIn(m, d) /\ Refusal(m).error = "RecordHeader"
      BY <1>1, <1>5, <2>2, <3>1, <3>2, RefusedFor DEF m
    <3>4. QED
      BY <2>1, <3>3 DEF Refuses, m
  <2>3. CASE 4 \notin Wrong(m)
    <3>1. g.mcLen > MaxMc
      BY <1>2, <1>3, <1>5, <1>7, <1>9, <2>3
    <3>2. 5 \in Wrong(m)
      BY <1>2, <1>3, <1>5, <1>7, <1>8, <3>1
    <3>3. \A b \in 1..9 : b < 5 => b \notin Wrong(m)
      BY <1>2, <2>3
    <3>4. Checks(m)[5].upTo <= d
      BY <1>2, <1>5, <1>6, <1>8, <3>1
    <3>5. RefusedIn(m, d) /\ Refusal(m).error = "RecordHeader"
      BY <1>1, <1>5, <3>2, <3>3, <3>4, RefusedFor DEF m
    <3>6. QED
      BY <2>1, <3>5 DEF Refuses, m
  <2>4. QED
    BY <2>2, <2>3
<1>10. CASE ~(g.mcLen > MaxMc \/ (g.mcLen = MaxMc /\ r.wide))
  <2>1. g.mcDone
    BY <1>4, <1>10 DEF Takes
  <2>2. g.mcLen = r.mc /\ McAt(m) + McOf(m) <= d
    BY <1>2, <1>7, <1>8, <2>1
  <2>3. 4 \notin Wrong(m) /\ 5 \notin Wrong(m)
    BY <1>2, <1>5, <1>8, <1>10, <2>2
  <2>4. RecordEnd(g) = Start[m + 1]
    <3>1. RecordEnd(g) = McAt(m) + (r.mc + r.size) + 2
      BY <1>1, <1>2, <1>7, <2>2 DEF RecordEnd, Payload
    <3>2. QED
      BY <1>2, <1>6, <3>1
  <2>5. CASE RecordEnd(g) > g.total
    <3>1. FeedMc(s, f, n) = Refuses(f, "RecordRange")
      BY <1>4, <1>10, <2>1, <2>5
    <3>2. 6 \in Wrong(m)
      BY <1>1, <1>5, <1>7, <2>4, <2>5
    <3>3. \A b \in 1..9 : b < 6 => b \notin Wrong(m)
      BY <1>2, <2>3
    <3>4. Checks(m)[6].upTo <= d
      BY <1>5, <1>6, <2>2
    <3>5. RefusedIn(m, d) /\ Refusal(m).error = "RecordRange"
      BY <1>1, <1>5, <3>2, <3>3, <3>4, RefusedFor DEF m
    <3>6. QED
      BY <3>1, <3>5 DEF Refuses, m
  <2>6. CASE ~(RecordEnd(g) > g.total)
    <3>1. FeedMc(s, f, n) = Refuses(f, "RecordHeader") /\ ~r.mcFits
      BY <1>4, <1>10, <2>1, <2>6 DEF Takes
    <3>2. 7 \in Wrong(m)
      BY <1>1, <1>5, <3>1
    <3>3. \A b \in 1..9 : b < 7 => b \notin Wrong(m)
      BY <1>1, <1>2, <1>5, <1>7, <2>3, <2>4, <2>6
    <3>4. Checks(m)[7].upTo <= d
      BY <1>5, <1>6, <2>2
    <3>5. RefusedIn(m, d) /\ Refusal(m).error = "RecordHeader"
      BY <1>1, <1>5, <3>2, <3>3, <3>4, RefusedFor DEF m
    <3>6. QED
      BY <3>1, <3>5 DEF Refuses, m
  <2>7. QED
    BY <2>5, <2>6
<1>11. QED
  BY <1>9, <1>10

LEMMA CrcRefused ==
  ASSUME file \in Files, NEW f, Reads(f), f.stage = "Crc", NEW n \in Nat \ {0},
         NEW d \in Nat, f.at + n <= d, FeedCrc(file.stream, f, n).error # "none"
  PROVE  RefusedIn(f.records, d) /\ Refusal(f.records).error = FeedCrc(file.stream, f, n).error
<1> DEFINE s == file.stream
           m == f.records
           r == RecordAt(s, f)
           k == Fewest(n, 2 - f.fieldLen)
           g == [f EXCEPT !.at = @ + k, !.fieldLen = (@ + k) % 2]
           h == [g EXCEPT !.records = @ + 1]
<1>1. /\ f \in FrameType /\ f.at \in Nat /\ f.fieldLen \in 0..1 /\ m \in Nat /\ f.start \in Nat
      /\ r = Spelt(m) /\ FrameOk(s, f) /\ s \in StreamType /\ f.msLen \in Nat
  BY ReadsFacts, FrameFields
<1>2. /\ Payload(f) \in Nat /\ f.done = Payload(f) /\ f.summed = f.msLen + f.done
      /\ f.at = f.start + f.msLen + f.done + f.fieldLen /\ ~InMc(f)
  BY <1>1, BodyFacts DEF InMc
<1>3. k \in 1..n /\ k <= 2 - f.fieldLen
  BY <1>1 DEF Fewest
<1>4. FeedCrc(s, f, n) =
        IF f.fieldLen + k < 2 THEN Takes(g, k, "Framing")
        ELSE IF ~(r.crc /\ f.summed = f.msLen + Payload(f)) THEN Refuses(f, "RecordCrc")
        ELSE IF r.handle = NoHandle THEN Refuses(f, "RecordHeader")
        ELSE Takes(NextRecord(h), k, "Object")
  BY Zenon DEF FeedCrc
<1>5. /\ \A c \in 1..7 : c \notin Wrong(m)
      /\ RecordEnd(f) = Start[m + 1]
  <2>1. /\ 1 \notin Wrong(m) /\ 2 \notin Wrong(m) /\ 3 \notin Wrong(m)
        /\ \A c \in 4..7 : c \notin Wrong(m)
        /\ RecordEnd(f) = Start[m + 1]
    BY <1>2, HeadRight
  <2>2. QED
    BY <2>1
<1>6. /\ (8 \in Wrong(m) <=> ~Spelt(m).crc) /\ (9 \in Wrong(m) <=> Spelt(m).handle = NoHandle)
      /\ Checks(m)[8].upTo = Start[m + 1] /\ Checks(m)[9].upTo = Start[m + 1]
      /\ 8 \in Wrong(m) => Checks(m)[8].error = "RecordCrc"
      /\ 9 \in Wrong(m) => Checks(m)[9].error = "RecordHeader"
  BY <1>1, CheckIs
<1> HIDE DEF k, r, g, h, m
<1>7. f.fieldLen + k = 2
  BY <1>1, <1>3, <1>4 DEF Takes
<1>8. Start[m + 1] <= d
  <2>1. f.at + k = RecordEnd(f)
    BY <1>1, <1>2, <1>3, <1>7 DEF RecordEnd
  <2>2. QED
    BY <1>1, <1>3, <1>5, <2>1
<1>9. CASE ~r.crc
  <2>1. FeedCrc(s, f, n) = Refuses(f, "RecordCrc")
    BY <1>4, <1>7, <1>9
  <2>2. 8 \in Wrong(m) /\ \A b \in 1..9 : b < 8 => b \notin Wrong(m)
    BY <1>1, <1>5, <1>6, <1>9
  <2>3. RefusedIn(m, d) /\ Refusal(m).error = "RecordCrc"
    BY <1>1, <1>6, <1>8, <2>2, RefusedFor DEF m
  <2>4. QED
    BY <2>1, <2>3 DEF Refuses, m
<1>10. CASE r.crc
  <2>1. r.handle = NoHandle /\ FeedCrc(s, f, n) = Refuses(f, "RecordHeader")
    BY <1>2, <1>4, <1>7, <1>10 DEF Takes
  <2>2. 8 \notin Wrong(m) /\ 9 \in Wrong(m)
    BY <1>1, <1>6, <1>10, <2>1
  <2>3. \A b \in 1..9 : b < 9 => b \notin Wrong(m)
    BY <1>5, <2>2
  <2>4. RefusedIn(m, d) /\ Refusal(m).error = "RecordHeader"
    BY <1>1, <1>6, <1>8, <2>2, <2>3, RefusedFor DEF m
  <2>5. QED
    BY <2>1, <2>4 DEF Refuses, m
<1>11. QED
  BY <1>9, <1>10

LEMMA FeedRefused ==
  ASSUME file \in Files, NEW f, Reads(f), NEW n \in Nat \ {0}, f.at + n <= f.total,
         NEW d \in Nat, f.at + n <= d, FrameFeed(file.stream, f, n).error # "none"
  PROVE  LET error == FrameFeed(file.stream, f, n).error
         IN IF f.stage = "Prologue" THEN error = "ObjectPrologue" /\ Fewest(d, Prologue) > Stream.prologue
            ELSE /\ Fewest(d, Prologue) <= Stream.prologue
                 /\ RefusedIn(f.records, d) /\ Refusal(f.records).error = error
<1>1. f.stage \in Frames /\ f.at \in Nat /\ f.total \in Nat
  BY ReadsFacts, FrameFields
<1>2. CASE f.stage = "Prologue"
  BY <1>2, PrologueRefused DEF FrameFeed, InMc
<1>3. f.stage # "Prologue" => Fewest(d, Prologue) <= Stream.prologue
  BY PrologueHeld
<1>4. CASE f.stage = "Ms"
  BY <1>3, <1>4, MsRefused DEF FrameFeed, InMc
<1>5. CASE InMc(f)
  BY <1>3, <1>5, McRefused DEF FrameFeed, InMc
<1>6. CASE f.stage = "Body" /\ ~InMc(f)
  <2>1. FrameFeed(file.stream, f, n) = FeedBody(f, n)
    BY <1>6 DEF FrameFeed
  <2>2. FeedBody(f, n).error = "none"
    BY DEF FeedBody, Takes
  <2>3. QED
    BY <2>1, <2>2
<1>7. CASE f.stage = "Crc"
  BY <1>3, <1>7, CrcRefused DEF FrameFeed, InMc
<1>8. CASE f.stage \in {"Done", "Ended"}
  <2>1. f.at = f.total
    BY <1>8, ReadsFacts DEF FrameOk
  <2>2. QED
    BY <1>1, <2>1
<1>9. QED
  BY <1>1, <1>2, <1>4, <1>5, <1>6, <1>7, <1>8 DEF Frames

----------------------------------------------------------------------------
(* The walk and the reading: what the inductive invariant adds for it. *)

\* What a walk with the section's framer has committed.
Told(k) ==
  LET n == k.framer.records
  IN IF k.framer.stage # "Ended" THEN ObjectsOf(n)
     ELSE IF k.inner.item < Len(Script) THEN ObjectsOf(n) \o <<TheEnd(n)>>
     ELSE ObjectsOf(n) \o <<TheEnd(n), [step |-> "Finished"]>>

\* The items behind it, and the page at hand, are what a reading goes through.
Unfaulty(k) ==
  /\ \A i \in 1..k.inner.item : ItemFault(i) = "none"
  /\ OnPage(k) => ItemFault(k.inner.item + 1) = "none"

FollowsFound(k) ==
  /\ Described # {} /\ First \in 1..k.inner.item
  /\ k.id = Objects.id /\ k.framer.total = Objects.size
  /\ k.framer.at + k.pending = Offset(k)
  /\ Unfaulty(k)
  /\ Spells(k.framer)
  /\ k.inner.item = Len(Script) => k.framer.stage = "Ended"
  /\ k.commits = Told(k)

Follows(k) ==
  /\ k.handed = k.framer.done
  /\ IF k.found THEN FollowsFound(k) ELSE k.commits = <<>> /\ k.inner.item < Len(Script)

\* A walk that failed has committed what the reading has, and stopped as it does.
Agreed == commits = Reading.commits /\ failure = Reading.failure

AInv ==
  /\ IInv
  /\ Follows(kept)
  /\ IF failure = "none" THEN Follows(Now) ELSE Agreed

----------------------------------------------------------------------------
(* The reading depends on nothing but the file. *)

LEMMA StartUnique ==
  ASSUME NEW w, NEW f, NEW g,
         f = [n \in Nat |-> IF n = 0 THEN Prologue ELSE f[n - 1] + w[n - 1]],
         g = [n \in Nat |-> IF n = 0 THEN Prologue ELSE g[n - 1] + w[n - 1]]
  PROVE  f = g
<1> DEFINE T == {n \in Nat : f[n] = g[n]}
<1>1. 0 \in T
  OBVIOUS
<1>2. ASSUME NEW n \in T PROVE n + 1 \in T
  <2>1. n \in Nat /\ n + 1 \in Nat /\ n + 1 # 0 /\ n + 1 - 1 = n /\ f[n] = g[n]
    BY <1>2
  <2>2. f[n + 1] = f[n] + w[n] /\ g[n + 1] = g[n] + w[n]
    BY <2>1
  <2>3. QED
    BY <2>1, <2>2
<1>3. T \in SUBSET Nat
  OBVIOUS
<1> HIDE DEF T
<1>4. T = Nat
  BY <1>1, <1>2, <1>3, SetInduction
<1>5. \A n \in Nat : f[n] = g[n]
  BY <1>4 DEF T
<1>6. QED
  BY <1>5

LEMMA StartSame ==
  ASSUME file' = file
  PROVE  Start' = Start
<1> DEFINE w == [n \in Nat |-> Whole(n)]
<1>1. (Start = [n \in Nat |-> IF n = 0 THEN Prologue ELSE Start[n - 1] + Whole(n - 1)])'
  BY StartDefined, PTL
<1>2. \A n : Whole(n)' = Whole(n)
  BY DEF Whole, Spelt, McOf, Stream
<1>3. Start' = [n \in Nat |-> IF n = 0 THEN Prologue ELSE Start'[n - 1] + w[n - 1]]
  <2>1. \A n \in Nat : n # 0 => Whole(n - 1)' = w[n - 1]
    BY <1>2
  <2>2. QED
    BY <1>1, <2>1
<1>4. Start = [n \in Nat |-> IF n = 0 THEN Prologue ELSE Start[n - 1] + w[n - 1]]
  BY StartDefined
<1> HIDE DEF w
<1>5. QED
  BY <1>3, <1>4, StartUnique

LEMMA ItemsSame ==
  ASSUME file' = file
  PROVE  /\ Script' = Script /\ Stream' = Stream /\ Described' = Described
         /\ First' = First /\ Objects' = Objects
         /\ \A n : BytesOf(n)' = BytesOf(n)
         /\ \A i : ItemFault(i)' = ItemFault(i)
         /\ Faulty' = Faulty /\ StopsAt' = StopsAt /\ Delivered' = Delivered
<1>1. Script' = Script /\ Stream' = Stream
  BY DEF Script, Stream
<1>2. Described' = Described
  BY <1>1 DEF Described
<1>3. First' = First
  BY <1>2 DEF First
<1>4. Objects' = Objects
  BY <1>1, <1>3 DEF Objects
<1>5. \A n : BytesOf(n)' = BytesOf(n)
  BY <1>1, <1>4 DEF BytesOf
<1>6. \A i : Stray(i)' <=> Stray(i)
  BY <1>1, <1>4, <1>5 DEF Stray
<1>7. \A i : ItemFault(i)' = ItemFault(i)
  BY <1>1, <1>2, <1>3, <1>4, <1>6 DEF ItemFault
<1>8. Faulty' = Faulty
  BY <1>1, <1>7 DEF Faulty
<1>9. StopsAt' = StopsAt
  BY <1>1, <1>8 DEF StopsAt
<1>10. Delivered' = Delivered
  BY <1>5, <1>9 DEF Delivered
<1>11. QED
  BY <1>1, <1>2, <1>3, <1>4, <1>5, <1>7, <1>8, <1>9, <1>10

LEMMA RecordsSame ==
  ASSUME file' = file
  PROVE  /\ \A n : Spelt(n)' = Spelt(n) /\ Wrong(n)' = Wrong(n)
         /\ \A n : Refusal(n)' = Refusal(n)
         /\ \A n, d : Stands(n, d)' <=> Stands(n, d)
         /\ \A n : ObjectsOf(n)' = ObjectsOf(n) /\ TheEnd(n)' = TheEnd(n)
<1>1. Stream' = Stream /\ Objects' = Objects /\ Start' = Start
  BY ItemsSame, StartSame
<1>2. \A n : Spelt(n)' = Spelt(n) /\ McOf(n)' = McOf(n)
  BY <1>1 DEF Spelt, McOf
<1>3. \A n : McAt(n)' = McAt(n) /\ BodyAt(n)' = BodyAt(n)
  BY <1>1, <1>2 DEF McAt, BodyAt
<1>4. \A n : Checks(n)' = Checks(n)
  BY <1>1, <1>2, <1>3 DEF Checks
<1>5. \A n : Wrong(n)' = Wrong(n)
  BY <1>4 DEF Wrong
<1>6. \A n : Refusal(n)' = Refusal(n)
  BY <1>4, <1>5 DEF Refusal
<1>7. \A n, d : Stands(n, d)' <=> Stands(n, d)
  BY <1>1, <1>5 DEF Stands
<1>8. \A n : ObjectOf(n)' = ObjectOf(n)
  BY <1>1, <1>2 DEF ObjectOf
<1>9. \A n : ObjectsOf(n)' = ObjectsOf(n) /\ TheEnd(n)' = TheEnd(n)
  BY <1>1, <1>8 DEF ObjectsOf, TheEnd
<1>10. QED
  BY <1>2, <1>5, <1>6, <1>7, <1>9

LEMMA ReadingSame ==
  ASSUME file' = file
  PROVE  Reading' = Reading
<1>1. /\ Script' = Script /\ Stream' = Stream /\ Described' = Described /\ Objects' = Objects
      /\ Start' = Start /\ Faulty' = Faulty /\ StopsAt' = StopsAt /\ Delivered' = Delivered
      /\ \A i : ItemFault(i)' = ItemFault(i)
  BY ItemsSame, StartSame
<1>2. \A d : Count(d)' = Count(d)
  <2>1. ASSUME NEW d PROVE Count(d)' = Count(d)
    <3>1. {n \in 0..Len(Stream.records) : ~Stands(n, d)}' = {n \in 0..Len(Stream.records) : ~Stands(n, d)}
      BY <1>1, RecordsSame
    <3>2. QED
      BY <3>1 DEF Count
  <2>2. QED
    BY <2>1
<1>3. \A n, d : /\ RefusedIn(n, d)' <=> RefusedIn(n, d)
                /\ Ends(n, d)' <=> Ends(n, d)
  BY <1>1, RecordsSame DEF RefusedIn, Ends
<1>4. Through' <=> Through
  BY <1>1 DEF Through
<1>5. \A n, d : ReadingOf(n, d)' = ReadingOf(n, d)
  BY <1>1, <1>3, <1>4, RecordsSame DEF ReadingOf
<1>6. (ReadingOf(Count(Delivered), Delivered))' = ReadingOf(Count(Delivered), Delivered)
  BY <1>1, <1>2, <1>5
<1>7. QED
  BY <1>1, <1>6 DEF Reading

LEMMA FollowsSame ==
  ASSUME NEW k, file' = file
  PROVE  Follows(k)' <=> Follows(k)
<1>1. /\ Script' = Script /\ Stream' = Stream /\ Described' = Described /\ Objects' = Objects
      /\ First' = First /\ Start' = Start
      /\ \A i : ItemFault(i)' = ItemFault(i)
      /\ \A n : Spelt(n)' = Spelt(n) /\ Wrong(n)' = Wrong(n)
      /\ \A n : ObjectsOf(n)' = ObjectsOf(n) /\ TheEnd(n)' = TheEnd(n)
  BY ItemsSame, StartSame, RecordsSame
<1>2. At(k)' = At(k) /\ (OnPage(k)' <=> OnPage(k)) /\ Offset(k)' = Offset(k)
  BY DEF OnPage, Offset, At, BytesEnd, Given
<1>3. Told(k)' = Told(k)
  BY <1>1 DEF Told
<1>4. Unfaulty(k)' <=> Unfaulty(k)
  BY <1>1, <1>2 DEF Unfaulty
<1>5. Spells(k.framer)' <=> Spells(k.framer)
  BY <1>1 DEF Spells
<1>6. FollowsFound(k)' <=> FollowsFound(k)
  BY <1>1, <1>2, <1>3, <1>4, <1>5 DEF FollowsFound
<1>7. QED
  BY <1>1, <1>6 DEF Follows

----------------------------------------------------------------------------
(* The items a reading goes through. *)

LEMMA ScriptEnds ==
  ASSUME file \in Files, NEW n \in 1..Len(file.script)
  PROVE  file.script[n].kind \in {"Finished", "Refused"} <=> n = Len(file.script)
<1>1. ScriptOk(file.script) /\ DOMAIN file.script = 1..Len(file.script)
  BY FilesAssumption, FileFacts
<1>2. QED
  BY <1>1 DEF ScriptOk

\* Nothing of a section comes before its description, in either family.
LEMMA BeforeSection ==
  ASSUME file \in Files, NEW n \in 1..Len(file.script), file.script[n].kind = "Section",
         NEW i \in 1..(n - 1), file.script[i].kind \in {"Data", "Hole"}
  PROVE  file.script[i].id # file.script[n].id
<1>1. CASE file.family = "R2004"
  <2>1. R2004ScriptOk(file.script) /\ DOMAIN file.script = 1..Len(file.script)
    BY <1>1, FilesAssumption, FileFacts
  <2>2. i \in 1..Len(file.script)
    BY FileFacts
  <2>3. n < i
    BY <2>1, <2>2 DEF R2004ScriptOk
  <2>4. QED
    BY <2>3
<1>2. CASE file.family = "R2007"
  <2> DEFINE m == n - 1
  <2>1. m \in Nat /\ m + 1 = n /\ m < Len(file.script) /\ i \in 1..m
    BY FileFacts
  <2> HIDE DEF m
  <2>2. QED
    BY <1>2, <2>1, NothingBefore
<1>3. QED
  BY <1>1, <1>2, FileFacts

LEMMA DescribedFacts ==
  ASSUME file \in Files
  PROVE  /\ DOMAIN Script = 1..Len(file.script) /\ Len(file.script) \in Nat \ {0}
         /\ Described \in SUBSET (1..Len(file.script))
         /\ \A i \in 1..Len(file.script) :
              i \in Described <=> file.script[i].kind = "Section" /\ file.script[i].objects
         /\ Described # {} =>
              /\ First \in Described /\ \A i \in Described : First <= i
              /\ Objects = file.script[First] /\ Objects.kind = "Section"
              /\ Objects.id \in Nat /\ Objects.size \in Nat
<1>1. DOMAIN Script = 1..Len(file.script) /\ Len(file.script) \in Nat \ {0}
  BY FileFacts DEF Script
<1>2. /\ Described \in SUBSET (1..Len(file.script))
      /\ \A i \in 1..Len(file.script) :
              i \in Described <=> file.script[i].kind = "Section" /\ file.script[i].objects
  BY <1>1 DEF Described, Script
<1>3. ASSUME Described # {}
      PROVE  /\ First \in Described /\ \A i \in Described : First <= i
             /\ Objects = file.script[First] /\ Objects.kind = "Section"
             /\ Objects.id \in Nat /\ Objects.size \in Nat
  <2>1. Described \in SUBSET Nat
    BY <1>1, <1>2
  <2>2. First \in Described /\ \A i \in Described : First <= i
    BY <1>3, <2>1, MinFacts DEF First
  <2>3. Objects = file.script[First]
    BY DEF Objects, Script
  <2>4. First \in 1..Len(file.script) /\ file.script[First].kind = "Section"
    BY <1>2, <2>2
  <2>5. QED
    BY <2>2, <2>3, <2>4, ItemFacts
<1>4. QED
  BY <1>1, <1>2, <1>3

\* Where the section's bytes get to with one item more.
LEMMA BytesOfStep ==
  ASSUME file \in Files, NEW n \in 1..Len(file.script)
  PROVE  BytesOf(n) =
           IF file.script[n].kind = "Data" /\ file.script[n].id = Objects.id
           THEN file.script[n].from + file.script[n].len ELSE BytesOf(n - 1)
<1> DEFINE m == n - 1
           script == file.script
<1>1. m \in Nat /\ m + 1 = n
  BY FileFacts
<1> HIDE DEF m, script
<1>2. BytesEnd(script, m + 1, Objects.id) =
           IF script[m + 1].kind = "Data" /\ script[m + 1].id = Objects.id
           THEN script[m + 1].from + script[m + 1].len
           ELSE BytesEnd(script, m, Objects.id)
  BY <1>1, BytesEndStep
<1>3. QED
  BY <1>1, <1>2 DEF BytesOf, Script, m, script

\* The walk goes through everything before the section's description.
LEMMA BeforeFirst ==
  ASSUME file \in Files, NEW n \in 1..Len(file.script), n \in Described,
         \A i \in 1..(n - 1) : i \notin Described
  PROVE  /\ Described # {} /\ First = n /\ Objects = file.script[n]
         /\ \A i \in 1..(n - 1) : ItemFault(i) = "none"
         /\ BytesOf(n - 1) = 0 /\ BytesOf(n) = 0
<1>1. /\ Described \in SUBSET Nat /\ \A i \in Described : n <= i
      /\ file.script[n].kind = "Section" /\ Len(file.script) \in Nat
  BY DescribedFacts
<1>2. First = n
  BY <1>1, LeastIs DEF First
<1>3. Objects = file.script[n]
  BY <1>2 DEF Objects, Script
<1>4. \A i \in 1..(n - 1) :
        file.script[i].kind \in {"Data", "Hole"} => file.script[i].id # Objects.id
  BY <1>1, <1>3, BeforeSection
<1>5. \A i \in 1..(n - 1) : file.script[i].kind # "Refused"
  <2>1. ASSUME NEW i \in 1..(n - 1) PROVE file.script[i].kind # "Refused"
    <3>1. i \in 1..Len(file.script) /\ i # Len(file.script)
      BY <1>1
    <3>2. QED
      BY <3>1, ScriptEnds
  <2>2. QED
    BY <2>1
<1>6. \A i \in 1..(n - 1) : ~Stray(i)
  BY <1>4 DEF Stray, Script
<1>7. \A i \in 1..(n - 1) : ItemFault(i) = "none"
  BY <1>5, <1>6 DEF ItemFault, Script
<1>8. BytesOf(n - 1) = 0
  <2> DEFINE m == n - 1
  <2>1. m \in Nat
    OBVIOUS
  <2>2. \A i \in Given(file.script, m, "Data") : file.script[i].id # Objects.id
    BY <1>4 DEF Given
  <2> HIDE DEF m
  <2>3. BytesEnd(file.script, m, Objects.id) = 0
    BY <2>1, <2>2, NoBytesYet
  <2>4. QED
    BY <2>3 DEF BytesOf, Script, m
<1>9. BytesOf(n) = 0
  BY <1>1, <1>8, BytesOfStep
<1>10. QED
  BY <1>2, <1>3, <1>7, <1>8, <1>9

\* The first item there is a fault in is where the walk stops.
LEMMA StopsHere ==
  ASSUME file \in Files, NEW n \in 1..Len(file.script), ItemFault(n) # "none",
         \A i \in 1..(n - 1) : ItemFault(i) = "none"
  PROVE  ~Through /\ StopsAt = n /\ Delivered = BytesOf(n - 1)
<1> DEFINE l == Len(Script)
           S == Faulty \cup {l}
<1>1. l \in Nat /\ n <= l /\ DOMAIN Script = 1..l
  BY DescribedFacts DEF Script
<1>2. n \in Faulty /\ Faulty \in SUBSET (1..l)
  BY <1>1 DEF Faulty, Script
<1>3. \A i \in Faulty : n <= i
  BY <1>1, <1>2 DEF Faulty
<1> HIDE DEF l
<1>4. S \in SUBSET Nat /\ n \in S /\ \A i \in S : n <= i
  BY <1>1, <1>2, <1>3
<1> HIDE DEF S
<1>5. Min(S) = n
  BY <1>4, LeastIs
<1>6. QED
  BY <1>2, <1>5 DEF Through, StopsAt, Delivered, S, l

\* When there is a fault in none it goes on to the end.
LEMMA StopsNowhere ==
  ASSUME file \in Files, \A i \in 1..Len(file.script) : ItemFault(i) = "none"
  PROVE  Through /\ StopsAt = Len(file.script) /\ Delivered = BytesOf(Len(file.script) - 1)
<1>1. Len(file.script) \in Nat /\ DOMAIN Script = 1..Len(file.script) /\ Len(Script) = Len(file.script)
  BY DescribedFacts DEF Script
<1>2. Faulty = {}
  BY <1>1 DEF Faulty
<1> DEFINE l == Len(Script)
           S == Faulty \cup {l}
<1>3. S = {l} /\ l \in Nat
  BY <1>1, <1>2
<1> HIDE DEF S, l
<1>4. S \in SUBSET Nat /\ l \in S /\ \A f \in S : l <= f
  BY <1>3
<1>5. Min(S) = l
  BY <1>4, LeastIs
<1>6. QED
  BY <1>1, <1>2, <1>5 DEF Through, StopsAt, Delivered, S, l

\* Behind a page that is no fault the section's bytes only go on.
LEMMA DeliveredBehind ==
  ASSUME file \in Files, Described # {}, NEW j \in 1..Len(file.script), First <= j,
         file.script[j].kind = "Data",
         \A i \in 1..j : ItemFault(i) = "none"
  PROVE  BytesOf(j) \in Nat => Delivered \in Nat /\ BytesOf(j) <= Delivered
<1> SUFFICES ASSUME BytesOf(j) \in Nat PROVE Delivered \in Nat /\ BytesOf(j) <= Delivered
  OBVIOUS
<1> DEFINE l == Len(file.script)
           S == Faulty \cup {l}
           T == {e \in Nat : j + e < StopsAt => BytesOf(j + e) \in Nat /\ BytesOf(j) <= BytesOf(j + e)}
<1>1. l \in Nat /\ DOMAIN Script = 1..l /\ j \in Nat /\ j <= l /\ l = Len(Script)
  BY DescribedFacts DEF Script
<1>2. S \in SUBSET (1..l) /\ S # {} /\ j \notin Faulty
  BY <1>1 DEF Faulty
<1>3. StopsAt \in S /\ \A i \in S : StopsAt <= i
  <2>1. S \in SUBSET Nat /\ StopsAt = Min(S)
    BY <1>1, <1>2 DEF StopsAt
  <2> HIDE DEF S
  <2>2. QED
    BY <1>2, <2>1, MinFacts
<1>4. j # l
  BY ScriptEnds
<1>5. StopsAt \in 1..l /\ j < StopsAt
  <2>1. \A i \in 1..j : i \notin Faulty
    BY DEF Faulty
  <2>a. ASSUME NEW i \in 1..j PROVE i # l
    <3> HIDE DEF l
    <3>1. i \in Int /\ i <= j
      BY <1>1
    <3>2. l \in Nat /\ j \in Nat /\ j <= l
      BY <1>1
    <3> HIDE DEF S, T
    <3>3. QED
      BY <1>4, <3>1, <3>2
  <2>b. \A i \in 1..j : i \notin S
    BY <2>1, <2>a
  <2> HIDE DEF S
  <2>2. StopsAt \in 1..l /\ ~(StopsAt \in 1..j)
    BY <1>2, <1>3, <2>b
  <2>3. QED
    BY <1>1, <2>2
<1>6. 0 \in T
  BY <1>1
<1>7. ASSUME NEW e \in T PROVE e + 1 \in T
  <2> DEFINE i == j + (e + 1)
  <2>1. e \in Nat /\ e + 1 \in Nat /\ i - 1 = j + e /\ i \in Nat /\ i # 0
    BY <1>1, <1>7
  <2>2. SUFFICES ASSUME i < StopsAt PROVE BytesOf(i) \in Nat /\ BytesOf(j) <= BytesOf(i)
    BY <2>1
  <2>3. BytesOf(i - 1) \in Nat /\ BytesOf(j) <= BytesOf(i - 1)
    BY <1>1, <1>5, <1>7, <2>1, <2>2
  <2>4. i \in 1..l /\ i \in DOMAIN Script
    BY <1>1, <1>5, <2>1, <2>2
  <2>5. i \notin Faulty
    BY <1>3, <1>5, <2>1, <2>2
  <2> HIDE DEF i, T, S
  <2>6. ItemFault(i) = "none"
    BY <2>4, <2>5 DEF Faulty
  <2>7. BytesOf(i) = IF file.script[i].kind = "Data" /\ file.script[i].id = Objects.id
                     THEN file.script[i].from + file.script[i].len ELSE BytesOf(i - 1)
    BY <2>4, BytesOfStep
  <2>8. CASE file.script[i].kind = "Data" /\ file.script[i].id = Objects.id
    <3>1. ~Stray(i)
      BY <2>6, <2>8 DEF ItemFault, Script, Described
    <3>2. file.script[i].from = BytesOf(i - 1)
      BY <2>8, <3>1 DEF Stray, Script
    <3>3. file.script[i].len \in Nat
      BY <2>4, <2>8, ItemFacts
    <3>4. QED
      BY <2>3, <2>7, <2>8, <3>2, <3>3
  <2>9. CASE ~(file.script[i].kind = "Data" /\ file.script[i].id = Objects.id)
    BY <2>3, <2>7, <2>9
  <2>10. QED
    BY <2>8, <2>9
<1>8. T \in SUBSET Nat
  OBVIOUS
<1> DEFINE e == StopsAt - 1 - j
<1>9. e \in Nat /\ j + e = StopsAt - 1 /\ j + e < StopsAt
  BY <1>1, <1>5
<1> HIDE DEF T, S
<1>10. T = Nat
  BY <1>6, <1>7, <1>8, SetInduction
<1> HIDE DEF e
<1>11. BytesOf(j + e) \in Nat /\ BytesOf(j) <= BytesOf(j + e)
  BY <1>9, <1>10 DEF T
<1>12. QED
  BY <1>9, <1>11 DEF Delivered

----------------------------------------------------------------------------
(* What a reading has where the walk stops. *)

LEMMA AppendFacts ==
  ASSUME NEW S, NEW s \in Seq(S), NEW e \in S, NEW g \in S
  PROVE  Append(s, e) = s \o <<e>> /\ Append(s \o <<e>>, g) = s \o <<e, g>>
OBVIOUS

\* With the end and the finish behind them.
LEMMA EndsAppended ==
  ASSUME NEW n \in Nat
  PROVE  /\ Append(ObjectsOf(n), TheEnd(n)) = ObjectsOf(n) \o <<TheEnd(n)>>
         /\ Append(ObjectsOf(n) \o <<TheEnd(n)>>, [step |-> "Finished"]) =
              ObjectsOf(n) \o <<TheEnd(n), [step |-> "Finished"]>>
<1> DEFINE S == {ObjectOf(i) : i \in Nat} \cup {TheEnd(n), [step |-> "Finished"]}
           o == ObjectsOf(n)
           e == TheEnd(n)
           g == [step |-> "Finished"]
<1>1. \A i \in 1..n : ObjectOf(i - 1) \in S
  OBVIOUS
<1>2. e \in S /\ g \in S
  OBVIOUS
<1> HIDE DEF S
<1>3. o \in Seq(S)
  BY <1>1 DEF ObjectsOf
<1> HIDE DEF o, e, g
<1>4. Append(o, e) = o \o <<e>> /\ Append(o \o <<e>>, g) = o \o <<e, g>>
  BY <1>2, <1>3, AppendFacts
<1>5. QED
  BY <1>4 DEF o, e, g

LEMMA ObjectsOfStep ==
  ASSUME NEW n \in Nat
  PROVE  ObjectsOf(0) = <<>> /\ ObjectsOf(n + 1) = Append(ObjectsOf(n), ObjectOf(n))
<1>1. ObjectsOf(0) = <<>>
  BY DEF ObjectsOf
<1> DEFINE S == {ObjectOf(i) : i \in Nat}
           o == ObjectsOf(n)
           e == ObjectOf(n)
<1>2. e \in S /\ \A i \in 1..(n + 1) : ObjectOf(i - 1) \in S
  OBVIOUS
<1> HIDE DEF S
<1>3. o \in Seq(S) /\ Len(o) = n /\ \A i \in 1..n : o[i] = ObjectOf(i - 1)
  BY <1>2 DEF ObjectsOf
<1>4. /\ ObjectsOf(n + 1) \in Seq(S) /\ Len(ObjectsOf(n + 1)) = n + 1
      /\ \A i \in 1..(n + 1) : ObjectsOf(n + 1)[i] = ObjectOf(i - 1)
  BY <1>2 DEF ObjectsOf
<1> DEFINE p == ObjectsOf(n + 1)
<1>5. p[n + 1] = e /\ \A i \in 1..n : p[i] = o[i]
  BY <1>3, <1>4
<1>6. p \in Seq(S) /\ Len(p) = n + 1 /\ e \in S /\ o \in Seq(S) /\ Len(o) = n
  BY <1>2, <1>3, <1>4
<1> HIDE DEF o, e, p
<1>7. Append(o, e) \in Seq(S) /\ Len(Append(o, e)) = n + 1
      /\ Append(o, e)[n + 1] = e /\ \A i \in 1..n : Append(o, e)[i] = o[i]
  BY <1>6
<1>8. \A i \in 1..(n + 1) : Append(o, e)[i] = p[i]
  <2>1. \A i \in 1..(n + 1) : i \in 1..n \/ i = n + 1
    OBVIOUS
  <2>2. QED
    BY <1>5, <1>7, <2>1
<1>9. p = Append(o, e)
  BY <1>6, <1>7, <1>8
<1>10. QED
  BY <1>1, <1>9 DEF o, e, p

\* A section ends where the framer is at its end.
LEMMA EndsWhere ==
  ASSUME file \in Files, NEW f, Reads(f)
  PROVE  Ends(f.records, f.at) <=> f.stage \in {"Done", "Ended"}
<1>1. /\ FrameOk(file.stream, f) /\ f.total = Objects.size /\ f.stage \in Frames
      /\ f.at \in Nat /\ f.start \in Nat /\ f.total \in Nat /\ Start[0] = Prologue
  BY ReadsFacts, FrameFields DEF Reads
<1>2. f.stage # "Prologue" => f.start = Start[f.records]
  BY Behind4
<1>3. CASE f.stage \in {"Done", "Ended"}
  BY <1>1, <1>2, <1>3 DEF FrameOk, Ends
<1>4. CASE f.stage = "Prologue"
  <2>1. f.records = 0 /\ f.at < Prologue
    BY <1>1, <1>4 DEF FrameOk
  <2>2. ~Ends(f.records, f.at)
    BY <1>1, <2>1 DEF Ends, Prologue
  <2>3. QED
    BY <1>4, <2>2
<1>5. CASE f.stage \in {"Ms", "Body", "Crc"}
  <2>1. f.start < f.total
    BY <1>1, <1>5 DEF FrameOk, MsFrame, BodyFrame
  <2>2. ~Ends(f.records, f.at)
    BY <1>1, <1>2, <1>5, <2>1 DEF Ends
  <2>3. QED
    BY <1>5, <2>2
<1>6. QED
  BY <1>1, <1>3, <1>4, <1>5 DEF Frames

\* A call that refuses the bytes it is given refuses what the reading does.
LEMMA RefusalReading ==
  ASSUME file \in Files, Described # {}, NEW f, Reads(f), NEW n \in Nat \ {0},
         f.at + n <= f.total, Delivered \in Nat, f.at + n <= Delivered,
         FrameFeed(file.stream, f, n).error # "none"
  PROVE  Reading = Outcome(ObjectsOf(f.records), FrameFeed(file.stream, f, n).error)
<1> DEFINE error == FrameFeed(file.stream, f, n).error
           d == Delivered
<1>1. IF f.stage = "Prologue" THEN error = "ObjectPrologue" /\ Fewest(d, Prologue) > Stream.prologue
      ELSE /\ Fewest(d, Prologue) <= Stream.prologue
           /\ RefusedIn(f.records, d) /\ Refusal(f.records).error = error
  BY FeedRefused
<1>2. f.records \in Nat /\ f.at \in Nat
  BY ReadsFacts
<1>3. Reading = ReadingOf(Count(d), d)
  BY DEF Reading
<1> HIDE DEF error, d
<1>4. CASE f.stage = "Prologue"
  <2>1. ReadingOf(Count(d), d) = Outcome(<<>>, "ObjectPrologue")
    BY <1>1, <1>4 DEF ReadingOf
  <2>2. f.records = 0
    <3>1. FrameOk(file.stream, f)
      BY ReadsFacts
    <3>2. QED
      BY <1>4, <3>1 DEF FrameOk
  <2>3. ObjectsOf(f.records) = <<>>
    BY <2>2, ObjectsOfStep
  <2>4. QED
    BY <1>1, <1>3, <1>4, <2>1, <2>3 DEF error
<1>5. CASE f.stage # "Prologue"
  <2>1. ~(Fewest(d, Prologue) > Stream.prologue)
    <3>1. Stream.prologue \in Nat /\ Fewest(d, Prologue) \in Nat
      BY FileFacts DEF StreamType, Stream, Prologue, Fewest, d
    <3>2. QED
      BY <1>1, <1>5, <3>1
  <2>2. ~Stands(f.records, d)
    BY <1>1, <1>5 DEF RefusedIn, Stands
  <2>3. d \in Nat /\ f.at <= d
    BY <1>2 DEF d
  <2>4. Count(d) = f.records
    BY <2>2, <2>3, CountIs
  <2>5. ReadingOf(f.records, d) = Outcome(ObjectsOf(f.records), error)
    BY <1>1, <1>5, <2>1 DEF ReadingOf
  <2>6. QED
    BY <1>3, <2>4, <2>5 DEF error
<1>6. QED
  BY <1>4, <1>5

\* A walk that stops with everything framed has what the reading has.
LEMMA StopReading ==
  ASSUME file \in Files, Described # {}, NEW f, Reads(f), f.at = Delivered, f.stage # "Done"
  PROVE  LET n == f.records
         IN Reading =
              IF f.stage # "Ended"
              THEN Outcome(ObjectsOf(n), IF Through THEN "ObjectsIncomplete" ELSE ItemFault(StopsAt))
              ELSE IF ~Through THEN Outcome(ObjectsOf(n) \o <<TheEnd(n)>>, ItemFault(StopsAt))
              ELSE Outcome(ObjectsOf(n) \o <<TheEnd(n), [step |-> "Finished"]>>, "none")
<1>1. Reading = ReadingOf(Count(f.at), f.at)
  BY DEF Reading
<1>2. Count(f.at) = f.records /\ ~RefusedIn(f.records, f.at)
  BY CountAll
<1>3. ~(Fewest(f.at, Prologue) > Stream.prologue)
  <2>1. Stream.prologue \in Nat /\ Fewest(f.at, Prologue) \in Nat
    BY FileFacts, ReadsFacts DEF StreamType, Stream, Prologue, Fewest
  <2>2. Fewest(f.at, Prologue) <= Stream.prologue
    BY DEF Reads, Spells
  <2>3. QED
    BY <2>1, <2>2
<1>4. Ends(f.records, f.at) <=> f.stage = "Ended"
  BY EndsWhere
<1>5. QED
  BY <1>1, <1>2, <1>3, <1>4, Zenon DEF ReadingOf

\* A section that is too short has no records.
LEMMA TooShortReading ==
  ASSUME file \in Files, Described # {}, Objects.size < Prologue, Delivered = 0, ~Through
  PROVE  Reading = Outcome(<<>>, ItemFault(StopsAt))
<1>1. /\ Start[0] = Prologue /\ McAt(0) \in Nat /\ BodyAt(0) \in Nat /\ Start[1] \in Nat
      /\ BodyAt(0) = McAt(0) + McOf(0) /\ Start[1] = BodyAt(0) + Spelt(0).size + 2
      /\ McAt(0) >= Start[0] + 2
  BY Layout, StartFacts
<1>2. McOf(0) \in Nat /\ Spelt(0).size \in Nat /\ MaxMc \in Nat
  BY SpeltFacts, FramerAssumption
<1>3. McAt(0) > 0 /\ BodyAt(0) > 0 /\ Start[1] > 0
  BY <1>1, <1>2 DEF Prologue
<1>4. /\ Checks(0)[1].upTo = Start[0] + 4
      /\ Checks(0)[2].upTo = McAt(0) /\ Checks(0)[3].upTo = McAt(0)
      /\ Checks(0)[4].upTo = McAt(0) + MaxMc /\ Checks(0)[5].upTo = McAt(0) + MaxMc + 1
      /\ Checks(0)[6].upTo = BodyAt(0) /\ Checks(0)[7].upTo = BodyAt(0)
      /\ Checks(0)[8].upTo = Start[1] /\ Checks(0)[9].upTo = Start[1]
  BY CheckIs
<1>5. \A c \in 1..9 : Checks(0)[c].upTo > 0 /\ Checks(0)[c].upTo \in Nat
  BY <1>1, <1>2, <1>3, <1>4 DEF Prologue
<1>6. ~Stands(0, 0)
  BY <1>1, <1>3 DEF Stands
<1>7. Count(0) = 0
  <2> DEFINE S == {n \in 0..Len(Stream.records) : ~Stands(n, 0)}
  <2>1. Len(Stream.records) \in Nat
    BY FileFacts DEF StreamType, Stream
  <2>2. S \in SUBSET Nat /\ 0 \in S /\ \A e \in S : 0 <= e
    BY <1>6, <2>1
  <2> HIDE DEF S
  <2>3. Min(S) = 0
    BY <2>2, LeastIs
  <2>4. QED
    BY <2>3 DEF Count, S
<1>8. ~RefusedIn(0, 0)
  <2> SUFFICES ASSUME RefusedIn(0, 0) PROVE FALSE
    OBVIOUS
  <2> DEFINE W == Wrong(0)
  <2>1. W # {} /\ Refusal(0).upTo <= 0 /\ W \in SUBSET (1..9)
    BY WrongFacts DEF RefusedIn
  <2>2. Refusal(0) = Checks(0)[Min(W)]
    BY DEF Refusal
  <2> HIDE DEF W
  <2>3. W \in SUBSET Nat
    BY <2>1
  <2>4. Min(W) \in 1..9
    BY <2>1, <2>3, MinFacts
  <2>5. QED
    BY <1>5, <2>1, <2>2, <2>4
<1>9. ~Ends(0, 0)
  BY <1>1, DescribedFacts DEF Ends, Prologue
<1>10. ~(Fewest(0, Prologue) > Stream.prologue)
  BY FileFacts DEF Fewest, Prologue, StreamType, Stream
<1>11. ReadingOf(0, 0) = Outcome(ObjectsOf(0), ItemFault(StopsAt))
  BY <1>8, <1>9, <1>10, Zenon DEF ReadingOf
<1>12. Reading = ReadingOf(Count(0), 0)
  BY DEF Reading
<1>13. QED
  BY <1>7, <1>11, <1>12, ObjectsOfStep

----------------------------------------------------------------------------
(* Steps that keep the walk where the reading is. *)

\* Its framer is in the section that the reading is of.
LEMMA FollowsReads ==
  ASSUME file \in Files, NEW k, WalkOk(k), k.found, Follows(k)
  PROVE  /\ FollowsFound(k) /\ Reads(k.framer) /\ FoundOk(k)
         /\ Described # {} /\ k.framer.at \in Nat /\ k.framer.records \in Nat
         /\ k.inner.given = 0 => Offset(k) = BytesOf(k.inner.item)
<1>1. FollowsFound(k) /\ FoundOk(k)
  BY DEF Follows, WalkOk
<1>2. Reads(k.framer)
  BY <1>1 DEF Reads, FollowsFound, FoundOk
<1>3. k.inner.given = 0 => Offset(k) = BytesOf(k.inner.item)
  BY <1>1 DEF Offset, OnPage, BytesOf, Script, FollowsFound
<1>4. QED
  BY <1>1, <1>2, <1>3, ReadsFacts DEF FollowsFound

\* What the walk has been through when it has not found the section.
LEMMA UnfoundSections ==
  ASSUME file \in Files, NEW k, Unfound(k), Placed(k)
  PROVE  \A i \in 1..k.inner.item : i \notin Described
<1>1. ASSUME NEW i \in 1..k.inner.item, i \in Described PROVE FALSE
  <2>1. i \in 1..Len(file.script)
    BY <1>1, DescribedFacts
  <2>2. file.script[i].kind = "Section" /\ file.script[i].objects
    BY <1>1, <2>1, DescribedFacts
  <2>3. i \in Behind(k, "Section")
    BY <2>2 DEF Behind, Given
  <2>4. QED
    BY <2>2, <2>3 DEF Unfound
<1>2. QED
  BY <1>1

LEMMA HereFacts ==
  ASSUME file \in Files, NEW k, Placed(k), k.inner.item < Len(file.script)
  PROVE  /\ k.inner.item \in Nat /\ k.inner.given \in Nat
         /\ k.inner.item + 1 \in 1..Len(file.script)
         /\ file.script[k.inner.item + 1] = At(k) /\ Len(file.script) \in Nat
         /\ k.inner.item + 1 - 1 = k.inner.item
BY FileFacts DEF Placed, At

\* An item that is passed is none the reading stops at.
LEMMA PassFault ==
  ASSUME file \in Files, NEW k, WalkOk(k), Follows(k), k.found,
         k.inner.item < Len(file.script),
         At(k).kind = "Data" => k.inner.given = At(k).len,
         At(k).kind = "Section" => ~At(k).objects,
         At(k).kind = "Hole" => At(k).id # k.id,
         At(k).kind # "Refused"
  PROVE  ItemFault(k.inner.item + 1) = "none"
<1> DEFINE j == k.inner.item + 1
<1>1. j \in 1..Len(file.script) /\ file.script[j] = At(k) /\ k.inner.given \in Nat
  BY HereFacts DEF WalkOk
<1>2. FollowsFound(k) /\ Unfaulty(k) /\ k.id = Objects.id
  BY DEF Follows, FollowsFound
<1>3. CASE At(k).kind = "Data" /\ At(k).id = k.id
  <2>1. At(k).len \in Nat \ {0}
    BY <1>1, <1>3, ItemFacts
  <2>2. OnPage(k)
    BY <1>1, <1>3, <2>1 DEF OnPage
  <2>3. QED
    BY <1>2, <2>2 DEF Unfaulty
<1>4. CASE ~(At(k).kind = "Data" /\ At(k).id = k.id)
  <2> HIDE DEF j
  <2>1. ~Stray(j)
    BY <1>1, <1>2, <1>4 DEF Stray, Script
  <2>2. j \notin Described
    BY <1>1, DescribedFacts
  <2>3. ItemFault(j) = "none"
    BY <1>1, <2>1, <2>2 DEF ItemFault, Script
  <2>4. QED
    BY <2>3 DEF j
<1>5. QED
  BY <1>3, <1>4

\* The item at hand is behind the walk, and it is not the last.
LEMMA PassFollows ==
  ASSUME file \in Files, NEW k, WalkOk(k), Follows(k), k.pending = 0, k.framer.stage # "Done",
         k.inner.item < Len(file.script),
         At(k).kind = "Data" => k.inner.given = At(k).len,
         At(k).kind = "Section" => ~At(k).objects,
         At(k).kind = "Hole" => ~(k.found /\ At(k).id = k.id),
         At(k).kind \notin {"Finished", "Refused"},
         NEW m, m.inner = [item |-> k.inner.item + 1, given |-> 0],
         m.found = k.found, m.id = k.id, m.framer = k.framer, m.pending = k.pending,
         m.handed = k.handed, m.commits = k.commits
  PROVE  Follows(m)
<1> DEFINE n == k.inner.item
<1>1. n \in Nat /\ n + 1 \in 1..Len(file.script) /\ file.script[n + 1] = At(k)
      /\ Len(file.script) \in Nat /\ m.inner.item = n + 1 /\ m.inner.given = 0
      /\ Len(Script) = Len(file.script)
  BY HereFacts DEF WalkOk, Script
<1>2. n + 1 < Len(file.script)
  <2>1. file.script[n + 1].kind \notin {"Finished", "Refused"}
    BY <1>1
  <2>2. n + 1 # Len(file.script)
    BY <1>1, <2>1, ScriptEnds
  <2> HIDE DEF n
  <2>3. QED
    BY <1>1, <2>2
<1>3. m.handed = m.framer.done
  BY DEF Follows
<1>4. CASE ~k.found
  BY <1>1, <1>2, <1>3, <1>4 DEF Follows
<1>5. CASE k.found
  <2>1. FollowsFound(k)
    BY <1>5 DEF Follows
  <2>2. ItemFault(n + 1) = "none"
    BY <1>5, PassFault
  <2>3. Offset(m) = Offset(k)
    BY PassOffset DEF WalkOk
  <2> HIDE DEF n
  <2>4. Unfaulty(m)
    <3>1. ~OnPage(m)
      BY <1>1 DEF OnPage
    <3>2. \A i \in 1..n : ItemFault(i) = "none"
      BY <2>1 DEF FollowsFound, Unfaulty, n
    <3>3. \A i \in 1..(n + 1) : i \in 1..n \/ i = n + 1
      BY <1>1
    <3>4. \A i \in 1..m.inner.item : ItemFault(i) = "none"
      BY <1>1, <2>2, <3>2, <3>3
    <3>5. QED
      BY <3>1, <3>4 DEF Unfaulty
  <2>5. Told(m) = Told(k)
    BY <1>1, <1>2 DEF Told, n
  <2>6. First \in 1..m.inner.item
    <3>1. First \in 1..n
      BY <2>1 DEF FollowsFound, n
    <3>2. QED
      BY <1>1, <3>1
  <2>7. FollowsFound(m)
    BY <1>1, <1>2, <2>1, <2>3, <2>4, <2>5, <2>6 DEF FollowsFound
  <2>8. QED
    BY <1>3, <1>5, <2>7 DEF Follows
<1>6. QED
  BY <1>4, <1>5

\* The walk finishes.
LEMMA FinishFollows ==
  ASSUME file \in Files, NEW k, WalkOk(k), Follows(k), k.pending = 0, k.framer.stage = "Ended",
         k.inner.item < Len(file.script), At(k).kind = "Finished", k.found,
         NEW m, m.inner = [item |-> k.inner.item + 1, given |-> 0],
         m.found = k.found, m.id = k.id, m.framer = k.framer, m.pending = k.pending,
         m.handed = k.handed, m.commits = Append(k.commits, [step |-> "Finished"])
  PROVE  Follows(m)
<1> DEFINE n == k.inner.item
<1>1. n \in Nat /\ n + 1 \in 1..Len(file.script) /\ file.script[n + 1] = At(k)
      /\ Len(file.script) \in Nat /\ m.inner.item = n + 1 /\ m.inner.given = 0
      /\ Len(Script) = Len(file.script) /\ n < Len(file.script)
  BY HereFacts DEF WalkOk, Script
<1>2. n + 1 = Len(file.script)
  BY <1>1, ScriptEnds
<1>3. m.handed = m.framer.done
  BY DEF Follows
<1>4. FollowsFound(k) /\ k.framer.records \in Nat
  BY FollowsReads
<1>5. ItemFault(n + 1) = "none"
  BY PassFault
<1>6. Offset(m) = Offset(k)
  BY PassOffset DEF WalkOk
<1> HIDE DEF n
<1>7. Unfaulty(m)
  <2>1. ~OnPage(m)
    BY <1>1 DEF OnPage
  <2>2. \A i \in 1..n : ItemFault(i) = "none"
    BY <1>4 DEF FollowsFound, Unfaulty, n
  <2>3. \A i \in 1..(n + 1) : i \in 1..n \/ i = n + 1
    BY <1>1
  <2>4. \A i \in 1..m.inner.item : ItemFault(i) = "none"
    BY <1>1, <1>5, <2>2, <2>3
  <2>5. QED
    BY <2>1, <2>4 DEF Unfaulty
<1>8. m.commits = Told(m)
  <2> DEFINE r == k.framer.records
             o == ObjectsOf(r) \o <<TheEnd(r)>>
             g == ObjectsOf(r) \o <<TheEnd(r), [step |-> "Finished"]>>
  <2>1. Append(o, [step |-> "Finished"]) = g
    BY <1>4, EndsAppended
  <2>2. k.commits = Told(k)
    BY <1>4 DEF FollowsFound
  <2>3. Told(k) = IF k.inner.item < Len(Script) THEN o ELSE g
    BY DEF Told
  <2>4. Told(m) = IF m.inner.item < Len(Script) THEN o ELSE g
    BY DEF Told
  <2> HIDE DEF o, g
  <2>5. k.inner.item < Len(Script) /\ ~(m.inner.item < Len(Script))
    BY <1>1, <1>2 DEF n
  <2>6. QED
    BY <2>1, <2>2, <2>3, <2>4, <2>5
<1>9. First \in 1..m.inner.item
  <2>1. First \in 1..n
    BY <1>4 DEF FollowsFound, n
  <2>2. QED
    BY <1>1, <2>1
<1>10. FollowsFound(m)
  BY <1>1, <1>4, <1>6, <1>7, <1>8, <1>9 DEF FollowsFound
<1>11. QED
  BY <1>3, <1>10 DEF Follows

\* The object section is described.
LEMMA FoundFollows ==
  ASSUME file \in Files, NEW k, WalkOk(k), Follows(k), ~k.found, k.inner.item < Len(file.script),
         At(k).kind = "Section", At(k).objects, ~TooShort(At(k).size),
         NEW m, m.inner = [item |-> k.inner.item + 1, given |-> 0],
         m.found = TRUE, m.id = At(k).id, m.framer = Begin(file.format, At(k).size),
         m.pending = 0, m.handed = k.handed, m.commits = k.commits
  PROVE  Follows(m)
<1> DEFINE j == k.inner.item + 1
           f == m.framer
<1>1. j \in 1..Len(file.script) /\ file.script[j] = At(k) /\ Len(file.script) \in Nat
      /\ m.inner.item = j /\ m.inner.given = 0 /\ j - 1 = k.inner.item
      /\ Len(Script) = Len(file.script)
  BY HereFacts DEF WalkOk, Script
<1>2. j # Len(file.script)
  BY <1>1, ScriptEnds
<1>3. j \in Described /\ \A i \in 1..(j - 1) : i \notin Described
  BY <1>1, DescribedFacts, UnfoundSections DEF WalkOk
<1>4. At(k).size \in Nat /\ At(k).size >= Prologue /\ file.format \in Formats
  BY <1>1, ItemFacts, FileFacts DEF TooShort, Prologue
<1>5. f.total = At(k).size /\ f.at = 0 /\ f.stage = "Prologue" /\ f.records = 0 /\ NoRecord(f)
  BY <1>4, BeginType
<1>6. m.handed = f.done
  <2>1. k.framer = Idle /\ k.handed = k.framer.done
    BY DEF WalkOk, Unfound, Follows
  <2>2. f.done = 0 /\ Idle.done = 0
    BY <1>5 DEF NoRecord, Idle
  <2>3. QED
    BY <2>1, <2>2
<1> HIDE DEF j, f
<1>7. /\ Described # {} /\ First = j /\ Objects = At(k)
      /\ \A i \in 1..(j - 1) : ItemFault(i) = "none"
      /\ BytesOf(j) = 0
  BY <1>1, <1>3, BeforeFirst
<1>8. ItemFault(j) = "none"
  <2>1. ~Stray(j)
    BY <1>1 DEF Stray, Script
  <2>2. ~(Objects.size < Prologue)
    BY <1>4, <1>7 DEF Prologue
  <2>3. QED
    BY <1>1, <1>7, <2>1, <2>2 DEF ItemFault, Script
<1>9. Unfaulty(m)
  <2>1. ~OnPage(m)
    BY <1>1 DEF OnPage
  <2>2. \A i \in 1..j : i \in 1..(j - 1) \/ i = j
    BY <1>1
  <2>3. QED
    BY <1>1, <1>7, <1>8, <2>1, <2>2 DEF Unfaulty
<1>10. Offset(m) = 0
  BY <1>1, <1>7 DEF Offset, OnPage, BytesOf, Script
<1>11. Spells(f)
  <2>1. Fewest(f.at, Prologue) <= Stream.prologue
    BY <1>5, FileFacts DEF Fewest, Prologue, StreamType, Stream
  <2>2. QED
    BY <1>5, <2>1 DEF Spells
<1>12. m.commits = Told(m)
  <2>1. m.commits = <<>>
    BY DEF Follows
  <2>2. Told(m) = ObjectsOf(0)
    BY <1>5 DEF Told, f
  <2>3. QED
    BY <2>1, <2>2, ObjectsOfStep
<1>13. First \in 1..m.inner.item /\ m.inner.item # Len(Script)
  BY <1>1, <1>2, <1>7
<1>14. m.framer.at + m.pending = Offset(m)
  BY <1>5, <1>10 DEF f
<1>15. FollowsFound(m)
  BY <1>5, <1>7, <1>9, <1>11, <1>12, <1>13, <1>14 DEF FollowsFound, f
<1>16. QED
  BY <1>6, <1>15 DEF Follows, f

\* A page gives some of its bytes.
LEMMA GiveFollows ==
  ASSUME file \in Files, NEW k, WalkOk(k), Follows(k), k.pending = 0, k.framer.stage # "Done",
         k.inner.item < Len(file.script), At(k).kind = "Data",
         NEW n \in Nat \ {0},
         NEW m, m.inner = [k.inner EXCEPT !.given = @ + n],
         m.found = k.found, m.id = k.id, m.framer = k.framer, m.handed = k.handed,
         m.commits = k.commits,
         \/ /\ k.found /\ At(k).id = k.id /\ At(k).from + k.inner.given = k.framer.at
            /\ m.pending = n
         \/ ~(k.found /\ At(k).id = k.id) /\ m.pending = 0
  PROVE  Follows(m)
<1> DEFINE j == k.inner.item + 1
<1>1. /\ j \in 1..Len(file.script) /\ file.script[j] = At(k) /\ Len(file.script) \in Nat
      /\ k.inner.given \in Nat /\ j - 1 = k.inner.item
  BY HereFacts DEF WalkOk
<1>2. m.inner.item = k.inner.item /\ m.inner.given = k.inner.given + n
  BY <1>1 DEF WalkOk, Placed
<1>3. At(m) = At(k) /\ m.handed = m.framer.done
  BY <1>2 DEF At, Follows
<1>4. At(k).id \in Nat /\ At(k).from \in Nat
  <2> HIDE DEF j
  <2>1. QED
    BY <1>1, ItemFacts
<1>5. CASE ~k.found
  BY <1>2, <1>3, <1>5 DEF Follows
<1>6. CASE k.found
  <2>1. FollowsFound(k) /\ k.framer.at \in Nat
        /\ (k.inner.given = 0 => Offset(k) = BytesOf(k.inner.item))
    BY <1>6, FollowsReads
  <2>2. Told(m) = Told(k)
    BY <1>2 DEF Told
  <2>3. CASE At(k).id = k.id
    <3>1. At(k).from + k.inner.given = k.framer.at /\ m.pending = n
      BY <1>6, <2>3
    <3>2. OnPage(m)
      BY <1>1, <1>2, <1>3, <2>3 DEF OnPage
    <3>3. m.framer.at + m.pending = Offset(m)
      <4>1. Offset(m) = At(k).from + (k.inner.given + n)
        BY <1>2, <1>3, <3>2 DEF Offset
      <4> HIDE DEF j
      <4>2. QED
        BY <1>1, <1>4, <3>1, <4>1
    <3>4. ItemFault(j) = "none"
      <4>1. CASE k.inner.given = 0
        <5>1. At(k).from = BytesOf(j - 1)
          <6>1. k.framer.at = Offset(k)
            BY <2>1 DEF FollowsFound
          <6> HIDE DEF j
          <6>2. QED
            BY <1>1, <1>4, <2>1, <3>1, <4>1, <6>1
        <5> HIDE DEF j
        <5>2. ~Stray(j)
          BY <1>1, <5>1 DEF Stray, Script
        <5>3. j \notin Described
          BY <1>1, DescribedFacts
        <5>4. QED
          BY <1>1, <5>2, <5>3 DEF ItemFault, Script
      <4>2. CASE k.inner.given # 0
        <5>1. OnPage(k)
          BY <1>1, <2>3, <4>2 DEF OnPage
        <5>2. QED
          BY <2>1, <5>1 DEF FollowsFound, Unfaulty
      <4>3. QED
        BY <4>1, <4>2
    <3>5. Unfaulty(m)
      BY <1>2, <2>1, <3>4 DEF FollowsFound, Unfaulty
    <3>6. FollowsFound(m)
      BY <1>2, <2>1, <2>2, <3>3, <3>5 DEF FollowsFound
    <3>7. QED
      BY <1>3, <1>6, <3>6 DEF Follows
  <2>4. CASE At(k).id # k.id
    <3>1. m.pending = 0
      BY <1>6, <2>4
    <3>2. ~OnPage(k) /\ ~OnPage(m)
      BY <1>3, <2>4 DEF OnPage
    <3>3. Offset(m) = Offset(k)
      BY <1>2, <3>2 DEF Offset
    <3>4. Unfaulty(m)
      BY <1>2, <2>1, <3>2 DEF FollowsFound, Unfaulty
    <3>5. FollowsFound(m)
      BY <1>2, <2>1, <2>2, <3>1, <3>3, <3>4 DEF FollowsFound
    <3>6. QED
      BY <1>3, <1>6, <3>5 DEF Follows
  <2>5. QED
    BY <2>3, <2>4
<1>7. QED
  BY <1>5, <1>6

\* What is staged: bytes of the page at hand, which is not the last item.
LEMMA StagedFacts ==
  ASSUME file \in Files, NEW k, WalkOk(k), Follows(k), k.pending > 0
  PROVE  /\ k.found = TRUE /\ FollowsFound(k) /\ Reads(k.framer)
         /\ k.pending \in Nat \ {0} /\ k.framer.at \in Nat /\ k.framer.records \in Nat
         /\ k.framer.at + k.pending <= k.framer.total /\ k.framer.total \in Nat
         /\ k.framer.stage \notin {"Done", "Ended"}
         /\ OnPage(k) /\ k.inner.item < Len(Script)
         /\ k.framer.at + k.pending = At(k).from + k.inner.given
<1>1. Typed(k) /\ k.pending \in Nat \ {0} /\ k.found = TRUE
  BY BoundsAssumption DEF WalkOk, Typed, Unfound
<1>2. FollowsFound(k) /\ Reads(k.framer) /\ FoundOk(k) /\ k.framer.records \in Nat
  BY <1>1, FollowsReads
<1>3. /\ FrameOk(file.stream, k.framer) /\ k.framer.at + k.pending <= k.framer.total
      /\ OnPage(k) /\ k.framer.at + k.pending = At(k).from + k.inner.given
  BY <1>1, <1>2 DEF FoundOk
<1>4. k.framer.at \in Nat /\ k.framer.total \in Nat
  BY <1>2, ReadsFacts
<1>5. k.framer.stage \notin {"Done", "Ended"}
  <2>1. k.framer.at # k.framer.total
    BY <1>1, <1>3, <1>4
  <2>2. k.framer.stage \in {"Done", "Ended"} => k.framer.at = k.framer.total
    BY <1>3 DEF FrameOk
  <2>3. QED
    BY <2>1, <2>2
<1>6. k.inner.item < Len(Script)
  BY <1>3 DEF OnPage, WalkOk, Placed, Script
<1>7. QED
  BY <1>1, <1>2, <1>3, <1>4, <1>5, <1>6

\* The framer takes some of what is staged.
LEMMA FramedFollows ==
  ASSUME file \in Files, NEW k, WalkOk(k), Follows(k), k.pending > 0,
         FrameFeed(file.stream, k.framer, k.pending).error = "none",
         NEW m, m.inner = k.inner, m.found = k.found, m.id = k.id,
         m.framer = FrameFeed(file.stream, k.framer, k.pending).frame,
         m.pending = k.pending - FrameFeed(file.stream, k.framer, k.pending).taken,
         LET r == FrameFeed(file.stream, k.framer, k.pending)
         IN /\ m.handed = CASE r.event = "Payload" -> k.handed + r.taken
                            [] r.event = "Object"  -> 0
                            [] OTHER               -> k.handed
            /\ m.commits = IF r.event = "Object"
                           THEN Append(k.commits,
                                       [step |-> "Object", handle |-> RecordAt(file.stream, k.framer).handle,
                                        offset |-> k.framer.start, size |-> k.framer.size,
                                        payload |-> k.handed])
                           ELSE k.commits
  PROVE  Follows(m)
<1> DEFINE f == k.framer
           r == FrameFeed(file.stream, k.framer, k.pending)
           n == f.records
<1>1. /\ k.found = TRUE /\ FollowsFound(k) /\ Reads(f)
      /\ k.pending \in Nat \ {0} /\ f.at \in Nat /\ n \in Nat
      /\ f.at + k.pending <= f.total /\ f.stage \notin {"Done", "Ended"}
      /\ k.inner.item < Len(Script)
  BY StagedFacts
<1>2. Reads(r.frame) /\ Stepped(f, r)
  BY <1>1, FeedReads
<1>3. Framed(file.stream, f, k.pending, r)
  <2>1. FrameOk(file.stream, f)
    BY <1>1, ReadsFacts
  <2>2. QED
    BY <1>1, <2>1, FileFacts, FrameFeedOk
<1>4. m.handed = CASE r.event = "Payload" -> k.handed + r.taken
                   [] r.event = "Object"  -> 0
                   [] OTHER               -> k.handed
  OBVIOUS
<1>5. m.commits = IF r.event = "Object"
                  THEN Append(k.commits,
                              [step |-> "Object", handle |-> RecordAt(file.stream, f).handle,
                               offset |-> f.start, size |-> f.size, payload |-> k.handed])
                  ELSE k.commits
  OBVIOUS
<1>6. m.framer = r.frame /\ m.pending = k.pending - r.taken
  OBVIOUS
<1> HIDE DEF r
<1>7. k.handed = f.done
  BY DEF Follows
<1>8. m.handed = m.framer.done
  BY <1>2, <1>4, <1>6, <1>7 DEF Stepped
<1>9. At(m) = At(k) /\ OnPage(m) = OnPage(k) /\ Offset(m) = Offset(k)
  BY SamePlace
<1>10. r.taken \in 1..k.pending /\ r.frame.at = f.at + r.taken /\ r.frame.total = f.total
       /\ r.frame.stage # "Ended"
  BY <1>3 DEF Framed
<1>11. m.framer.at + m.pending = Offset(m)
  <2>1. f.at + k.pending = Offset(k)
    BY <1>1 DEF FollowsFound
  <2> HIDE DEF f
  <2>2. r.frame.at + (k.pending - r.taken) = f.at + k.pending
    BY <1>1, <1>10
  <2>3. QED
    BY <1>6, <1>9, <2>1, <2>2
<1>12. Unfaulty(m)
  BY <1>1, <1>9 DEF FollowsFound, Unfaulty
<1>13. k.commits = ObjectsOf(n)
  BY <1>1 DEF FollowsFound, Told
<1>14. m.commits = ObjectsOf(m.framer.records)
  <2>1. CASE r.event = "Object"
    <3>1. /\ r.frame.records = n + 1 /\ f.start = Start[n] /\ f.size = Spelt(n).size
          /\ f.done = McOf(n) + Spelt(n).size
      BY <1>2, <2>1 DEF Stepped
    <3>2. RecordAt(file.stream, f) = Spelt(n)
      BY SpeltAt
    <3>3. [step |-> "Object", handle |-> RecordAt(file.stream, f).handle,
           offset |-> f.start, size |-> f.size, payload |-> k.handed] = ObjectOf(n)
      BY <1>7, <3>1, <3>2 DEF ObjectOf
    <3>4. m.commits = Append(ObjectsOf(n), ObjectOf(n))
      BY <1>5, <1>13, <2>1, <3>3
    <3>5. ObjectsOf(n + 1) = Append(ObjectsOf(n), ObjectOf(n))
      BY <1>1, ObjectsOfStep
    <3>6. QED
      BY <1>6, <3>1, <3>4, <3>5
  <2>2. CASE r.event # "Object"
    <3>1. r.frame.records = n
      BY <1>2, <2>2 DEF Stepped
    <3>2. QED
      BY <1>5, <1>6, <1>13, <2>2, <3>1
  <2>3. QED
    BY <2>1, <2>2
<1>15. m.commits = Told(m)
  BY <1>6, <1>10, <1>14 DEF Told
<1>16. Spells(m.framer) /\ m.framer.total = f.total
  BY <1>2, <1>6, <1>10 DEF Reads
<1>17. m.inner.item # Len(Script)
  <2>1. Len(Script) \in Nat /\ k.inner.item \in Nat
    BY FileFacts DEF Script, WalkOk, Placed
  <2>2. QED
    BY <1>1, <2>1
<1>18. FollowsFound(m)
  BY <1>1, <1>11, <1>12, <1>15, <1>16, <1>17 DEF FollowsFound
<1>19. QED
  BY <1>1, <1>8, <1>18 DEF Follows

\* The section ends.
LEMMA EndedFollows ==
  ASSUME file \in Files, NEW k, WalkOk(k), Follows(k), k.framer.stage = "Done",
         NEW m, m.inner = k.inner, m.found = k.found, m.id = k.id, m.pending = k.pending,
         m.framer = [k.framer EXCEPT !.stage = "Ended"], m.handed = k.handed,
         m.commits = Append(k.commits, TheEnd(k.framer.records))
  PROVE  Follows(m)
<1> DEFINE n == k.framer.records
<1>1. k.found = TRUE
  BY DEF WalkOk, Typed, Unfound, Idle
<1>2. FollowsFound(k) /\ FoundOk(k) /\ n \in Nat
  BY <1>1, FollowsReads
<1>3. k.framer \in FrameType
  BY DEF WalkOk, Typed
<1>4. /\ m.framer.stage = "Ended" /\ m.framer.records = n /\ m.framer.done = k.framer.done
      /\ m.framer.total = k.framer.total /\ m.framer.at = k.framer.at
      /\ m.framer.start = k.framer.start
  BY <1>3 DEF FrameType
<1>5. At(m) = At(k) /\ OnPage(m) = OnPage(k) /\ Offset(m) = Offset(k)
  BY SamePlace
<1>6. k.inner.item < Len(Script)
  BY <1>2 DEF FoundOk, OnPage, WalkOk, Placed, Script
<1>7. m.commits = Told(m)
  <2>1. k.commits = ObjectsOf(n)
    BY <1>2 DEF FollowsFound, Told
  <2>2. m.commits = ObjectsOf(n) \o <<TheEnd(n)>>
    BY <1>2, <2>1, EndsAppended
  <2>3. QED
    BY <1>4, <1>6, <2>2 DEF Told
<1>8. Spells(m.framer)
  BY <1>2, <1>4 DEF FollowsFound, Spells
<1>9. Unfaulty(m)
  BY <1>2, <1>5 DEF FollowsFound, Unfaulty
<1>10. m.framer.at + m.pending = Offset(m) /\ First \in 1..m.inner.item
  BY <1>2, <1>4, <1>5 DEF FollowsFound
<1>11. FollowsFound(m)
  BY <1>2, <1>4, <1>7, <1>8, <1>9, <1>10 DEF FollowsFound
<1>12. QED
  BY <1>1, <1>4, <1>11 DEF Follows

----------------------------------------------------------------------------
(* Where the walk fails, the reading does. *)

\* The reading is at fault with the item at hand.
LEMMA FaultReading ==
  ASSUME file \in Files, NEW k, WalkOk(k), Follows(k), k.found, k.pending = 0,
         k.framer.stage # "Done", k.inner.item < Len(file.script), k.inner.given = 0,
         ItemFault(k.inner.item + 1) # "none"
  PROVE  k.commits = Reading.commits /\ ItemFault(k.inner.item + 1) = Reading.failure
<1> DEFINE j == k.inner.item + 1
           n == k.framer.records
           fault == ItemFault(j)
<1>1. j \in 1..Len(file.script) /\ j - 1 = k.inner.item /\ k.inner.item < Len(Script)
  BY HereFacts DEF WalkOk, Script
<1>2. /\ FollowsFound(k) /\ Reads(k.framer) /\ Described # {} /\ k.framer.at \in Nat
      /\ Offset(k) = BytesOf(k.inner.item)
  BY FollowsReads
<1>3. k.framer.at = BytesOf(j - 1)
  BY <1>1, <1>2 DEF FollowsFound
<1>4. \A i \in 1..(j - 1) : ItemFault(i) = "none"
  BY <1>1, <1>2 DEF FollowsFound, Unfaulty
<1> HIDE DEF j
<1>5. ~Through /\ StopsAt = j /\ Delivered = BytesOf(j - 1)
  BY <1>1, <1>4, StopsHere DEF j
<1>6. Reading = IF k.framer.stage # "Ended" THEN Outcome(ObjectsOf(n), fault)
                ELSE Outcome(ObjectsOf(n) \o <<TheEnd(n)>>, fault)
  BY <1>2, <1>3, <1>5, StopReading
<1>7. k.commits = IF k.framer.stage # "Ended" THEN ObjectsOf(n) ELSE ObjectsOf(n) \o <<TheEnd(n)>>
  BY <1>1, <1>2 DEF FollowsFound, Told
<1> HIDE DEF fault
<1>8. QED
  BY <1>6, <1>7 DEF Outcome, fault, j

\* The object section is described a second time.
LEMMA EntryReading ==
  ASSUME file \in Files, NEW k, WalkOk(k), Follows(k), k.found, k.pending = 0,
         k.framer.stage # "Done", k.inner.item < Len(file.script),
         At(k).kind = "Section", At(k).objects
  PROVE  k.commits = Reading.commits /\ Reading.failure = "SectionEntry"
<1> DEFINE j == k.inner.item + 1
<1>1. j \in 1..Len(file.script) /\ file.script[j] = At(k) /\ k.inner.given = 0
      /\ j - 1 = k.inner.item
  BY HereFacts DEF WalkOk, Placed
<1>2. FollowsFound(k)
  BY FollowsReads
<1> HIDE DEF j
<1>3. j \in Described /\ First # j
  <2>1. First \in 1..(j - 1)
    BY <1>1, <1>2 DEF FollowsFound
  <2>2. QED
    BY <1>1, <2>1, DescribedFacts
<1>4. ItemFault(j) = "SectionEntry"
  BY <1>1, <1>3 DEF ItemFault, Script
<1>5. QED
  BY <1>1, <1>4, FaultReading DEF j

\* The object section is too short for its prologue.
LEMMA ShortReading ==
  ASSUME file \in Files, NEW k, WalkOk(k), Follows(k), ~k.found, k.inner.item < Len(file.script),
         At(k).kind = "Section", At(k).objects, TooShort(At(k).size)
  PROVE  k.commits = Reading.commits /\ Reading.failure = "ObjectPrologue"
<1> DEFINE j == k.inner.item + 1
<1>1. j \in 1..Len(file.script) /\ file.script[j] = At(k) /\ j - 1 = k.inner.item
  BY HereFacts DEF WalkOk
<1>2. j \in Described /\ \A i \in 1..(j - 1) : i \notin Described
  BY <1>1, DescribedFacts, UnfoundSections DEF WalkOk
<1> HIDE DEF j
<1>3. /\ Described # {} /\ First = j /\ Objects = At(k)
      /\ \A i \in 1..(j - 1) : ItemFault(i) = "none"
      /\ BytesOf(j - 1) = 0
  BY <1>1, <1>2, BeforeFirst
<1>4. Objects.size < Prologue
  BY <1>3 DEF TooShort
<1>5. ItemFault(j) = "ObjectPrologue"
  BY <1>1, <1>2, <1>3, <1>4 DEF ItemFault, Script
<1>6. ~Through /\ StopsAt = j /\ Delivered = 0
  BY <1>1, <1>3, <1>5, StopsHere
<1>7. Reading = Outcome(<<>>, "ObjectPrologue")
  BY <1>3, <1>4, <1>5, <1>6, TooShortReading
<1>8. QED
  BY <1>7 DEF Follows, Outcome

\* A page of the section is behind a gap, or before bytes that came already.
LEMMA OrderReading ==
  ASSUME file \in Files, NEW k, WalkOk(k), Follows(k), k.found, k.pending = 0,
         k.framer.stage # "Done", k.inner.item < Len(file.script),
         At(k).id = k.id,
         \/ At(k).kind = "Hole"
         \/ At(k).kind = "Data" /\ At(k).from + k.inner.given # k.framer.at
  PROVE  k.commits = Reading.commits /\ Reading.failure = "ObjectsOrder"
<1> DEFINE j == k.inner.item + 1
<1>1. j \in 1..Len(file.script) /\ file.script[j] = At(k) /\ j - 1 = k.inner.item
      /\ k.inner.given \in Nat
  BY HereFacts DEF WalkOk
<1>2. /\ FollowsFound(k) /\ k.framer.at \in Nat
      /\ (k.inner.given = 0 => Offset(k) = BytesOf(k.inner.item))
  BY FollowsReads
<1>3. k.id = Objects.id /\ k.framer.at = Offset(k)
  BY <1>2 DEF FollowsFound
<1>4. k.inner.given = 0
  <2> SUFFICES ASSUME k.inner.given # 0 PROVE FALSE
    OBVIOUS
  <2>1. k.inner.given > 0
    BY <1>1
  <2>2. OnPage(k) /\ At(k).kind = "Data"
    BY <2>1 DEF OnPage, WalkOk, Placed
  <2>3. QED
    BY <1>3, <2>2 DEF Offset
<1>5. At(k).kind = "Data" => At(k).from \in Nat
  <2> HIDE DEF j
  <2>1. QED
    BY <1>1, ItemFacts
<1>6. At(k).kind = "Data" => At(k).from # BytesOf(j - 1)
  <2> HIDE DEF j
  <2>1. QED
    BY <1>1, <1>2, <1>3, <1>4, <1>5
<1> HIDE DEF j
<1>7. Stray(j)
  BY <1>1, <1>3, <1>6 DEF Stray, Script
<1>8. j \notin Described
  BY <1>1, DescribedFacts
<1>9. ItemFault(j) = "ObjectsOrder"
  BY <1>1, <1>7, <1>8 DEF ItemFault, Script
<1>10. QED
  BY <1>4, <1>9, FaultReading DEF j

\* The last item is not the section's.
LEMMA Undescribed ==
  ASSUME file \in Files, NEW k, WalkOk(k), ~k.found, k.inner.item < Len(file.script),
         At(k).kind \in {"Finished", "Refused"}
  PROVE  Described = {} /\ Script[Len(Script)] = At(k)
<1> DEFINE j == k.inner.item + 1
<1>1. j \in 1..Len(file.script) /\ file.script[j] = At(k) /\ j - 1 = k.inner.item
      /\ Len(file.script) \in Nat
  BY HereFacts DEF WalkOk
<1>2. \A i \in 1..(j - 1) : i \notin Described
  BY <1>1, UnfoundSections DEF WalkOk
<1> HIDE DEF j
<1>3. j = Len(file.script)
  BY <1>1, ScriptEnds
<1>4. j \notin Described
  BY <1>1, DescribedFacts
<1>5. \A i \in 1..j : i \in 1..(j - 1) \/ i = j
  BY <1>1
<1>6. Described = {}
  BY <1>2, <1>3, <1>4, <1>5, DescribedFacts
<1>7. QED
  BY <1>1, <1>3, <1>6 DEF Script

LEMMA RefusedReading ==
  ASSUME file \in Files, NEW k, WalkOk(k), Follows(k), k.pending = 0,
         k.framer.stage # "Done", k.inner.item < Len(file.script), At(k).kind = "Refused"
  PROVE  k.commits = Reading.commits /\ Reading.failure = "Refused"
<1>1. CASE k.found
  <2> DEFINE j == k.inner.item + 1
  <2>1. file.script[j] = At(k) /\ k.inner.given = 0
    BY HereFacts DEF WalkOk, Placed
  <2>2. ItemFault(j) = "Refused"
    BY <2>1 DEF ItemFault, Script
  <2>3. QED
    BY <1>1, <2>1, <2>2, FaultReading
<1>2. CASE ~k.found
  <2>1. Described = {} /\ Script[Len(Script)].kind = "Refused"
    BY <1>2, Undescribed
  <2>2. Reading = Outcome(<<>>, "Refused")
    BY <2>1 DEF Reading
  <2>3. QED
    BY <1>2, <2>2 DEF Outcome, Follows
<1>3. QED
  BY <1>1, <1>2

\* The walk finishes, and its objects do not.
LEMMA UnfinishedReading ==
  ASSUME file \in Files, NEW k, WalkOk(k), Follows(k), k.pending = 0,
         k.framer.stage \notin {"Done", "Ended"},
         k.inner.item < Len(file.script), At(k).kind = "Finished"
  PROVE  k.commits = Reading.commits
         /\ Reading.failure = IF k.found THEN "ObjectsIncomplete" ELSE "ObjectsMissing"
<1>1. CASE ~k.found
  <2>1. Described = {} /\ Script[Len(Script)].kind = "Finished"
    BY <1>1, Undescribed
  <2>2. Reading = Outcome(<<>>, "ObjectsMissing")
    BY <2>1 DEF Reading
  <2>3. QED
    BY <1>1, <2>2 DEF Outcome, Follows
<1>2. CASE k.found
  <2> DEFINE j == k.inner.item + 1
             n == k.framer.records
  <2>1. j \in 1..Len(file.script) /\ file.script[j] = At(k) /\ j - 1 = k.inner.item
        /\ k.inner.given = 0 /\ Len(file.script) \in Nat
    BY HereFacts DEF WalkOk, Placed
  <2>2. j = Len(file.script)
    BY <2>1, ScriptEnds
  <2>3. /\ FollowsFound(k) /\ Reads(k.framer) /\ Described # {} /\ k.framer.at \in Nat
        /\ Offset(k) = BytesOf(k.inner.item)
    BY <1>2, <2>1, FollowsReads
  <2>4. k.framer.at = BytesOf(j - 1)
    BY <2>1, <2>3 DEF FollowsFound
  <2>5. \A i \in 1..(j - 1) : ItemFault(i) = "none"
    BY <2>1, <2>3 DEF FollowsFound, Unfaulty
  <2>6. ItemFault(j) = "none"
    BY <1>2, PassFault
  <2> HIDE DEF j
  <2>7. \A i \in 1..Len(file.script) : i \in 1..(j - 1) \/ i = j
    BY <2>1, <2>2
  <2>8. Through /\ Delivered = BytesOf(j - 1)
    BY <2>2, <2>5, <2>6, <2>7, StopsNowhere
  <2>9. Reading = Outcome(ObjectsOf(n), "ObjectsIncomplete")
    BY <2>3, <2>4, <2>8, StopReading
  <2>10. k.commits = ObjectsOf(n)
    BY <2>3 DEF FollowsFound, Told
  <2>11. QED
    BY <1>2, <2>9, <2>10 DEF Outcome
<1>3. QED
  BY <1>1, <1>2 DEF WalkOk, Typed

\* The framer refuses the bytes that are staged.
LEMMA FramingReading ==
  ASSUME file \in Files, NEW k, WalkOk(k), Follows(k), k.pending > 0,
         FrameFeed(file.stream, k.framer, k.pending).error # "none"
  PROVE  /\ k.commits = Reading.commits
         /\ Reading.failure = FrameFeed(file.stream, k.framer, k.pending).error
<1> DEFINE j == k.inner.item + 1
           f == k.framer
           error == FrameFeed(file.stream, f, k.pending).error
<1>1. /\ FollowsFound(k) /\ Reads(f) /\ k.pending \in Nat \ {0} /\ f.at \in Nat
      /\ f.at + k.pending <= f.total /\ f.stage \notin {"Done", "Ended"}
      /\ OnPage(k) /\ k.inner.item < Len(Script)
      /\ f.at + k.pending = At(k).from + k.inner.given
  BY StagedFacts
<1>2. /\ j \in 1..Len(file.script) /\ file.script[j] = At(k) /\ j - 1 = k.inner.item
      /\ At(k).kind = "Data" /\ k.inner.given <= At(k).len /\ k.inner.given \in Nat
      /\ k.inner.item \in Nat
  BY <1>1, HereFacts DEF WalkOk, Placed, OnPage, Script
<1>3. At(k).from \in Nat /\ At(k).len \in Nat
  <2> HIDE DEF j
  <2>1. QED
    BY <1>2, ItemFacts
<1>4. Described # {} /\ First <= j
  BY <1>1, <1>2 DEF FollowsFound
<1>5. \A i \in 1..j : ItemFault(i) = "none"
  <2>1. \A i \in 1..(j - 1) : ItemFault(i) = "none"
    BY <1>1, <1>2 DEF FollowsFound, Unfaulty
  <2>2. ItemFault(j) = "none"
    BY <1>1 DEF FollowsFound, Unfaulty
  <2> HIDE DEF j
  <2>3. \A i \in 1..j : i \in 1..(j - 1) \/ i = j
    BY <1>2
  <2>4. QED
    BY <2>1, <2>2, <2>3
<1>6. At(k).id = Objects.id
  BY <1>1 DEF FollowsFound, OnPage
<1> HIDE DEF j, f, error
<1>7. BytesOf(j) = At(k).from + At(k).len
  BY <1>2, <1>6, BytesOfStep
<1>8. Delivered \in Nat /\ BytesOf(j) <= Delivered
  BY <1>2, <1>3, <1>4, <1>5, <1>7, DeliveredBehind
<1>9. f.at + k.pending <= Delivered
  BY <1>1, <1>2, <1>3, <1>7, <1>8
<1>10. Reading = Outcome(ObjectsOf(f.records), error)
  BY <1>1, <1>4, <1>8, <1>9, RefusalReading DEF error, f
<1>11. k.commits = ObjectsOf(f.records)
  BY <1>1 DEF FollowsFound, Told, f
<1>12. QED
  BY <1>10, <1>11 DEF Outcome, error, f

\* The walk is over.
LEMMA FinishedReading ==
  ASSUME file \in Files, NEW k, WalkOk(k), Follows(k), k.pending = 0,
         k.inner.item = Len(file.script)
  PROVE  k.commits = Reading.commits /\ Reading.failure = "none"
<1> DEFINE l == k.inner.item
           n == k.framer.records
<1>1. l \in Nat \ {0} /\ l = Len(file.script) /\ l \in 1..l /\ Len(Script) = Len(file.script)
      /\ l = Len(Script) /\ k.inner.given = 0
  BY FileFacts DEF Script, WalkOk, Placed
<1>2. k.found
  BY <1>1 DEF Follows
<1>3. /\ FollowsFound(k) /\ Reads(k.framer) /\ Described # {} /\ k.framer.at \in Nat
      /\ Offset(k) = BytesOf(k.inner.item)
  BY <1>1, <1>2, FollowsReads
<1>4. k.framer.stage = "Ended" /\ k.framer.at = BytesOf(l)
  BY <1>1, <1>3 DEF FollowsFound
<1>5. \A i \in 1..l : ItemFault(i) = "none"
  BY <1>3 DEF FollowsFound, Unfaulty
<1>6. file.script[l].kind \in {"Finished", "Refused"}
  BY <1>1, FileFacts
<1>7. k.commits = ObjectsOf(n) \o <<TheEnd(n), [step |-> "Finished"]>>
  BY <1>1, <1>3, <1>4 DEF FollowsFound, Told
<1> HIDE DEF l
<1>8. BytesOf(l) = BytesOf(l - 1)
  BY <1>1, <1>6, BytesOfStep
<1>9. Through /\ Delivered = BytesOf(l - 1)
  BY <1>1, <1>5, StopsNowhere
<1>10. Reading = Outcome(ObjectsOf(n) \o <<TheEnd(n), [step |-> "Finished"]>>, "none")
  BY <1>3, <1>4, <1>8, <1>9, StopReading
<1>11. QED
  BY <1>7, <1>10 DEF Outcome

----------------------------------------------------------------------------
(* Every step keeps the walk where the reading is. *)

LEMMA NowCommits == Now.commits = commits /\ Now'.commits = commits'
BY DEF Now

LEMMA StepAgrees ==
  ASSUME AInv, IInv', file' = file, kept' = kept,
         IF failure' = "none" THEN Follows(Now')
         ELSE commits' = Reading.commits /\ failure' = Reading.failure
  PROVE  AInv'
<1>1. Follows(kept)' <=> Follows(kept)
  BY FollowsSame
<1>2. Follows(Now)' <=> Follows(Now')
  BY FollowsSame
<1>3. Reading' = Reading
  BY ReadingSame
<1>4. failure' # "none" => Agreed'
  BY <1>3 DEF Agreed
<1>5. QED
  BY <1>1, <1>2, <1>4 DEF AInv

LEMMA FailAgrees ==
  ASSUME AInv, IInv', NEW error, error # "none", Fail(error), file' = file, kept' = kept,
         Now.commits = Reading.commits, Reading.failure = error
  PROVE  AInv'
<1>1. failure' = error /\ commits' = commits
  BY DEF Fail
<1>2. QED
  BY <1>1, StepAgrees, NowCommits

\* What the walk has where it may take a step of the file walk.
LEMMA WaitingFollows ==
  ASSUME AInv, Waiting
  PROVE  /\ file \in Files /\ WalkOk(Now) /\ Follows(Now)
         /\ Now.pending = 0 /\ Now.framer.stage # "Done" /\ Now.inner.item < Len(file.script)
         /\ Item = At(Now) /\ Now.found = found /\ Now.id = id /\ Now.inner = inner
         /\ Now.framer = framer
BY NowFacts DEF AInv, Waiting

LEMMA PassAgrees ==
  ASSUME AInv, IInv', Waiting, inner' = Passed,
         UNCHANGED <<file, kept, found, id, framer, pending, failure, handed, commits>>,
         Item.kind = "Data" => inner.given = Item.len,
         Item.kind = "Section" => ~Item.objects,
         Item.kind = "Hole" => ~(found /\ Item.id = id),
         Item.kind \notin {"Finished", "Refused"}
  PROVE  AInv'
<1> DEFINE m == Now'
<1>1. /\ m.inner = [item |-> Now.inner.item + 1, given |-> 0] /\ m.found = Now.found /\ m.id = Now.id
      /\ m.framer = Now.framer /\ m.pending = Now.pending /\ m.handed = Now.handed
      /\ m.commits = Now.commits
  BY DEF Now, Passed
<1>2. /\ At(Now).kind = "Data" => Now.inner.given = At(Now).len
      /\ At(Now).kind = "Section" => ~At(Now).objects
      /\ At(Now).kind = "Hole" => ~(Now.found /\ At(Now).id = Now.id)
      /\ At(Now).kind \notin {"Finished", "Refused"}
  BY WaitingFollows
<1>3. Follows(m)
  <2> HIDE DEF m
  <2>1. QED
    BY <1>1, <1>2, WaitingFollows, PassFollows
<1>4. failure' = "none"
  BY DEF Waiting
<1>5. QED
  BY <1>3, <1>4, StepAgrees

LEMMA OnSectionAgrees ==
  ASSUME AInv, IInv', Waiting, OnSection, UNCHANGED <<file, kept>>
  PROVE  AInv'
<1>1. Item.kind = "Section" /\ inner' = Passed /\ failure = "none"
  BY DEF OnSection, Waiting
<1>2. CASE /\ Item.objects /\ (found \/ TooShort(Item.size))
           /\ Fail(IF found THEN "SectionEntry" ELSE "ObjectPrologue")
  <2>1. CASE found
    <3>1. Now.commits = Reading.commits /\ Reading.failure = "SectionEntry"
      BY <1>1, <1>2, <2>1, WaitingFollows, EntryReading
    <3>2. Fail("SectionEntry")
      BY <1>2, <2>1
    <3>3. QED
      BY <3>1, <3>2, FailAgrees
  <2>2. CASE ~found
    <3>1. Now.commits = Reading.commits /\ Reading.failure = "ObjectPrologue"
      BY <1>1, <1>2, <2>2, WaitingFollows, ShortReading
    <3>2. Fail("ObjectPrologue")
      BY <1>2, <2>2
    <3>3. QED
      BY <3>1, <3>2, FailAgrees
  <2>3. QED
    BY <2>1, <2>2
<1>3. CASE /\ Item.objects /\ ~found /\ ~TooShort(Item.size)
           /\ found' = TRUE /\ id' = Item.id
           /\ framer' = Begin(file.format, Item.size)
           /\ UNCHANGED <<pending, failure, handed, commits>>
  <2> DEFINE m == Now'
  <2>1. /\ m.inner = [item |-> Now.inner.item + 1, given |-> 0] /\ m.found = TRUE
        /\ m.id = At(Now).id /\ m.framer = Begin(file.format, At(Now).size)
        /\ m.pending = 0 /\ m.handed = Now.handed /\ m.commits = Now.commits
    BY <1>1, <1>3 DEF Now, Passed, Waiting
  <2>2. /\ ~Now.found /\ At(Now).kind = "Section" /\ At(Now).objects /\ ~TooShort(At(Now).size)
    BY <1>1, <1>3, WaitingFollows
  <2>3. Follows(m)
    <3> HIDE DEF m
    <3>1. QED
      BY <2>1, <2>2, WaitingFollows, FoundFollows
  <2>4. QED
    BY <1>1, <1>3, <2>3, StepAgrees
<1>4. CASE ~Item.objects /\ UNCHANGED <<found, id, framer, pending, failure, handed, commits>>
  BY <1>1, <1>4, PassAgrees
<1>5. QED
  BY <1>2, <1>3, <1>4 DEF OnSection

LEMMA OnDataAgrees ==
  ASSUME AInv, IInv', Waiting, OnData, UNCHANGED <<file, kept>>
  PROVE  AInv'
<1>1. /\ Item.kind = "Data" /\ inner.given < Item.len /\ failure = "none"
  BY DEF OnData, Waiting
<1>2. /\ inner.given \in Nat /\ Item.len \in Nat /\ StageBytes \in Nat \ {0}
  <2>1. inner.given \in Nat /\ inner.item \in Nat /\ inner.item + 1 \in 1..Len(file.script)
    BY FileFacts DEF Waiting, WalkOk, Placed, Now
  <2>2. Item.len \in Nat
    BY <1>1, <2>1, ItemFacts DEF Item, Waiting
  <2>3. QED
    BY <2>1, <2>2, BoundsAssumption
<1>3. PICK piece \in Pieces :
        LET n == Fewest(piece, Fewest(Item.len - inner.given, StageBytes))
        IN /\ inner' = [inner EXCEPT !.given = @ + n]
           /\ \/ /\ found /\ Item.id = id /\ ~InOrder
                 /\ Fail("ObjectsOrder")
              \/ /\ found /\ Item.id = id /\ InOrder
                 /\ pending' = n
                 /\ UNCHANGED <<found, id, framer, failure, handed, commits>>
              \/ /\ ~(found /\ Item.id = id)
                 /\ UNCHANGED <<found, id, framer, pending, failure, handed, commits>>
  BY DEF OnData
<1> DEFINE n == Fewest(piece, Fewest(Item.len - inner.given, StageBytes))
<1>4. n \in Nat \ {0}
  <2>1. Item.len - inner.given \in Nat \ {0} /\ piece \in Nat \ {0}
    BY <1>1, <1>2, BoundsAssumption
  <2>2. QED
    BY <1>2, <2>1, FewestFacts
<1> HIDE DEF n
<1>5. /\ inner' = [inner EXCEPT !.given = @ + n]
      /\ \/ found /\ Item.id = id /\ ~InOrder /\ Fail("ObjectsOrder")
         \/ /\ found /\ Item.id = id /\ InOrder /\ pending' = n
            /\ UNCHANGED <<found, id, framer, failure, handed, commits>>
         \/ /\ ~(found /\ Item.id = id)
            /\ UNCHANGED <<found, id, framer, pending, failure, handed, commits>>
  BY <1>3 DEF n
<1>6. CASE found /\ Item.id = id /\ ~InOrder /\ Fail("ObjectsOrder")
  <2>1. /\ Now.found /\ At(Now).id = Now.id /\ At(Now).kind = "Data"
        /\ At(Now).from + Now.inner.given # Now.framer.at
    BY <1>1, <1>6, WaitingFollows DEF InOrder, Cursor
  <2>2. Now.commits = Reading.commits /\ Reading.failure = "ObjectsOrder"
    BY <2>1, WaitingFollows, OrderReading
  <2>3. QED
    BY <1>6, <2>2, FailAgrees
<1>7. CASE \/ /\ found /\ Item.id = id /\ InOrder /\ pending' = n
              /\ UNCHANGED <<found, id, framer, failure, handed, commits>>
           \/ /\ ~(found /\ Item.id = id)
              /\ UNCHANGED <<found, id, framer, pending, failure, handed, commits>>
  <2> DEFINE m == Now'
  <2>1. /\ m.inner = [Now.inner EXCEPT !.given = @ + n] /\ m.found = Now.found
        /\ m.id = Now.id /\ m.framer = Now.framer /\ m.handed = Now.handed
        /\ m.commits = Now.commits
    BY <1>5, <1>7 DEF Now
  <2>2. \/ /\ Now.found /\ At(Now).id = Now.id /\ At(Now).from + Now.inner.given = Now.framer.at
           /\ m.pending = n
        \/ ~(Now.found /\ At(Now).id = Now.id) /\ m.pending = 0
    BY <1>7 DEF Now, Waiting, InOrder, Cursor
  <2>3. At(Now).kind = "Data"
    BY <1>1, WaitingFollows
  <2>4. Follows(m)
    <3> HIDE DEF m
    <3>1. QED
      BY <1>4, <2>1, <2>2, <2>3, WaitingFollows, GiveFollows
  <2>5. failure' = failure
    BY <1>7
  <2>6. QED
    BY <1>1, <2>4, <2>5, StepAgrees
<1>8. QED
  BY <1>5, <1>6, <1>7

LEMMA OnFinishedAgrees ==
  ASSUME AInv, IInv', Waiting, OnFinished, UNCHANGED <<file, kept>>
  PROVE  AInv'
<1>1. Item.kind = "Finished" /\ inner' = Passed /\ failure = "none" /\ At(Now).kind = "Finished"
  BY WaitingFollows DEF OnFinished, Waiting
<1>2. CASE FinishFault # "none" /\ Fail(FinishFault)
  <2>1. Now.framer.stage \notin {"Done", "Ended"}
    <3>1. CASE ~found
      <4>1. Now.framer = Idle
        BY <3>1, WaitingFollows DEF WalkOk, Unfound
      <4>2. QED
        BY <4>1 DEF Idle
    <3>2. CASE found
      BY <1>2, <3>2, WaitingFollows DEF FinishFault
    <3>3. QED
      BY <3>1, <3>2
  <2>2. /\ Now.commits = Reading.commits
        /\ Reading.failure = IF Now.found THEN "ObjectsIncomplete" ELSE "ObjectsMissing"
    BY <1>1, <2>1, WaitingFollows, UnfinishedReading
  <2>3. FinishFault = Reading.failure
    BY <2>1, <2>2, WaitingFollows DEF FinishFault
  <2>4. QED
    BY <1>2, <2>2, <2>3, FailAgrees
<1>3. CASE /\ FinishFault = "none"
           /\ commits' = Append(commits, [step |-> "Finished"])
           /\ UNCHANGED <<found, id, framer, pending, failure, handed>>
  <2> DEFINE m == Now'
  <2>1. /\ m.inner = [item |-> Now.inner.item + 1, given |-> 0] /\ m.found = Now.found /\ m.id = Now.id
        /\ m.framer = Now.framer /\ m.pending = Now.pending /\ m.handed = Now.handed
        /\ m.commits = Append(Now.commits, [step |-> "Finished"])
    BY <1>1, <1>3 DEF Now, Passed
  <2>2. Now.found /\ Now.framer.stage = "Ended"
    BY <1>3, WaitingFollows DEF FinishFault
  <2>3. Follows(m)
    <3> HIDE DEF m
    <3>1. QED
      BY <1>1, <2>1, <2>2, WaitingFollows, FinishFollows
  <2>4. QED
    BY <1>1, <1>3, <2>3, StepAgrees
<1>4. QED
  BY <1>2, <1>3 DEF OnFinished

LEMMA OnWalkAgrees ==
  ASSUME AInv, IInv', failure = "none", OnWalk, UNCHANGED <<file, kept>>
  PROVE  AInv'
<1>1. Waiting
  BY WaitingFacts DEF OnWalk, AInv
<1>2. CASE OnSection
  BY <1>1, <1>2, OnSectionAgrees
<1>3. CASE OnData
  BY <1>1, <1>3, OnDataAgrees
<1>4. CASE OnHole
  <2>1. Item.kind = "Hole" /\ inner' = Passed
    BY <1>4 DEF OnHole
  <2>2. CASE found /\ Item.id = id /\ Fail("ObjectsOrder")
    <3>1. Now.commits = Reading.commits /\ Reading.failure = "ObjectsOrder"
      BY <1>1, <2>1, <2>2, WaitingFollows, OrderReading
    <3>2. QED
      BY <2>2, <3>1, FailAgrees
  <2>3. CASE /\ ~(found /\ Item.id = id)
             /\ UNCHANGED <<found, id, framer, pending, failure, handed, commits>>
    BY <1>1, <2>1, <2>3, PassAgrees
  <2>4. QED
    BY <1>4, <2>2, <2>3 DEF OnHole
<1>5. CASE OnOther
  <2>1. /\ Item.kind \in {"Other", "SectionEnd"} \/ (Item.kind = "Data" /\ inner.given = Item.len)
        /\ inner' = Passed
        /\ UNCHANGED <<found, id, framer, pending, failure, handed, commits>>
    BY <1>5 DEF OnOther
  <2>2. QED
    BY <1>1, <2>1, PassAgrees
<1>6. CASE OnRefused
  <2>1. At(Now).kind = "Refused" /\ Fail("Refused")
    BY <1>1, <1>6, WaitingFollows DEF OnRefused
  <2>2. Now.commits = Reading.commits /\ Reading.failure = "Refused"
    BY <1>1, <2>1, WaitingFollows, RefusedReading
  <2>3. QED
    BY <2>1, <2>2, FailAgrees
<1>7. CASE OnFinished
  BY <1>1, <1>7, OnFinishedAgrees
<1>8. QED
  BY <1>2, <1>3, <1>4, <1>5, <1>6, <1>7 DEF OnWalk

LEMMA FrameDoneAgrees ==
  ASSUME AInv, IInv', failure = "none", FrameDone, UNCHANGED <<file, kept>>
  PROVE  AInv'
<1> DEFINE m == Now'
<1>1. file \in Files /\ WalkOk(Now) /\ Follows(Now) /\ Now.framer = framer
      /\ Now.framer.stage = "Done" /\ Now.found
  BY NowFacts DEF FrameDone, AInv, IInv, WalkOk, Unfound, Idle
<1>2. Now.framer.total = Objects.size
  BY <1>1 DEF Follows, FollowsFound
<1>3. [step |-> "Objects", records |-> framer.records, bytes |-> framer.total] =
        TheEnd(Now.framer.records)
  BY <1>1, <1>2 DEF TheEnd
<1>4. /\ m.inner = Now.inner /\ m.found = Now.found /\ m.id = Now.id /\ m.pending = Now.pending
      /\ m.framer = [Now.framer EXCEPT !.stage = "Ended"] /\ m.handed = Now.handed
      /\ m.commits = Append(Now.commits, TheEnd(Now.framer.records))
  BY <1>3 DEF FrameDone, Now
<1>5. Follows(m)
  <2> HIDE DEF m
  <2>1. QED
    BY <1>1, <1>4, EndedFollows
<1>6. failure' = failure
  BY DEF FrameDone
<1>7. QED
  BY <1>5, <1>6, StepAgrees

LEMMA FramePendingAgrees ==
  ASSUME AInv, IInv', failure = "none", FramePending, UNCHANGED <<file, kept>>
  PROVE  AInv'
<1> DEFINE r == FrameFeed(file.stream, framer, pending)
<1>1. file \in Files /\ WalkOk(Now) /\ Follows(Now) /\ Now.framer = framer /\ Now.pending = pending
      /\ Now.pending > 0
  BY NowFacts DEF FramePending, AInv, IInv
<1>2. CASE r.error # "none"
  <2>1. Fail(r.error)
    BY <1>2 DEF FramePending
  <2>2. Now.commits = Reading.commits /\ Reading.failure = r.error
    BY <1>1, <1>2, FramingReading
  <2> HIDE DEF r
  <2>3. QED
    BY <1>2, <2>1, <2>2, FailAgrees
<1>3. CASE r.error = "none"
  <2> DEFINE m == Now'
             s == FrameFeed(file.stream, Now.framer, Now.pending)
  <2>1. /\ inner' = inner /\ found' = found /\ id' = id /\ failure' = failure
        /\ framer' = r.frame /\ pending' = pending - r.taken
        /\ handed' = CASE r.event = "Payload" -> handed + r.taken
                       [] r.event = "Object"  -> 0
                       [] OTHER               -> handed
        /\ commits' = IF r.event = "Object" THEN Append(commits, ObjectStep(framer)) ELSE commits
    BY <1>3 DEF FramePending
  <2>2. /\ m.inner = Now.inner /\ m.found = Now.found /\ m.id = Now.id
        /\ m.framer = s.frame /\ m.pending = Now.pending - s.taken
    BY <2>1 DEF Now
  <2>3. ObjectStep(framer) =
          [step |-> "Object", handle |-> RecordAt(file.stream, Now.framer).handle,
           offset |-> Now.framer.start, size |-> Now.framer.size, payload |-> Now.handed]
    BY <1>1, NowFacts DEF ObjectStep
  <2>4. /\ m.handed = CASE s.event = "Payload" -> Now.handed + s.taken
                        [] s.event = "Object"  -> 0
                        [] OTHER               -> Now.handed
    <3>1. r = s /\ Now.handed = handed /\ m.handed = handed'
      BY <1>1 DEF Now
    <3> HIDE DEF r, s, m
    <3>2. QED
      BY <2>1, <3>1
  <2>5. m.commits = IF s.event = "Object"
                    THEN Append(Now.commits,
                                [step |-> "Object", handle |-> RecordAt(file.stream, Now.framer).handle,
                                 offset |-> Now.framer.start, size |-> Now.framer.size,
                                 payload |-> Now.handed])
                    ELSE Now.commits
    <3>1. r = s /\ Now.commits = commits /\ m.commits = commits'
      BY <1>1 DEF Now
    <3> HIDE DEF r, s, m
    <3>2. QED
      BY <2>1, <2>3, <3>1
  <2>6. s.error = "none"
    BY <1>1, <1>3
  <2>7. Follows(m)
    <3> HIDE DEF m
    <3>1. QED
      BY <1>1, <2>2, <2>4, <2>5, <2>6, FramedFollows
  <2>8. QED
    BY <2>1, <2>7, StepAgrees
<1>4. QED
  BY <1>2, <1>3

LEMMA InitAInv == Init => AInv
<1> SUFFICES ASSUME Init PROVE AInv
  OBVIOUS
<1>1. IInv
  BY InitIInv
<1>2. /\ Now.inner.item = 0 /\ ~Now.found /\ Now.framer = Idle /\ Now.handed = 0 /\ Now.commits = <<>>
      /\ failure = "none" /\ kept = Now
  BY DEF Init, Now
<1>3. 0 < Len(Script)
  BY <1>1, FileFacts DEF IInv, Script
<1>4. Follows(Now)
  BY <1>2, <1>3 DEF Follows, Idle
<1>5. QED
  BY <1>1, <1>2, <1>4 DEF AInv

\* A walk that was saved is restored where it was.
LEMMA SameFollows ==
  ASSUME NEW k, NEW m, m.inner = k.inner, m.found = k.found, m.id = k.id,
         m.framer = k.framer, m.pending = k.pending, m.handed = k.handed,
         m.commits = k.commits, Follows(k)
  PROVE  Follows(m)
<1>1. At(m) = At(k) /\ OnPage(m) = OnPage(k) /\ Offset(m) = Offset(k)
  BY SamePlace
<1>2. Told(m) = Told(k) /\ (Unfaulty(k) => Unfaulty(m))
  BY <1>1 DEF Told, Unfaulty
<1>3. FollowsFound(k) => FollowsFound(m)
  BY <1>1, <1>2 DEF FollowsFound
<1>4. QED
  BY <1>3 DEF Follows

LEMMA NextAgrees == AInv /\ [Next]_vars => AInv'
<1> SUFFICES ASSUME AInv, [Next]_vars PROVE AInv'
  OBVIOUS
<1>1. IInv'
  BY NextKeeps DEF AInv
<1>2. CASE Walk
  <2>1. failure = "none" /\ UNCHANGED <<file, kept, restarts>> /\ (OnWalk \/ FrameDone \/ FramePending)
    BY <1>2 DEF Walk
  <2>2. QED
    BY <1>1, <2>1, OnWalkAgrees, FrameDoneAgrees, FramePendingAgrees
<1>3. CASE Save
  <2>1. file' = file /\ kept' = Now /\ failure' = failure /\ failure = "none" /\ Now' = Now
    BY <1>3 DEF Save, walkVars, Now
  <2>2. Follows(Now)
    BY <2>1 DEF AInv
  <2>3. Follows(Now)' /\ Follows(kept)'
    BY <2>1, <2>2, FollowsSame
  <2>4. QED
    BY <1>1, <2>1, <2>3 DEF AInv
<1>4. CASE Restart
  <2> DEFINE m == Now'
  <2>1. file' = file /\ kept' = kept /\ failure' = "none"
    BY <1>4 DEF Restart
  <2>2. /\ m.inner = kept.inner /\ m.found = kept.found /\ m.id = kept.id /\ m.framer = kept.framer
        /\ m.pending = kept.pending /\ m.handed = kept.handed /\ m.commits = kept.commits
    BY <1>4 DEF Restart, KeptPending, Now
  <2>3. Follows(kept)
    BY DEF AInv
  <2>4. Follows(m)
    <3> HIDE DEF m
    <3>1. QED
      BY <2>2, <2>3, SameFollows
  <2>5. QED
    BY <1>1, <2>1, <2>4, StepAgrees
<1>5. CASE UNCHANGED vars
  <2>1. file' = file /\ kept' = kept /\ failure' = failure /\ commits' = commits /\ Now' = Now
    BY <1>5 DEF vars, walkVars, Now
  <2>2. failure # "none" => commits = Reading.commits /\ failure = Reading.failure
    BY DEF AInv, Agreed
  <2>3. failure = "none" => Follows(Now)
    BY DEF AInv
  <2>4. QED
    BY <1>1, <2>1, <2>2, <2>3, StepAgrees
<1>6. QED
  BY <1>2, <1>3, <1>4, <1>5 DEF Next

\* However the file is cut into reads, its pages into steps, and whatever
\* restarts came between, a walk that has stopped has committed the records
\* that a reading of the whole section has, each with its place, its handle
\* and its payload handed out, and stopped with the error that reading stops
\* with, or finished with it.
THEOREM AgreesHolds == Spec => []Agrees
<1>1. AInv => Agrees
  <2> SUFFICES ASSUME AInv, Stopped PROVE commits = Reading.commits /\ failure = Reading.failure
    BY DEF Agrees
  <2>1. CASE failure # "none"
    BY <2>1 DEF AInv, Agreed
  <2>2. CASE failure = "none"
    <3>1. file \in Files /\ WalkOk(Now) /\ Follows(Now)
      BY <2>2 DEF AInv, IInv
    <3>2. Now.inner.item = Len(file.script) /\ ~(Now.pending > 0)
      BY <2>2, NowFacts DEF Stopped, Done, Buffered
    <3>3. Now.pending = 0
      <4>1. Now.pending \in Nat
        BY <3>1, BoundsAssumption DEF WalkOk, Typed
      <4>2. QED
        BY <3>2, <4>1
    <3>4. Now.commits = Reading.commits /\ Reading.failure = "none"
      BY <3>1, <3>2, <3>3, FinishedReading
    <3>5. QED
      BY <2>2, <3>4, NowCommits
  <2>3. QED
    BY <2>1, <2>2
<1>2. Init => AInv
  BY InitAInv
<1>3. AInv /\ [Next]_vars => AInv'
  BY NextAgrees
<1>4. QED
  BY <1>1, <1>2, <1>3, PTL DEF Spec
=============================================================================
