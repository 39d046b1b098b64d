--------------------------- MODULE R2007WalkProofs ---------------------------
(***************************************************************************)
(* Proofs about R2007Walk for every file, every size of window and buffer *)
(* and every reader: a source stays true, and answers with the bytes asked *)
(* for; every checkpoint the walk takes is one it is restored from.        *)
(***************************************************************************)
EXTENDS R2007Walk, SequenceTheorems, FiniteSetTheorems, WellFoundedInduction, TLAPS

\* An answer gives some of the bytes asked for, from the first on.
Right(answer, offset, stride, n) ==
  answer.kind = "Ready" =>
    /\ Len(answer.bytes) \in 1..n
    /\ answer.bytes = Strided(offset, stride, Len(answer.bytes))

----------------------------------------------------------------------------
(* Sequences of bytes. *)

LEMMA BytesAtFacts ==
  ASSUME NEW offset \in Nat, NEW n \in Nat
  PROVE  BytesAt(offset, n) \in Seq(Nat) /\ Len(BytesAt(offset, n)) = n
BY DEF BytesAt

LEMMA BytesAtStrided ==
  ASSUME NEW offset \in Nat, NEW n \in Nat
  PROVE  BytesAt(offset, n) = Strided(offset, 1, n)
BY DEF BytesAt, Strided

LEMMA StridedFacts ==
  ASSUME NEW offset \in Nat, NEW stride \in Nat, NEW n \in Nat
  PROVE  Strided(offset, stride, n) \in Seq(Nat) /\ Len(Strided(offset, stride, n)) = n
<1>1. \A i \in 1..n : (i - 1) * stride \in Nat
  OBVIOUS
<1>2. \A i \in 1..n : offset + (i - 1) * stride \in Nat
  BY <1>1
<1>3. QED
  BY <1>2 DEF Strided

LEMMA Joined ==
  ASSUME NEW offset \in Nat, NEW n \in Nat, NEW m \in Nat
  PROVE  BytesAt(offset, n) \o BytesAt(offset + n, m) = BytesAt(offset, n + m)
<1>1. /\ BytesAt(offset, n) \in Seq(Nat) /\ Len(BytesAt(offset, n)) = n
      /\ BytesAt(offset + n, m) \in Seq(Nat) /\ Len(BytesAt(offset + n, m)) = m
      /\ BytesAt(offset, n + m) \in Seq(Nat) /\ Len(BytesAt(offset, n + m)) = n + m
  BY BytesAtFacts
<1>2. \A i \in 1..(n + m) :
        (BytesAt(offset, n) \o BytesAt(offset + n, m))[i] = BytesAt(offset, n + m)[i]
  BY <1>1 DEF BytesAt
<1>3. /\ BytesAt(offset, n) \o BytesAt(offset + n, m) \in Seq(Nat)
      /\ Len(BytesAt(offset, n) \o BytesAt(offset + n, m)) = n + m
  BY <1>1, ConcatProperties
<1>4. QED
  BY <1>1, <1>2, <1>3, SeqEqual

----------------------------------------------------------------------------
(* Reads. *)

LEMMA FromTrue ==
  ASSUME NEW s, True(s), NEW offset \in Nat
  PROVE  From(s, offset) = offset
BY DEF True, SourceType, From, Unknown

LEMMA AtTrue ==
  ASSUME NEW s, True(s), NEW place \in Nat
  PROVE  True(At(s, place, place))
BY DEF True, SourceType, At

\* A read from a true source leaves it true and gives the bytes asked for.
LEMMA ReadTrue ==
  ASSUME NEW s, True(s), NEW offset \in Nat, NEW most \in Nat,
         NEW o \in ReadOutcomes(s, offset, most)
  PROVE  True(o.source) /\ Right(o.answer, offset, 1, most)
<1>1. From(s, offset) = offset
  BY FromTrue
<1>2. CASE \E n \in 1..Fewest(most, SourceSize - offset) :
             o = Outcome(At(s, offset + n, offset + n), Ready(BytesAt(offset, n)))
  <2>1. PICK n \in 1..Fewest(most, SourceSize - offset) :
               o = Outcome(At(s, offset + n, offset + n), Ready(BytesAt(offset, n)))
    BY <1>2
  <2>2. n \in 1..most
    BY SourceAssumption DEF Fewest
  <2>3. True(At(s, offset + n, offset + n))
    BY <2>2, AtTrue
  <2>4. BytesAt(offset, n) = Strided(offset, 1, n) /\ Len(BytesAt(offset, n)) = n
    BY <2>2, BytesAtFacts, BytesAtStrided
  <2>5. QED
    BY <2>1, <2>2, <2>3, <2>4 DEF Outcome, Ready, Answer, Right
<1>3. CASE o = Outcome(At(s, offset, offset), Eof)
  BY <1>3, AtTrue DEF Outcome, Eof, Answer, Right
<1>4. CASE \E t \in {s, At(s, offset, offset)}, a \in {Pending, Failed} : o = Outcome(t, a)
  BY <1>4, AtTrue DEF Outcome, Pending, Failed, Answer, Right
<1>5. QED
  BY <1>1, <1>2, <1>3, <1>4 DEF ReadOutcomes, Stops

LEMMA PickedFacts ==
  ASSUME NEW s, True(s), NEW offset \in Nat, NEW stride \in Nat, NEW g \in Nat
  PROVE  Picked(s, offset, stride, g) = Strided(offset, stride, g)
<1>1. From(s, offset) = offset
  BY FromTrue
<1>2. (1 - 1) * stride = 0
  OBVIOUS
<1>3. QED
  BY <1>1, <1>2 DEF Picked, Strided

LEMMA BehindTrue ==
  ASSUME NEW s, True(s), NEW offset \in Nat, NEW stride \in Nat, NEW g \in Nat \ {0},
         NEW t \in Behind(s, offset, stride, g)
  PROVE  True(t)
<1>1. Picked(s, offset, stride, g)[g] = offset + (g - 1) * stride
  BY PickedFacts DEF Strided
<1>2. (g - 1) * stride \in Nat /\ g * stride \in Nat
  OBVIOUS
<1>3. offset + (g - 1) * stride + 1 \in Nat /\ offset + g * stride \in Nat
  BY <1>2
<1>4. QED
  BY <1>1, <1>3, AtTrue DEF Behind

\* So does a gather by reads, however far it gets.
LEMMA GatherByReadsTrue ==
  ASSUME NEW s, True(s), NEW offset \in Nat, NEW stride \in Nat, NEW n \in Nat \ {0},
         NEW o \in GatherByReads(s, offset, stride, n)
  PROVE  True(o.source) /\ Right(o.answer, offset, stride, n)
<1>1. CASE o \in ReadOutcomes(s, offset, 1) /\ o.answer.kind # "Ready"
  BY <1>1, ReadTrue DEF Right
<1>2. CASE \E g \in 1..(n - 1) : \E t \in Behind(s, offset, stride, g),
                                    a \in {Ready(Picked(s, offset, stride, g)), Failed} :
             o = Outcome(t, a)
  <2>0. PICK g \in 1..(n - 1) : \E t \in Behind(s, offset, stride, g),
                                    a \in {Ready(Picked(s, offset, stride, g)), Failed} :
             o = Outcome(t, a)
    BY <1>2
  <2>1. PICK t \in Behind(s, offset, stride, g),
             a \in {Ready(Picked(s, offset, stride, g)), Failed} : o = Outcome(t, a)
    BY <2>0
  <2>2. True(t)
    BY BehindTrue
  <2>3. Picked(s, offset, stride, g) = Strided(offset, stride, g)
        /\ Len(Strided(offset, stride, g)) = g
    BY PickedFacts, StridedFacts
  <2>4. QED
    BY <2>1, <2>2, <2>3 DEF Outcome, Ready, Failed, Answer, Right
<1>3. CASE o = Outcome(At(s, Picked(s, offset, stride, n)[n] + 1, offset + (n - 1) * stride + 1),
                       Ready(Picked(s, offset, stride, n)))
  <2>1. Picked(s, offset, stride, n) = Strided(offset, stride, n)
        /\ Len(Strided(offset, stride, n)) = n
    BY PickedFacts, StridedFacts
  <2>2. At(s, Picked(s, offset, stride, n)[n] + 1, offset + (n - 1) * stride + 1)
          \in Behind(s, offset, stride, n)
    BY DEF Behind
  <2>3. True(At(s, Picked(s, offset, stride, n)[n] + 1, offset + (n - 1) * stride + 1))
    BY <2>2, BehindTrue
  <2>4. QED
    BY <1>3, <2>1, <2>3 DEF Outcome, Ready, Answer, Right
<1>4. DEFINE Readable(g) == \A i \in 1..g : Picked(s, offset, stride, g)[i] < SourceSize
             Some(g) == {Outcome(t, a) : t \in Behind(s, offset, stride, g),
                                         a \in {Ready(Picked(s, offset, stride, g)), Failed}}
             All == Outcome(At(s, Picked(s, offset, stride, n)[n] + 1,
                               offset + (n - 1) * stride + 1),
                            Ready(Picked(s, offset, stride, n)))
<1> DEFINE First  == {x \in ReadOutcomes(s, offset, 1) : x.answer.kind # "Ready"}
           Middle == {Some(g) : g \in {h \in 1..(n - 1) : Readable(h)}}
           Last   == {All : x \in IF Readable(n) THEN {0} ELSE {}}
<1>5. GatherByReads(s, offset, stride, n) = First \cup (UNION Middle) \cup Last
  BY DEF GatherByReads
<1>6. \/ o \in ReadOutcomes(s, offset, 1) /\ o.answer.kind # "Ready"
      \/ \E g \in 1..(n - 1) : o \in Some(g)
      \/ o = All
  <2>1. o \in UNION Middle => \E g \in 1..(n - 1) : o \in Some(g)
    <3> HIDE DEF Some, Readable
    <3>1. SUFFICES ASSUME NEW X \in Middle, o \in X
                   PROVE  \E g \in 1..(n - 1) : o \in Some(g)
      OBVIOUS
    <3>2. PICK g \in {h \in 1..(n - 1) : Readable(h)} : X = Some(g)
      OBVIOUS
    <3>3. QED
      BY <3>1, <3>2
  <2>2. o \in Last => o = All
    <3> HIDE DEF All, Readable
    <3>1. QED
      OBVIOUS
  <2>3. o \in First => o \in ReadOutcomes(s, offset, 1) /\ o.answer.kind # "Ready"
    OBVIOUS
  <2>4. o \in First \cup (UNION Middle) \cup Last
    BY <1>5
  <2>5. o \in First \/ o \in UNION Middle \/ o \in Last
    <3> HIDE DEF First, Middle, Last
    <3>1. QED
      BY <2>4
  <2>6. CASE o \in First
    BY <2>3, <2>6
  <2>7. CASE o \in UNION Middle
    BY <2>1, <2>7
  <2>8. CASE o \in Last
    BY <2>2, <2>8
  <2>9. QED
    BY <2>5, <2>6, <2>7, <2>8
<1>7. QED
  BY <1>1, <1>2, <1>3, <1>6

----------------------------------------------------------------------------
(* The window. *)

LEMMA StridesRise ==
  ASSUME NEW stride \in Nat, NEW n \in Nat \ {0}, NEW i \in 1..n
  PROVE  (i - 1) * stride \in Nat /\ (i - 1) * stride <= (n - 1) * stride
<1>1. (n - 1) * stride = (i - 1) * stride + (n - i) * stride
  OBVIOUS
<1>2. (i - 1) * stride \in Nat /\ (n - i) * stride \in Nat
  OBVIOUS
<1>3. QED
  BY <1>1, <1>2

\* What the window serves are the bytes asked for.
LEMMA ServedRight ==
  ASSUME NEW t, True(t), NEW offset \in Nat, NEW stride \in Nat, NEW n \in Nat \ {0},
         Covers(t, offset, offset + (n - 1) * stride)
  PROVE  Served(t, offset, stride, n) = Strided(offset, stride, n)
<1>1. t.windowAt \in Nat /\ Len(t.window) \in Nat
  BY DEF True, SourceType
<1>2. \A k \in 1..Len(t.window) : t.window[k] = t.windowAt + k - 1
  BY <1>1 DEF True, SourceType, BytesAt
<1>3. ASSUME NEW i \in 1..n
      PROVE  t.window[offset + (i - 1) * stride - t.windowAt + 1] = offset + (i - 1) * stride
  <2> DEFINE d == (i - 1) * stride
             e == (n - 1) * stride
  <2>1. d \in Nat /\ e \in Nat /\ d <= e
    BY StridesRise
  <2>2. offset >= t.windowAt /\ offset + e < t.windowAt + Len(t.window)
    BY DEF Covers
  <2> HIDE DEF d, e
  <2>3. offset + d - t.windowAt + 1 \in 1..Len(t.window)
    <3> DEFINE w == t.windowAt
               k == Len(t.window)
    <3>1. w \in Nat /\ k \in Nat /\ offset >= w /\ offset + e < w + k
      BY <1>1, <2>2
    <3> HIDE DEF w, k
    <3>2. offset + d - w + 1 >= 1 /\ offset + d - w + 1 <= k
      BY <2>1, <3>1
    <3>3. offset + d - w + 1 \in 1..k
      BY <2>1, <3>1, <3>2
    <3>4. QED
      BY <3>3 DEF w, k
  <2>4. t.window[offset + d - t.windowAt + 1] = offset + d
    BY SMTT(30), <1>1, <1>2, <2>1, <2>3
  <2>5. QED
    BY <2>4 DEF d
<1>4. QED
  BY <1>3 DEF Served, Strided

\* A source whose position is given up, with a window of true bytes.
LEMMA WholeTrue ==
  ASSUME NEW cursor \in Nat, NEW base \in Nat, NEW n \in Nat, n <= GatherWindow
  PROVE  True([cursor |-> cursor, position |-> Unknown,
               window |-> BytesAt(base, n), windowAt |-> base])
<1> DEFINE w == BytesAt(base, n)
<1>1. w \in Seq(Nat) /\ Len(w) = n /\ w = BytesAt(base, Len(w))
  BY BytesAtFacts
<1> HIDE DEF w
<1>2. QED
  BY <1>1 DEF True, SourceType

LEMMA FilledTrue ==
  ASSUME NEW s, True(s), NEW base \in Nat, NEW have \in Nat, NEW m \in Nat,
         have + m <= GatherWindow
  PROVE  True(Filled(s, base, BytesAt(base, have), m))
<1>1. Len(BytesAt(base, have)) = have
  BY BytesAtFacts
<1>2. BytesAt(base, have) \o BytesAt(base + have, m) = BytesAt(base, have + m)
  BY Joined
<1>3. BytesAt(base, have + m) \in Seq(Nat) /\ Len(BytesAt(base, have + m)) = have + m
  BY BytesAtFacts
<1>4. Filled(s, base, BytesAt(base, have), m) =
        [cursor |-> base + have + m, position |-> Unknown,
         window |-> BytesAt(base, have + m), windowAt |-> base]
  BY <1>1, <1>2 DEF Filled
<1>5. QED
  BY <1>3, <1>4, WholeTrue

LEMMA UnfilledTrue ==
  ASSUME NEW s, True(s), NEW base \in Nat, NEW have \in Nat, have <= GatherWindow
  PROVE  True(Unfilled(s, base, BytesAt(base, have)))
<1>1. BytesAt(base, have) \in Seq(Nat) /\ Len(BytesAt(base, have)) = have
  BY BytesAtFacts
<1>2. QED
  BY <1>1 DEF Unfilled, True, SourceType

LEMMA ClearedTrue ==
  ASSUME NEW t, True(t)
  PROVE  True([t EXCEPT !.window = <<>>])
<1>1. t.windowAt \in Nat
  BY DEF True, SourceType
<1> DEFINE e == BytesAt(t.windowAt, 0)
<1>2. e \in Seq(Nat) /\ Len(e) = 0 /\ e = BytesAt(t.windowAt, Len(e)) /\ e = <<>>
  BY <1>1, BytesAtFacts DEF BytesAt
<1> HIDE DEF e
<1> DEFINE u == [t EXCEPT !.window = e]
<1>3. u \in SourceType
  BY <1>2 DEF True, SourceType
<1>4. u.window = e /\ u.windowAt = t.windowAt /\ u.position = t.position /\ u.cursor = t.cursor
  BY DEF True, SourceType
<1> HIDE DEF u
<1>5. True(u)
  BY <1>2, <1>3, <1>4, SourceAssumption DEF True
<1>6. QED
  BY <1>2, <1>5 DEF u

----------------------------------------------------------------------------
(* Gathers. *)

LEMMA FillTrue ==
  ASSUME NEW s, True(s), NEW offset \in Nat, NEW stride \in Nat, NEW n \in Nat \ {0},
         NEW o \in FillOutcomes(s, offset, stride, n)
  PROVE  True(o.source) /\ Right(o.answer, offset, stride, n)
<1> DEFINE last  == offset + (n - 1) * stride
           keeps == Extends(s, offset, last)
           base  == IF keeps THEN s.windowAt ELSE offset
           bytes == IF keeps THEN s.window ELSE <<>>
           most  == Most(0, Fewest(base + GatherWindow, SourceSize) - base - Len(bytes))
           filled(m) == Filled(s, base, bytes, m)
           stopped   == {Unfilled(s, base, bytes)} \cup {filled(m) : m \in 0..most}
           serves(t) == Outcome(t, Ready(Served(t, offset, stride, n)))
           blocks    == {IF Covers(t, offset, last) THEN serves(t) ELSE Outcome(t, Pending) :
                           t \in stopped}
           fails     == {Outcome([t EXCEPT !.window = <<>>], Failed) : t \in stopped}
           whole     == IF Covers(filled(most), offset, last) THEN {serves(filled(most))}
                        ELSE GatherByReads(filled(most), offset, stride, n)
<1>1. FillOutcomes(s, offset, stride, n) = blocks \cup fails \cup whole
  BY DEF FillOutcomes
<1>2. base \in Nat /\ Len(bytes) \in Nat /\ bytes = BytesAt(base, Len(bytes))
      /\ Len(bytes) <= GatherWindow
  <2>1. CASE keeps
    BY <2>1 DEF True, SourceType
  <2>2. CASE ~keeps
    <3>1. <<>> = BytesAt(offset, 0) /\ Len(<<>>) = 0
      BY DEF BytesAt
    <3>2. QED
      BY <2>2, <3>1, SourceAssumption
  <2>3. QED
    BY <2>1, <2>2
<1>3. most \in Nat /\ Len(bytes) + most <= GatherWindow
  <2> HIDE DEF base, bytes
  <2>1. QED
    BY <1>2, SourceAssumption DEF Most, Fewest
<1>4. \A t \in stopped : True(t)
  <2> HIDE DEF base, bytes, most
  <2>1. True(Unfilled(s, base, bytes))
    BY <1>2, UnfilledTrue
  <2>2. \A m \in 0..most : True(filled(m))
    <3>1. SUFFICES ASSUME NEW m \in 0..most PROVE True(filled(m))
      OBVIOUS
    <3>2. m \in Nat /\ Len(bytes) + m <= GatherWindow
      BY <1>2, <1>3, SourceAssumption
    <3>3. True(Filled(s, base, BytesAt(base, Len(bytes)), m))
      BY <1>2, <3>2, FilledTrue
    <3>4. QED
      BY <1>2, <3>3
  <2>3. QED
    BY <2>1, <2>2
<1>5. filled(most) \in stopped
  <2> HIDE DEF base, bytes, most
  <2>1. QED
    BY <1>3
<1> HIDE DEF stopped, filled
<1>6. \A t \in stopped : Covers(t, offset, last) =>
        Right(Ready(Served(t, offset, stride, n)), offset, stride, n)
  <2>1. SUFFICES ASSUME NEW t \in stopped, Covers(t, offset, last)
                 PROVE  Right(Ready(Served(t, offset, stride, n)), offset, stride, n)
    OBVIOUS
  <2>2. Served(t, offset, stride, n) = Strided(offset, stride, n)
    BY <1>4, <2>1, ServedRight
  <2>3. Len(Strided(offset, stride, n)) = n
    BY StridedFacts
  <2>4. QED
    BY <2>2, <2>3 DEF Right, Ready, Answer
<1>7. CASE o \in blocks
  <2>1. PICK t \in stopped :
          o = IF Covers(t, offset, last) THEN serves(t) ELSE Outcome(t, Pending)
    BY <1>7
  <2>2. CASE Covers(t, offset, last)
    BY <1>4, <1>6, <2>1, <2>2 DEF Outcome
  <2>3. CASE ~Covers(t, offset, last)
    BY <1>4, <2>1, <2>3 DEF Outcome, Pending, Answer, Right
  <2>4. QED
    BY <2>2, <2>3
<1>8. CASE o \in fails
  <2>1. PICK t \in stopped : o = Outcome([t EXCEPT !.window = <<>>], Failed)
    BY <1>8
  <2>2. True([t EXCEPT !.window = <<>>])
    BY <1>4, ClearedTrue
  <2>3. QED
    BY <2>1, <2>2 DEF Outcome, Failed, Answer, Right
<1>9. CASE o \in whole
  <2>1. CASE Covers(filled(most), offset, last)
    <3>1. o = serves(filled(most))
      BY <1>9, <2>1
    <3>2. QED
      BY <1>4, <1>5, <1>6, <2>1, <3>1 DEF Outcome
  <2>2. CASE ~Covers(filled(most), offset, last)
    <3>1. o \in GatherByReads(filled(most), offset, stride, n)
      BY <1>9, <2>2
    <3>2. QED
      BY <1>4, <1>5, <3>1, GatherByReadsTrue
  <2>3. QED
    BY <2>1, <2>2
<1>10. o \in blocks \/ o \in fails \/ o \in whole
  <2> HIDE DEF blocks, fails, whole
  <2>1. QED
    BY <1>1
<1>11. QED
  BY <1>7, <1>8, <1>9, <1>10

\* A poll of a true source leaves it true, whatever the reader does, and what
\* it gives are the bytes asked for, in their order, from the first on.
THEOREM GatherAnswers ==
  ASSUME NEW s, True(s), NEW offset \in Nat, NEW stride \in Nat, NEW n \in Nat \ {0},
         NEW o \in GatherOutcomes(s, offset, stride, n)
  PROVE  True(o.source) /\ Right(o.answer, offset, stride, n)
<1> DEFINE last == offset + (n - 1) * stride
<1>1. CASE last - offset >= GatherWindow
  BY <1>1, GatherByReadsTrue DEF GatherOutcomes
<1>2. CASE ~(last - offset >= GatherWindow) /\ Covers(s, offset, last)
  <2>1. o = Outcome(s, Ready(Served(s, offset, stride, n)))
    BY <1>2 DEF GatherOutcomes
  <2>2. Served(s, offset, stride, n) = Strided(offset, stride, n)
    BY <1>2, ServedRight
  <2>3. Len(Strided(offset, stride, n)) = n
    BY StridedFacts
  <2>4. QED
    BY <2>1, <2>2, <2>3 DEF Outcome, Ready, Answer, Right
<1>3. CASE ~(last - offset >= GatherWindow) /\ ~Covers(s, offset, last)
  BY <1>3, FillTrue DEF GatherOutcomes
<1>4. QED
  BY <1>1, <1>2, <1>3

----------------------------------------------------------------------------
(* The walk: what it asks for is never nothing, and is in the file's        *)
(* numbers.                                                                *)

\* A reader has its fields, and counts.
Shaped(r) ==
  /\ DOMAIN r = DOMAIN Started("Verify")
  /\ r.cw \in Nat /\ r.src \in Nat /\ r.have \in Nat

HeadPlaced(st, hd) == hd \in Seq(Nat) /\ (st = "Head" => Len(hd) < HeadBytes)

\* What is assembled of an entry is what the stream gave of it.
MapPlaced(st, fa, sc, eh) ==
  /\ DOMAIN fa = DOMAIN NoFacts /\ fa.acc \in Nat
  /\ DOMAIN sc = DOMAIN NoScan
  /\ sc.whole \in 0..Len(file.entries) /\ sc.part \in Nat
  /\ eh = sc.part
  /\ st \notin {"Map", "Lookup"} => eh = 0

RecordsPlaced(se) == DOMAIN se = DOMAIN NoScan /\ se.whole \in Nat

\* In a page, what the reader fills has room for a byte unless it has not
\* begun.
PagePlaced(st, pg, rd) ==
  /\ Shaped(rd)
  /\ st \in {"Lookup", "Page"} => Sized(pg)
  /\ st = "Page" => pg.base \in Nat /\ (rd.have = 0 \/ rd.have < FillTotal(pg, rd))

IInv ==
  /\ SourceTrue
  /\ file \in Files
  /\ HeadPlaced(stage, head)
  /\ MapPlaced(stage, facts, scan, entryHave)
  /\ RecordsPlaced(sec)
  /\ PagePlaced(stage, page, reader)
  /\ HeadPlaced(kept.stage, kept.head)
  /\ MapPlaced(kept.stage, kept.facts, kept.scan, kept.entryHave)
  /\ RecordsPlaced(kept.sec)
  /\ PagePlaced(kept.stage, kept.page, kept.reader)

LEMMA FreshTrue == True(Fresh)
<1> DEFINE e == BytesAt(0, 0)
<1>1. e \in Seq(Nat) /\ Len(e) = 0 /\ e = <<>>
  BY BytesAtFacts DEF BytesAt
<1>2. True([cursor |-> 0, position |-> Unknown, window |-> BytesAt(0, 0), windowAt |-> 0])
  BY SourceAssumption, WholeTrue
<1>3. QED
  BY <1>1, <1>2 DEF Fresh

LEMMA StartedShaped ==
  ASSUME NEW pass
  PROVE  Shaped(Started(pass)) /\ Started(pass).have = 0
BY DEF Shaped, Started

LEMMA KeptShaped ==
  ASSUME NEW r, Shaped(r)
  PROVE  Shaped(Kept(r)) /\ Kept(r).have = r.have /\ Kept(r).src = r.src
BY DEF Shaped, Kept, Started

\* What a pump leaves of the reader's place in the file.
LEMMA PumpedShaped ==
  ASSUME NEW p, NEW r, Shaped(r), NEW most
  PROVE  /\ Shaped(Pumped(p, r, most).reader)
         /\ Pumped(p, r, most).reader.have = r.have
         /\ Pumped(p, r, most).reader.src = r.src
BY DEF Shaped, Pumped, Started

LEMMA FileFacts ==
  ASSUME file \in Files
  PROVE  /\ Len(file.entries) \in Nat
         /\ \A i \in 1..Len(file.entries) : file.entries[i].size \in Nat
         /\ file.tail \in 0..(EntryBytes - 1)
         /\ Len(file.records) \in Nat
         /\ \A i \in 1..Len(file.records) : RecordOk(file.records[i])
         /\ file.described \in Nat /\ file.rest \in Nat
BY MapsAssumption

LEMMA SizedFacts ==
  ASSUME NEW p, Sized(p)
  PROVE  /\ p.base \in Nat /\ p.entrySize \in Nat /\ p.blocks \in Nat
         /\ p.stored \in Nat /\ p.plain \in Nat /\ p.dataOffset \in Nat
         /\ p.stream \in Seq({"in", "out", "bad"}) /\ Len(p.stream) \in Nat
         /\ Coded(p) => p.stored <= p.blocks * Message
<1>1. p \in PageType /\ (Coded(p) => p.stored <= p.blocks * Message)
  BY DEF Sized
<1>2. p.stream \in Seq({"in", "out", "bad"})
  BY <1>1 DEF PageType
<1>3. QED
  BY <1>1, <1>2 DEF PageType

----------------------------------------------------------------------------
(* Polls. *)

\* What a poll of the walk leads to, from what it wants.
LEMMA PollAnswers ==
  ASSUME IInv, NEW scratch \in Scratches, NEW o \in Outcomes(scratch),
         Wanted.offset \in Nat, Wanted.stride \in Nat, Wanted.len \in Nat \ {0}
  PROVE  True(o.source) /\ Right(o.answer, Wanted.offset, Wanted.stride, Wanted.len)
<1> DEFINE n == Lesser(Lesser(Wanted.len, scratch), ChunkBytes)
<1>1. n \in Nat \ {0} /\ n <= Wanted.len
  BY WalkAssumption, ReaderAssumption DEF Lesser
<1>2. o \in IF Wanted.stride = 1 THEN ReadOutcomes(source, Wanted.offset, n)
            ELSE GatherOutcomes(source, Wanted.offset, Wanted.stride, n)
  BY DEF Outcomes
<1> HIDE DEF n
<1>3. True(o.source) /\ Right(o.answer, Wanted.offset, Wanted.stride, n)
  <2>1. CASE Wanted.stride = 1
    BY <1>1, <1>2, <2>1, ReadTrue DEF IInv, SourceTrue
  <2>2. CASE Wanted.stride # 1
    BY <1>1, <1>2, <2>2, GatherAnswers DEF IInv, SourceTrue
  <2>3. QED
    BY <2>1, <2>2
<1>4. QED
  BY <1>1, <1>3 DEF Right

\* The header's next bytes.
LEMMA HeadWants ==
  ASSUME IInv, stage = "Head"
  PROVE  /\ Wanted.offset = Len(head) /\ Wanted.stride = 1 /\ Wanted.len = HeadBytes - Len(head)
         /\ Wanted.offset \in Nat /\ Wanted.stride \in Nat /\ Wanted.len \in Nat \ {0}
BY MapsAssumption DEF IInv, HeadPlaced, Wanted

\* The rest of a page's codeword or chunk.
LEMMA PageWants ==
  ASSUME IInv, InPage, Status(page, reader) = "Need"
  PROVE  /\ Wanted.len = FillTotal(page, reader) - reader.have
         /\ Wanted.offset \in Nat /\ Wanted.stride \in Nat /\ Wanted.len \in Nat \ {0}
<1>1. /\ stage = "Page"
      /\ page.base \in Nat /\ page.blocks \in Nat /\ page.stored \in Nat
      /\ reader.cw \in Nat /\ reader.src \in Nat /\ reader.have \in Nat
      /\ reader.have = 0 \/ reader.have < FillTotal(page, reader)
  BY SizedFacts DEF IInv, InPage, PagePlaced, Shaped
<1>2. Further(page, reader)
  BY DEF Status
<1>3. FillTotal(page, reader) \in Nat \ {0}
  <2>1. CASE Coded(page)
    BY <2>1, ReaderAssumption DEF FillTotal
  <2>2. CASE ~Coded(page)
    BY <1>1, <1>2, <2>2, ReaderAssumption DEF FillTotal, Further, Lesser
  <2>3. QED
    BY <2>1, <2>2
<1>4. FillTotal(page, reader) - reader.have \in Nat \ {0}
  BY <1>1, <1>3
<1>5. Wanted = Want(page, reader)
  BY <1>1 DEF Wanted
<1>6. CASE Coded(page)
  <2>1. reader.have * page.blocks \in Nat
    BY <1>1
  <2>2. QED
    BY <1>1, <1>4, <1>5, <1>6, <2>1 DEF Want, FillTotal
<1>7. CASE ~Coded(page)
  BY <1>1, <1>4, <1>5, <1>7 DEF Want
<1>8. QED
  BY <1>6, <1>7

\* The fill grows, and is over when it is full.
LEMMA FeedPagePlaced ==
  ASSUME IInv, stage = "Page", NEW bytes,
         Len(bytes) \in 1..(FillTotal(page, reader) - reader.have), FeedPage(bytes)
  PROVE  PagePlaced(stage, page, reader')
<1> DEFINE taken == Taken(reader, bytes)
           whole == taken.have = FillTotal(page, taken)
<1>1. /\ Shaped(reader)
      /\ Sized(page) /\ page.base \in Nat /\ page.blocks \in Nat /\ page.stored \in Nat
  BY SizedFacts DEF IInv, PagePlaced
<1>2. /\ Shaped(taken) /\ taken.have = reader.have + Len(bytes) /\ taken.src = reader.src
  BY <1>1 DEF Shaped, Taken, Started
<1>3. FillTotal(page, taken) = FillTotal(page, reader)
  BY <1>2 DEF FillTotal
<1>4. FillTotal(page, reader) \in Int
  BY <1>1, ReaderAssumption DEF FillTotal, Lesser, Shaped
<1>5. reader' = IF ~whole THEN taken
                ELSE IF Refused(page, taken) THEN reader ELSE Completed(page, taken)
  BY DEF FeedPage
<1> HIDE DEF taken
<1>6. CASE ~whole
  <2>1. taken.have < FillTotal(page, taken)
    BY <1>1, <1>2, <1>3, <1>4, <1>6 DEF Shaped
  <2>2. QED
    BY <1>1, <1>2, <1>5, <1>6, <2>1 DEF PagePlaced
<1>7. CASE whole /\ Refused(page, taken)
  BY <1>5, <1>7 DEF IInv
<1>8. CASE whole /\ ~Refused(page, taken)
  <2>1. Shaped(Completed(page, taken)) /\ Completed(page, taken).have = 0
    BY <1>2 DEF Completed, Shaped, Started
  <2>2. QED
    BY <1>1, <1>5, <1>8, <2>1 DEF PagePlaced
<1>9. QED
  BY <1>6, <1>7, <1>8

\* The header grows by the bytes behind it, and is given up when it is whole.
LEMMA FeedHeadPlaced ==
  ASSUME IInv, stage = "Head", NEW bytes \in Seq(Nat),
         Len(bytes) \in 1..(HeadBytes - Len(head)), FeedHead(bytes)
  PROVE  HeadPlaced(stage', head') /\ stage' \in {"Head", "Map"}
<1>1. head \in Seq(Nat) /\ Len(head) \in Nat /\ Len(bytes) \in Nat
  BY DEF IInv, HeadPlaced
<1>2. head \o bytes \in Seq(Nat) /\ Len(head \o bytes) = Len(head) + Len(bytes)
  BY <1>1, ConcatProperties
<1>3. <<>> \in Seq(Nat)
  OBVIOUS
<1>4. CASE Len(head \o bytes) = HeadBytes
  BY <1>3, <1>4 DEF FeedHead, HeadPlaced
<1>5. CASE Len(head \o bytes) # HeadBytes
  <2>1. head' = head \o bytes /\ stage' = "Head"
    BY <1>5 DEF FeedHead
  <2>2. Len(bytes) <= HeadBytes - Len(head) /\ HeadBytes \in Nat
    BY MapsAssumption
  <2>3. Len(head \o bytes) < HeadBytes
    BY <1>1, <1>2, <1>5, <2>2
  <2>4. QED
    BY <1>2, <2>1, <2>3 DEF HeadPlaced
<1>6. QED
  BY <1>4, <1>5

LEMMA PollKeeps ==
  ASSUME IInv, Needs, NEW scratch \in Scratches, NEW outcomes \in SUBSET Outcomes(scratch),
         Poll(outcomes)
  PROVE  IInv'
<1>1. PICK o \in outcomes : source' = o.source /\ Answered(o.answer)
  BY DEF Poll
<1>2. UNCHANGED <<file, kept>>
  BY DEF Poll
<1>3. CASE stage = "Head"
  <2>1. True(o.source) /\ Right(o.answer, Len(head), 1, HeadBytes - Len(head))
    BY <1>3, HeadWants, PollAnswers
  <2>2. CASE o.answer.kind = "Ready"
    <3>1. FeedHead(o.answer.bytes)
      BY <1>1, <1>3, <2>2 DEF Answered
    <3>2. /\ Len(o.answer.bytes) \in 1..(HeadBytes - Len(head))
          /\ o.answer.bytes = Strided(Len(head), 1, Len(o.answer.bytes))
      BY <2>1, <2>2 DEF Right
    <3>3. Len(head) \in Nat /\ Len(o.answer.bytes) \in Nat
      BY <3>2, HeadWants, <1>3
    <3>4. o.answer.bytes \in Seq(Nat)
      <4>1. Strided(Len(head), 1, Len(o.answer.bytes)) \in Seq(Nat)
        BY <3>3, StridedFacts
      <4>2. QED
        BY <3>2, <4>1
    <3>5. HeadPlaced(stage', head') /\ stage' \in {"Head", "Map"}
      BY <1>3, <3>1, <3>2, <3>4, FeedHeadPlaced
    <3>6. UNCHANGED <<facts, scan, entryHave, sec, page, reader>>
      BY <3>1 DEF FeedHead, mapVars
    <3>7. QED
      BY <1>1, <1>2, <1>3, <2>1, <3>5, <3>6
         DEF IInv, SourceTrue, HeadPlaced, MapPlaced, RecordsPlaced, PagePlaced
  <2>3. CASE o.answer.kind # "Ready"
    BY <1>1, <1>2, <2>1, <2>3
       DEF Answered, walkVars, mapVars, IInv, SourceTrue, HeadPlaced, MapPlaced, RecordsPlaced, PagePlaced
  <2>4. QED
    BY <2>2, <2>3
<1>4. CASE stage # "Head"
  <2>0. InPage /\ Status(page, reader) = "Need"
    BY <1>4 DEF Needs
  <2>1. /\ True(o.source)
        /\ Right(o.answer, Wanted.offset, Wanted.stride, FillTotal(page, reader) - reader.have)
    BY <2>0, PageWants, PollAnswers
  <2>2. CASE o.answer.kind = "Ready"
    <3>1. FeedPage(o.answer.bytes)
      BY <1>1, <1>4, <2>2 DEF Answered
    <3>2. Len(o.answer.bytes) \in 1..(FillTotal(page, reader) - reader.have)
      BY <2>1, <2>2 DEF Right
    <3>3. PagePlaced(stage, page, reader')
      BY <2>0, <3>1, <3>2, FeedPagePlaced DEF InPage
    <3>4. UNCHANGED <<stage, head, facts, scan, entryHave, sec, page>>
      BY <3>1 DEF FeedPage, mapVars
    <3>5. QED
      BY <1>1, <1>2, <2>1, <3>3, <3>4
         DEF IInv, SourceTrue, HeadPlaced, MapPlaced, RecordsPlaced, PagePlaced
  <2>3. CASE o.answer.kind # "Ready"
    BY <1>1, <1>2, <2>1, <2>3
       DEF Answered, walkVars, mapVars, IInv, SourceTrue, HeadPlaced, MapPlaced, RecordsPlaced, PagePlaced
  <2>4. QED
    BY <2>2, <2>3
<1>5. QED
  BY <1>3, <1>4

----------------------------------------------------------------------------
(* The pumps of the maps. *)

\* What a pump must show: the invariant is about no other variable.
LEMMA PumpKeeps ==
  ASSUME IInv, Caller' = Caller, source' = source,
         HeadPlaced(stage', head'),
         MapPlaced(stage', facts', scan', entryHave'),
         RecordsPlaced(sec'),
         PagePlaced(stage', page', reader')
  PROVE  IInv'
BY DEF Caller, IInv, SourceTrue, HeadPlaced, MapPlaced, RecordsPlaced, PagePlaced

\* An entry that is whole is one of the map's, and the next is behind it.
LEMMA EntryAdvances ==
  ASSUME IInv, NEW n \in SomeOf(scan, entryHave, file.entries, EntryBytes, file.tail)
  PROVE  LET next == Advanced(scan, n, EntryBytes)
         IN /\ n \in Nat
            /\ DOMAIN next = DOMAIN NoScan
            /\ entryHave + n = EntryBytes =>
                 /\ scan.whole + 1 \in 1..Len(file.entries)
                 /\ next.whole = scan.whole + 1 /\ next.part = 0
            /\ entryHave + n < EntryBytes =>
                 next.whole = scan.whole /\ next.part = entryHave + n
<1>1. /\ DOMAIN scan = DOMAIN NoScan /\ scan.whole \in 0..Len(file.entries)
      /\ scan.part \in Nat /\ entryHave = scan.part
  BY DEF IInv, MapPlaced
<1>2. Len(file.entries) \in Nat /\ file.tail \in 0..(EntryBytes - 1) /\ EntryBytes \in Nat
  BY FileFacts, MapsAssumption DEF IInv
<1>3. /\ n \in Nat /\ n <= EntryBytes - entryHave
      /\ scan.whole < Len(file.entries) \/ n <= file.tail - scan.part
  BY <1>1, <1>2 DEF SomeOf, Lesser, Left
<1>4. entryHave + n = EntryBytes => scan.whole + 1 \in 1..Len(file.entries)
  BY <1>1, <1>2, <1>3
<1>5. QED
  BY <1>1, <1>3, <1>4 DEF Advanced, NoScan

\* A page whose place the map gives has its base.
LEMMA LocatedSized ==
  ASSUME IInv, stage = "Lookup", NEW e, e.size \in Nat
  PROVE  Sized(Located(e)) /\ Located(e).base \in Nat
<1>1. Sized(page) /\ facts.acc \in Nat
  BY DEF IInv, PagePlaced, MapPlaced
<1>2. page \in PageType /\ PageBase + facts.acc \in Nat
  BY <1>1, MapsAssumption DEF Sized
<1>3. /\ Located(e) \in PageType /\ Located(e).base \in Nat
      /\ Located(e).blocks = page.blocks /\ Located(e).stored = page.stored
      /\ Located(e).plain = page.plain /\ Located(e).stream = page.stream
  BY <1>2 DEF Located, PageType
<1>4. QED
  BY <1>1, <1>3 DEF Sized, Coded, Between

LEMMA EntryKeeps ==
  ASSUME IInv, PumpEntry, UNCHANGED Caller
  PROVE  IInv'
<1> DEFINE ns == SomeOf(scan, entryHave, file.entries, EntryBytes, file.tail)
           e  == file.entries[scan.whole + 1]
<1>1. /\ stage \in {"Map", "Lookup"} /\ UNCHANGED <<head, sec, source>>
  BY DEF PumpEntry
<1>2. PICK n \in ns :
        \/ /\ entryHave + n < EntryBytes
           /\ scan' = Advanced(scan, n, EntryBytes) /\ entryHave' = entryHave + n
           /\ UNCHANGED <<stage, facts, page, reader>>
        \/ /\ entryHave + n = EntryBytes
           /\ entryHave' = 0
           /\ IF stage = "Map" THEN OnEntry(e) ELSE OnLookup(e)
           /\ scan' = IF stage = "Lookup" /\ Named(e) THEN NoScan ELSE Advanced(scan, n, EntryBytes)
  BY DEF PumpEntry
<1> DEFINE next == Advanced(scan, n, EntryBytes)
<1>3. /\ n \in Nat
      /\ DOMAIN next = DOMAIN NoScan
      /\ entryHave + n = EntryBytes =>
           scan.whole + 1 \in 1..Len(file.entries) /\ next.whole = scan.whole + 1 /\ next.part = 0
      /\ entryHave + n < EntryBytes => next.whole = scan.whole /\ next.part = entryHave + n
  BY EntryAdvances
<1> HIDE DEF next
<1>4. /\ DOMAIN facts = DOMAIN NoFacts /\ facts.acc \in Nat
      /\ scan.whole \in 0..Len(file.entries) /\ entryHave \in Nat /\ Len(file.entries) \in Nat
  BY FileFacts DEF IInv, MapPlaced
<1>5. HeadPlaced(stage, head) /\ RecordsPlaced(sec) /\ Shaped(reader) /\ PagePlaced(stage, page, reader)
      /\ file \in Files
  BY DEF IInv, PagePlaced
<1>6. CASE entryHave + n < EntryBytes
  <2>1. /\ scan' = next /\ entryHave' = entryHave + n /\ UNCHANGED <<stage, facts, page, reader>>
    BY <1>2, <1>4, <1>6, <1>3 DEF next
  <2>2. MapPlaced(stage', facts', scan', entryHave')
    BY <1>1, <1>3, <1>4, <1>6, <2>1 DEF MapPlaced
  <2>3. QED
    BY <1>1, <1>5, <2>1, <2>2, PumpKeeps
<1>7. CASE entryHave + n = EntryBytes
  <2>1. /\ entryHave' = 0
        /\ IF stage = "Map" THEN OnEntry(e) ELSE OnLookup(e)
        /\ scan' = IF stage = "Lookup" /\ Named(e) THEN NoScan ELSE next
    BY <1>2, <1>3, <1>4, <1>7, MapsAssumption DEF next
  <2>2. e.size \in Nat
    BY <1>3, <1>5, <1>7, FileFacts
  <2>3. scan' \in {NoScan, next}
    BY <2>1
  <2>4. /\ DOMAIN scan' = DOMAIN NoScan /\ scan'.whole \in 0..Len(file.entries)
        /\ scan'.part = 0
    BY <1>3, <1>4, <1>7, <2>3 DEF NoScan
  <2>5. CASE stage = "Map"
    <3>1. OnEntry(e)
      BY <2>1, <2>5
    <3>2. UNCHANGED <<stage, page, reader>>
      BY <3>1 DEF OnEntry
    <3>3. DOMAIN facts' = DOMAIN NoFacts /\ facts'.acc \in Nat
      BY <1>4, <2>2, <3>1 DEF OnEntry, NoFacts
    <3>4. MapPlaced(stage', facts', scan', entryHave')
      BY <2>1, <2>4, <3>3 DEF MapPlaced
    <3>5. QED
      BY <1>1, <1>5, <3>2, <3>4, PumpKeeps
  <2>6. CASE stage = "Lookup"
    <3>1. OnLookup(e)
      BY <2>1, <2>6
    <3>2. DOMAIN facts' = DOMAIN NoFacts /\ facts'.acc \in Nat
      BY <1>4, <2>2, <3>1 DEF OnLookup, NoFacts
    <3>3. MapPlaced(stage', facts', scan', entryHave')
      BY <2>1, <2>4, <3>2 DEF MapPlaced
    <3>4. \/ UNCHANGED <<stage, page, reader>>
          \/ stage' = "Page" /\ page' = Located(e) /\ reader' = Started("Verify")
      BY <3>1 DEF OnLookup
    <3>5. PagePlaced(stage', page', reader')
      BY <1>5, <2>2, <2>6, <3>4, LocatedSized, StartedShaped DEF PagePlaced
    <3>6. HeadPlaced(stage', head')
      BY <1>1, <1>5, <3>4 DEF HeadPlaced
    <3>7. QED
      BY <1>1, <1>5, <3>3, <3>5, <3>6, PumpKeeps
  <2>7. QED
    BY <1>1, <2>5, <2>6
<1>8. QED
  BY <1>2, <1>6, <1>7

\* A record hands over to a lookup with a page of the section map.
LEMMA RecordKeeps ==
  ASSUME IInv, PumpRecord, UNCHANGED Caller
  PROVE  IInv'
<1> DEFINE d == Records[sec.whole + 1]
<1>1. /\ stage = "Sections" /\ UNCHANGED <<head, entryHave, reader, source>>
  BY DEF PumpRecord
<1>2. PICK n : sec' = Advanced(sec, n, RecordSize)
  BY DEF PumpRecord
<1>3. \/ UNCHANGED <<stage, scan, facts, page>>
      \/ /\ sec.whole < Len(Records) /\ d.kind = "Reference"
         /\ page' = d.page /\ stage' = "Lookup"
         /\ scan' = [NoScan EXCEPT !.pass = "Scan"]
         /\ facts' = [facts EXCEPT !.acc = 0]
  <2>1. \/ UNCHANGED <<stage, scan, facts, page>>
        \/ /\ sec.whole < Len(Records)
           /\ \/ d.kind = "Descriptor" /\ OnDescriptor(d)
              \/ d.kind = "Name" /\ OnName(d)
              \/ d.kind = "Reference" /\ OnReference(d)
    BY DEF PumpRecord
  <2>2. ASSUME OnDescriptor(d) PROVE UNCHANGED <<stage, scan, facts, page>>
    BY <2>2 DEF OnDescriptor, RefuseRecord
  <2>3. ASSUME OnName(d) PROVE UNCHANGED <<stage, scan, facts, page>>
    BY <2>3 DEF OnName, RefuseRecord
  <2>4. ASSUME OnReference(d)
        PROVE  \/ UNCHANGED <<stage, scan, facts, page>>
               \/ /\ page' = d.page /\ stage' = "Lookup"
                  /\ scan' = [NoScan EXCEPT !.pass = "Scan"]
                  /\ facts' = [facts EXCEPT !.acc = 0]
    BY <2>4 DEF OnReference, RefuseRecord
  <2>5. QED
    BY <2>1, <2>2, <2>3, <2>4
<1>4. RecordsPlaced(sec')
  <2>1. DOMAIN sec = DOMAIN NoScan /\ sec.whole \in Nat
    BY DEF IInv, RecordsPlaced
  <2>2. QED
    BY <1>2, <2>1 DEF Advanced, RecordsPlaced, NoScan
<1>5. /\ HeadPlaced(stage, head) /\ MapPlaced(stage, facts, scan, entryHave)
      /\ PagePlaced(stage, page, reader) /\ sec.whole \in Nat /\ file \in Files
  BY DEF IInv, RecordsPlaced
<1>6. CASE UNCHANGED <<stage, scan, facts, page>>
  BY <1>1, <1>4, <1>5, <1>6, PumpKeeps
<1>7. CASE /\ sec.whole < Len(Records) /\ d.kind = "Reference"
           /\ page' = d.page /\ stage' = "Lookup"
           /\ scan' = [NoScan EXCEPT !.pass = "Scan"]
           /\ facts' = [facts EXCEPT !.acc = 0]
  <2>1. Len(file.records) \in Nat
    BY <1>5, FileFacts
  <2>2. sec.whole + 1 \in 1..Len(file.records)
    BY <1>5, <1>7, <2>1 DEF Records
  <2>3. Sized(d.page)
    BY <1>5, <1>7, <2>2, FileFacts DEF Records, RecordOk
  <2>4. HeadPlaced(stage', head')
    BY <1>1, <1>5, <1>7 DEF HeadPlaced
  <2>5. MapPlaced(stage', facts', scan', entryHave')
    <3>1. entryHave = 0 /\ DOMAIN facts = DOMAIN NoFacts /\ Len(file.entries) \in Nat
      BY <1>1, <1>5, FileFacts DEF MapPlaced
    <3>2. QED
      BY <1>1, <1>7, <3>1 DEF MapPlaced, NoScan, NoFacts
  <2>6. PagePlaced(stage', page', reader')
    BY <1>1, <1>5, <1>7, <2>3 DEF PagePlaced
  <2>7. QED
    BY <1>1, <1>4, <2>4, <2>5, <2>6, PumpKeeps
<1>8. QED
  BY <1>3, <1>6, <1>7

----------------------------------------------------------------------------
(* The invariant. *)

LEMMA InitHolds == Init => IInv
<1> SUFFICES ASSUME Init PROVE IInv
  OBVIOUS
<1>1. HeadPlaced("Head", <<>>)
  BY MapsAssumption DEF HeadPlaced
<1>2. MapPlaced("Head", NoFacts, NoScan, 0)
  BY FileFacts DEF Init, MapPlaced, NoFacts, NoScan
<1>3. RecordsPlaced(NoScan)
  BY DEF RecordsPlaced, NoScan
<1>4. PagePlaced("Head", NoPage, Started("Verify"))
  BY StartedShaped DEF PagePlaced
<1>5. PagePlaced("Head", NoPage, Kept(Started("Verify")))
  BY StartedShaped, KeptShaped DEF PagePlaced
<1>6. QED
  BY <1>1, <1>2, <1>3, <1>4, <1>5, FreshTrue DEF Init, Now, IInv, SourceTrue

LEMMA MapPumpKeeps ==
  ASSUME IInv, MapPump, UNCHANGED Caller
  PROVE  IInv'
<1> USE DEF mapVars, counters
<1>1. /\ HeadPlaced(stage, head) /\ MapPlaced(stage, facts, scan, entryHave)
      /\ RecordsPlaced(sec) /\ PagePlaced(stage, page, reader)
      /\ file \in Files
  BY DEF IInv
<1>2. CASE MapVerify
  <2>1. UNCHANGED <<stage, head, facts, entryHave, sec, page, reader, source>>
    BY <1>2 DEF MapVerify
  <2>2. scan' = scan \/ scan' = [scan EXCEPT !.pass = "Emit"]
    BY <1>2 DEF MapVerify
  <2>3. MapPlaced(stage', facts', scan', entryHave')
    BY <1>1, <2>1, <2>2 DEF MapPlaced, NoScan
  <2>4. QED
    BY <1>1, <2>1, <2>3, PumpKeeps
<1>3. CASE PumpEntry
  BY <1>3, EntryKeeps
<1>4. CASE FinishMap
  <2>1. UNCHANGED <<head, facts, entryHave, sec, page, reader, source>> /\ stage = "Map"
    BY <1>4 DEF FinishMap
  <2>2. \/ UNCHANGED <<stage, scan>>
        \/ stage' = "Sections" /\ scan' = NoScan /\ entryHave = 0
    BY <1>4 DEF FinishMap, MapFault
  <2>3. MapPlaced(stage', facts', scan', entryHave')
    BY <1>1, <2>1, <2>2, FileFacts DEF MapPlaced, NoScan
  <2>4. HeadPlaced(stage', head') /\ PagePlaced(stage', page', reader')
    BY <1>1, <2>1, <2>2 DEF HeadPlaced, PagePlaced
  <2>5. QED
    BY <1>1, <2>1, <2>3, <2>4, PumpKeeps
<1>5. CASE Missing
  BY <1>1, <1>5, PumpKeeps DEF Missing
<1>6. CASE SectionsVerify
  <2>1. UNCHANGED <<stage, head, facts, scan, entryHave, page, reader, source>>
    BY <1>6 DEF SectionsVerify
  <2>2. sec' = sec \/ sec' = [sec EXCEPT !.pass = "Emit"]
    BY <1>6 DEF SectionsVerify
  <2>3. RecordsPlaced(sec')
    BY <1>1, <2>2 DEF RecordsPlaced, NoScan
  <2>4. QED
    BY <1>1, <2>1, <2>3, PumpKeeps
<1>7. CASE PumpRecord
  BY <1>7, RecordKeeps
<1>8. CASE PumpSectionEnd
  BY <1>1, <1>8, PumpKeeps DEF PumpSectionEnd
<1>9. CASE FinishWalk
  <2>1. UNCHANGED <<head, facts, scan, entryHave, page, reader, source>> /\ stage = "Sections"
    BY <1>9 DEF FinishWalk
  <2>2. stage' \in {"Sections", "Done"} /\ sec' \in {sec, NoScan}
    BY <1>9, <2>1 DEF FinishWalk
  <2>3. RecordsPlaced(sec')
    BY <1>1, <2>2 DEF RecordsPlaced, NoScan
  <2>4. /\ HeadPlaced(stage', head') /\ PagePlaced(stage', page', reader')
        /\ MapPlaced(stage', facts', scan', entryHave')
    BY <1>1, <2>1, <2>2 DEF HeadPlaced, PagePlaced, MapPlaced
  <2>5. QED
    BY <2>1, <2>3, <2>4, PumpKeeps
<1>10. QED
  BY <1>2, <1>3, <1>4, <1>5, <1>6, <1>7, <1>8, <1>9 DEF MapPump

LEMMA PagePumpKeeps ==
  ASSUME IInv, PumpVerify \/ PumpVerdict \/ PumpHole \/ PumpData \/ PumpDone, UNCHANGED Caller
  PROVE  IInv'
<1> USE DEF mapVars, counters
<1>1. /\ HeadPlaced(stage, head) /\ MapPlaced(stage, facts, scan, entryHave)
      /\ RecordsPlaced(sec) /\ PagePlaced(stage, page, reader)
  BY DEF IInv
<1>2. CASE PumpVerify \/ PumpVerdict \/ PumpHole \/ PumpData
  <2>1. UNCHANGED <<stage, head, facts, scan, entryHave, sec, page, source>>
    BY <1>2 DEF PumpVerify, PumpVerdict, PumpHole, PumpData
  <2>2. \/ UNCHANGED reader
        \/ reader' = Started("Emit")
        \/ reader' = Pumped(page, reader, ChunkBytes).reader
    BY <1>2 DEF PumpVerify, PumpVerdict, PumpHole, PumpData
  <2>3. PagePlaced(stage, page, reader')
    BY <1>1, <2>2, StartedShaped, PumpedShaped DEF PagePlaced, FillTotal
  <2>4. QED
    BY <1>1, <2>1, <2>3, PumpKeeps
<1>3. CASE PumpDone
  <2>1. /\ UNCHANGED <<head, facts, scan, entryHave, sec, source>>
        /\ stage' = "Sections" /\ reader' = Started("Verify") /\ stage = "Page"
    BY <1>3 DEF PumpDone, Pumps, InPage
  <2>2. /\ HeadPlaced(stage', head') /\ PagePlaced(stage', page', reader')
        /\ MapPlaced(stage', facts', scan', entryHave')
    BY <1>1, <2>1, StartedShaped DEF HeadPlaced, PagePlaced, MapPlaced
  <2>3. QED
    BY <1>1, <2>1, <2>2, PumpKeeps
<1>4. QED
  BY <1>2, <1>3

\* Every step leaves the source true and the walk in its place.
LEMMA StepHolds == IInv /\ [Next]_vars => IInv'
<1> SUFFICES ASSUME IInv, [Next]_vars PROVE IInv'
  OBVIOUS
<1>1. CASE PollMoves
  <2>1. PICK scratch \in Scratches : Poll({o \in Outcomes(scratch) : Moved(source, o)})
    BY <1>1 DEF PollMoves
  <2>2. Needs
    BY <1>1 DEF PollMoves
  <2>3. QED
    BY <2>1, <2>2, PollKeeps
<1>2. CASE PollStops
  <2>1. PICK scratch \in Scratches : Poll({o \in Outcomes(scratch) : ~Moved(source, o)})
    BY <1>2 DEF PollStops
  <2>2. Needs
    BY <1>2 DEF PollStops
  <2>3. QED
    BY <2>1, <2>2, PollKeeps
<1>3. CASE Pump
  BY <1>3, MapPumpKeeps, PagePumpKeeps DEF Pump
<1>4. CASE Save
  <2>1. PagePlaced(stage, page, Kept(reader))
    BY KeptShaped DEF IInv, PagePlaced, FillTotal
  <2>2. kept' = Now /\ UNCHANGED <<file, source, walkVars>>
    BY <1>4 DEF Save
  <2>3. QED
    BY <2>1, <2>2
       DEF Now, walkVars, mapVars, IInv, SourceTrue, HeadPlaced, MapPlaced, RecordsPlaced, PagePlaced
<1>5. CASE Restore
  <2>1. source' \in {source, Fresh} /\ UNCHANGED <<file, kept>>
    BY <1>5 DEF Restore
  <2>2. /\ stage' = kept.stage /\ head' = kept.head /\ facts' = kept.facts /\ scan' = kept.scan
        /\ entryHave' = kept.entryHave /\ sec' = kept.sec /\ page' = kept.page
        /\ reader' = kept.reader
    BY <1>5 DEF Restore
  <2>3. QED
    BY <2>1, <2>2, FreshTrue
       DEF IInv, SourceTrue, HeadPlaced, MapPlaced, RecordsPlaced, PagePlaced
<1>6. CASE Rest \/ UNCHANGED vars
  BY <1>6 DEF Rest, vars, walkVars, mapVars, IInv, SourceTrue, HeadPlaced, MapPlaced, RecordsPlaced, PagePlaced
<1>7. QED
  BY <1>1, <1>2, <1>3, <1>4, <1>5, <1>6 DEF Next, Step

\* SourceTrue holds of every walk: however reads are cut, blocked and failed,
\* and whatever checkpoint is restored, the adapter's position and window
\* are never stale.
THEOREM SourceStaysTrue == Spec => []SourceTrue
<1>1. Init => IInv
  BY InitHolds
<1>2. IInv /\ [Next]_vars => IInv'
  BY StepHolds
<1>3. IInv => SourceTrue
  BY DEF IInv
<1>4. QED
  BY <1>1, <1>2, <1>3, PTL DEF Spec

----------------------------------------------------------------------------
(* Counting in a stream. *)

LEMMA Below ==
  ASSUME NEW i \in Nat, NEW j \in Nat, i < j
  PROVE  <<i, j>> \in OpToRel(<, Nat)
BY Zenon DEF OpToRel

LEMMA LeastMember ==
  ASSUME NEW T \in SUBSET Nat, T # {}
  PROVE  \E e \in T : \A f \in T : e <= f
<1> DEFINE R == OpToRel(<, Nat)
<1>1. IsWellFoundedOn(R, Nat)
  BY NatLessThanWellFounded
<1>2. \A i, j \in Nat : i < j => <<i, j>> \in R
  BY Below
<1> HIDE DEF R
<1>3. PICK e \in T : \A f \in T : ~(<<f, e>> \in R)
  BY <1>1, WFMin
<1>4. ASSUME NEW f \in T, ~(e <= f) PROVE FALSE
  <2>1. e \in Nat /\ f \in Nat /\ f < e
    BY <1>4
  <2>2. QED
    BY <1>2, <1>3, <2>1
<1>5. QED
  BY <1>4

LEMMA MaxIsMember ==
  ASSUME NEW n \in Nat, NEW S \in SUBSET (0..n), S # {}
  PROVE  Max(S) \in S
<1> DEFINE down == {n - i : i \in S}
<1>1. down \in SUBSET Nat /\ down # {}
  <2>1. \A i \in S : n - i \in Nat
    OBVIOUS
  <2>2. QED
    BY <2>1
<1>2. PICK e \in down : \A f \in down : e <= f
  BY <1>1, LeastMember
<1>3. PICK m \in S : e = n - m
  BY <1>2
<1>4. \A i \in S : n - m <= n - i /\ i \in 0..n /\ m \in 0..n
  BY <1>2, <1>3
<1>5. \A i \in S : m >= i
  BY <1>4
<1>6. \E x \in S : \A y \in S : x >= y
  BY <1>5
<1>7. QED
  BY <1>6, Zenon DEF Max

LEMMA BetweenFacts ==
  ASSUME NEW p, NEW kind, NEW from \in Nat, NEW to \in Nat
  PROVE  /\ IsFiniteSet({i \in (from + 1)..to : p.stream[i] = kind})
         /\ Between(p, kind, from, to) \in Nat
         /\ from >= to => Between(p, kind, from, to) = 0
<1> DEFINE s == {i \in (from + 1)..to : p.stream[i] = kind}
<1>1. IsFiniteSet((from + 1)..to)
  BY FS_Interval
<1>2. IsFiniteSet(s) /\ Cardinality(s) \in Nat
  BY <1>1, FS_Subset, FS_CardinalityType
<1>3. from >= to => s = {}
  OBVIOUS
<1>4. QED
  BY <1>2, <1>3, FS_EmptySet DEF Between

LEMMA BetweenAdds ==
  ASSUME NEW p, NEW kind, NEW from \in Nat, NEW mid \in Nat, NEW to \in Nat, from <= mid, mid <= to
  PROVE  Between(p, kind, from, to) = Between(p, kind, from, mid) + Between(p, kind, mid, to)
<1> DEFINE s(a, b) == {i \in (a + 1)..b : p.stream[i] = kind}
<1>a. IsFiniteSet(s(from, mid))
  BY BetweenFacts
<1>b. IsFiniteSet(s(mid, to))
  BY BetweenFacts
<1>1. /\ IsFiniteSet(s(from, mid)) /\ Cardinality(s(from, mid)) \in Nat
      /\ IsFiniteSet(s(mid, to)) /\ Cardinality(s(mid, to)) \in Nat
  <2> HIDE DEF s
  <2>1. QED
    BY <1>a, <1>b, FS_CardinalityType
<1>2. s(from, to) = s(from, mid) \cup s(mid, to) /\ s(from, mid) \cap s(mid, to) = {}
  OBVIOUS
<1>3. Cardinality(s(from, mid) \cup s(mid, to))
        = Cardinality(s(from, mid)) + Cardinality(s(mid, to)) - Cardinality({})
  BY <1>1, <1>2, FS_Union
<1>4. Cardinality(s(from, to)) = Cardinality(s(from, mid)) + Cardinality(s(mid, to))
  <2> HIDE DEF s
  <2>1. QED
    BY <1>1, <1>2, <1>3, FS_EmptySet
<1>5. QED
  BY <1>4 DEF Between

LEMMA BetweenSome ==
  ASSUME NEW p, NEW kind, NEW from \in Nat, NEW to \in Nat, NEW k \in (from + 1)..to,
         p.stream[k] = kind
  PROVE  Between(p, kind, from, to) >= 1
<1> DEFINE s == {i \in (from + 1)..to : p.stream[i] = kind}
<1>1. k \in s
  OBVIOUS
<1>2. IsFiniteSet(s) /\ Between(p, kind, from, to) = Cardinality(s) /\ Cardinality(s) \in Nat
  <2>0. IsFiniteSet((from + 1)..to)
    BY FS_Interval
  <2>1. IsFiniteSet(s)
    BY <2>0, FS_Subset
  <2>2. Between(p, kind, from, to) = Cardinality(s)
    BY DEF Between
  <2>3. QED
    BY <2>1, <2>2, FS_CardinalityType
<1> HIDE DEF s
<1>3. Cardinality(s) # 0
  BY <1>1, <1>2, FS_EmptySet
<1>4. QED
  BY <1>2, <1>3

\* How far a decoder gets.
LEMMA ReachesFacts ==
  ASSUME NEW p, Len(p.stream) \in Nat, NEW r, r.lz.at \in 0..Len(p.stream), r.msg \in Nat,
         r.take \in Nat, r.take <= r.msg, NEW room \in Nat
  PROVE  /\ Reaches(p, r, room) \in r.lz.at..Len(p.stream)
         /\ Between(p, "in", r.lz.at, Reaches(p, r, room)) <= r.msg - r.take
         /\ Between(p, "out", r.lz.at, Reaches(p, r, room)) <= room
<1> DEFINE S == {to \in r.lz.at..Len(p.stream) :
                   /\ Between(p, "in", r.lz.at, to) <= r.msg - r.take
                   /\ Between(p, "out", r.lz.at, to) <= room
                   /\ Between(p, "bad", r.lz.at, to) = 0}
<1>1. /\ Between(p, "in", r.lz.at, r.lz.at) = 0 /\ Between(p, "out", r.lz.at, r.lz.at) = 0
      /\ Between(p, "bad", r.lz.at, r.lz.at) = 0
  <2>1. r.lz.at \in Nat /\ r.lz.at >= r.lz.at
    OBVIOUS
  <2>2. QED
    BY <2>1, BetweenFacts
<1>2. r.lz.at \in S /\ S \in SUBSET (0..Len(p.stream))
  BY <1>1
<1>3. Max(S) \in S
  BY <1>2, MaxIsMember
<1>4. QED
  BY <1>3 DEF Reaches

----------------------------------------------------------------------------
(* The invariant of the walk's own state: what `consistent` demands, but of *)
(* the reader only what holds of every stream, and what that rests on.     *)

\* The stored bytes the decoder was given, and those its input has left.
TakenIn(p, r) == Between(p, "in", 0, r.lz.at)

\* Each stored byte read is decoded or in hand; of a stream that has given
\* all of the page's bytes, the rest is let go.
FedOk(p, r) ==
  IF p.lz THEN /\ TakenIn(p, r) <= r.fed
               /\ ~Decoded(p, r) => TakenIn(p, r) + (r.msg - r.take) = r.fed
          ELSE r.produced + (r.msg - r.take) = r.fed

\* Of a page whose stream needs its last unit.
InStep(p, r) ==
  /\ r.have = 0 \/ r.take = r.msg
  /\ r.produced < p.plain \/ r.take = r.msg

ReaderOk(p, r) ==
  /\ Shaped(r) /\ r.pass \in {"Verify", "Emit"}
  /\ r.msg \in Nat /\ r.take \in Nat /\ r.fed \in Nat /\ r.produced \in Nat
  /\ r.lz.at \in 0..Len(p.stream)
  /\ r.produced <= p.plain /\ r.fed <= p.stored
  /\ LzOk(p, r) /\ FillOk(p, r) /\ SumsOk(r) /\ FedOk(p, r)
  /\ ~Coded(p) => r.src = p.stored \/ \E k \in 0..r.src : r.src = k * ChunkBytes
  /\ Snug(p) => InStep(p, r)

SectionType ==
  [index : Nat, name : Nat, trimmed : Nat, size : Nat, pages : Nat, done : Nat, end : Nat]
ScanType == [pass : {"Verify", "Emit", "Scan"}, whole : Nat, part : Nat]

Typed(w) ==
  /\ w.described \in Nat /\ w.sections \in Nat /\ w.emitted \in Nat
  /\ w.cur \in SectionType
  /\ w.rec \in [kind : {"Descriptor", "Name", "Reference"}, have : Nat]
  /\ w.sec \in ScanType /\ w.scan \in ScanType
  /\ DOMAIN w.facts = DOMAIN NoFacts /\ w.facts.entries \in Nat /\ w.facts.acc \in Nat

\* A page is walked with its place, and before its bytes are given a hole.
PageReached(w) ==
  /\ w.sec.pass = "Emit" /\ MapDone(w)
  /\ Sized(w.page) /\ ReaderOk(w.page, w.reader)
  /\ w.rec = [kind |-> "Reference", have |-> 0]
  /\ SectionOk(w) /\ ReferenceOk(w)
  /\ w.page.base >= PageBase /\ ~Outside(w.page)
  /\ w.scan = NoScan /\ w.entryHave = 0
  /\ w.pending.kind # "SectionEnd" /\ HoleOk(w)
  /\ w.emitted <= w.reader.produced
  /\ w.reader.pass = "Emit" \/ w.emitted = 0

\* A section has its number before it is counted.
Counted(w) == w.rec.kind = "Name" => w.sections < w.described

StageReached(w) ==
  CASE w.stage = "Head"     -> HeadOk(w)
    [] w.stage = "Map"      -> MapOk(w) /\ (w.scan.pass = "Verify" => w.scan = NoScan)
    [] w.stage = "Sections" -> SectionsOk(w) /\ w.sec.pass # "Scan" /\ Counted(w) /\ w.pending.kind # "Hole"
    [] w.stage = "Lookup"   -> LookupOk(w) /\ Sized(w.page)
    [] w.stage = "Page"     -> PageReached(w)
    [] w.stage = "Done"     -> DoneOk(w)

Reached(w) ==
  /\ Typed(w)
  /\ w.stage \in {"Head", "Map", "Sections", "Lookup", "Page", "Done"}
  /\ w.stage # "Head" => w.head = <<>> /\ w.described <= file.described /\ w.sections <= w.described
  /\ StageReached(w)

----------------------------------------------------------------------------
(* The page's reader. *)

LEMMA KeptOk ==
  ASSUME NEW p, NEW r, Shaped(r)
  PROVE  /\ ReaderOk(p, Kept(r)) <=> ReaderOk(p, r)
         /\ Kept(r).produced = r.produced /\ Kept(r).pass = r.pass
<1> DEFINE k == Kept(r)
<1>1. /\ k.pass = r.pass /\ k.cw = r.cw /\ k.src = r.src /\ k.have = r.have /\ k.msg = r.msg
      /\ k.take = r.take /\ k.fed = r.fed /\ k.produced = r.produced /\ k.lz = r.lz
      /\ k.crc = r.crc /\ k.sum = r.sum
  BY DEF Kept, Shaped, Started
<1>2. Shaped(k)
  BY KeptShaped
<1> HIDE DEF k
<1>3. /\ LzOk(p, k) <=> LzOk(p, r)
      /\ FillOk(p, k) <=> FillOk(p, r)
      /\ SumsOk(k) <=> SumsOk(r)
      /\ FedOk(p, k) <=> FedOk(p, r)
      /\ InStep(p, k) <=> InStep(p, r)
  BY <1>1 DEF LzOk, FillOk, SumsOk, FedOk, InStep, TakenIn, Decoded
<1>4. ReaderOk(p, k) <=> ReaderOk(p, r)
  BY <1>1, <1>2, <1>3 DEF ReaderOk
<1>5. QED
  BY <1>1, <1>4 DEF k

LEMMA StartedOk ==
  ASSUME NEW p, Sized(p), NEW pass \in {"Verify", "Emit"}
  PROVE  /\ ReaderOk(p, Started(pass))
         /\ Started(pass).produced = 0 /\ Started(pass).pass = pass
<1> DEFINE s == Started(pass)
<1>1. /\ s.pass = pass /\ s.cw = 0 /\ s.src = 0 /\ s.have = 0 /\ s.msg = 0
      /\ s.take = 0 /\ s.fed = 0 /\ s.produced = 0 /\ s.lz.at = 0
      /\ s.crc = Sum /\ s.sum = Sum
  BY DEF Started
<1>2. Shaped(s)
  BY StartedShaped
<1> HIDE DEF s
<1>3. /\ p.blocks \in Nat /\ p.stored \in Nat /\ p.plain \in Nat /\ Len(p.stream) \in Nat
  BY SizedFacts
<1>4. Between(p, "in", 0, 0) = 0 /\ Between(p, "out", 0, 0) = 0
  <2>1. 0 \in Nat /\ 0 >= 0
    OBVIOUS
  <2>2. QED
    BY <2>1, BetweenFacts
<1>5. LzOk(p, s)
  BY <1>1, <1>4 DEF LzOk
<1>6. FillOk(p, s)
  <2>1. s.cw * Message = 0
    BY <1>1, ReaderAssumption
  <2>2. QED
    BY <1>1, <1>3, <2>1, ReaderAssumption DEF FillOk, Lesser
<1>7. SumsOk(s)
  BY <1>1 DEF SumsOk, Sum
<1>8. FedOk(p, s)
  BY <1>1, <1>4 DEF FedOk, TakenIn
<1>9. 0 \in 0..s.src /\ s.src = 0 * ChunkBytes
  BY <1>1, ReaderAssumption
<1>10. InStep(p, s)
  BY <1>1 DEF InStep
<1>11. ReaderOk(p, s)
  BY <1>1, <1>2, <1>3, <1>5, <1>6, <1>7, <1>8, <1>9, <1>10 DEF ReaderOk
<1>12. QED
  BY <1>1, <1>11 DEF s

\* Whole units of a page that is all needed are all of it.
LEMMA UnitsWhole ==
  ASSUME NEW unit \in Nat \ {0}, NEW stored \in Nat, NEW k \in Nat,
         k * unit > ((stored - 1) \div unit) * unit
  PROVE  k * unit >= stored
<1> DEFINE q == (stored - 1) \div unit
<1>1. CASE stored = 0
  BY <1>1
<1>2. CASE stored # 0
  <2>1. q \in Nat /\ stored - 1 < q * unit + unit
    BY <1>2
  <2>2. k > q
    <3> HIDE DEF q
    <3> SUFFICES ASSUME k <= q PROVE FALSE
      BY <2>1
    <3>1. k * unit <= q * unit
      BY <2>1
    <3>2. k * unit > q * unit
      BY DEF q
    <3>3. k * unit \in Nat /\ q * unit \in Nat
      BY <2>1
    <3>4. QED
      BY <3>1, <3>2, <3>3
  <2> HIDE DEF q
  <2>3. k * unit >= (q + 1) * unit
    BY <2>1, <2>2
  <2>4. (q + 1) * unit = q * unit + unit
    BY <2>1
  <2>5. k * unit \in Nat /\ q * unit \in Nat
    BY <2>1
  <2>6. QED
    BY <1>2, <2>1, <2>3, <2>4, <2>5
<1>3. QED
  BY <1>1, <1>2

\* A page decoded whole has been read whole: stored as it is, or snug.
LEMMA AllFed ==
  ASSUME NEW p, Sized(p), p.stored <= p.plain, NEW r, ReaderOk(p, r), Decoded(p, r),
         p.lz => Snug(p)
  PROVE  r.fed = p.stored
<1>1. /\ p.blocks \in Nat /\ p.stored \in Nat /\ p.plain \in Nat /\ Len(p.stream) \in Nat
      /\ p.stream \in Seq({"in", "out", "bad"})
  BY SizedFacts
<1>2. /\ r.msg \in Nat /\ r.take \in Nat /\ r.fed \in Nat /\ r.produced = p.plain
      /\ r.fed <= p.stored /\ r.lz.at \in 0..Len(p.stream) /\ r.cw \in Nat /\ r.src \in Nat
      /\ r.take <= r.msg
  BY DEF ReaderOk, Decoded, Shaped, FillOk
<1>3. CASE ~p.lz
  <2>1. r.produced + (r.msg - r.take) = r.fed
    BY <1>3 DEF ReaderOk, FedOk
  <2>2. QED
    BY <1>1, <1>2, <2>1
<1>4. CASE p.lz
  <2> DEFINE n    == Len(p.stream)
             unit == IF p.blocks > 0 THEN Message ELSE ChunkBytes
             q    == (p.stored - 1) \div unit
  <2>1. Between(p, "out", 0, r.lz.at) = p.plain
    BY <1>2, <1>4 DEF ReaderOk, LzOk
  <2>2. r.lz.at = n
    <3> SUFFICES ASSUME r.lz.at < n PROVE FALSE
      BY <1>1, <1>2
    <3>1. Between(p, "out", 0, n) = Between(p, "out", 0, r.lz.at) + Between(p, "out", r.lz.at, n)
      BY <1>1, <1>2, BetweenAdds
    <3>0. r.lz.at \in Nat /\ n \in Nat /\ n \in (r.lz.at + 1)..n
      BY <1>1, <1>2
    <3>2. Between(p, "out", r.lz.at, n) \in Nat
      BY <3>0, BetweenFacts
    <3>3. Between(p, "out", 0, n) = p.plain
      BY <1>1, <2>1, <3>1, <3>2 DEF Sized
    <3>4. p.stream[n] = "out"
      BY <1>1, <1>2, <3>3 DEF Sized
    <3>5. Between(p, "out", r.lz.at, n) >= 1
      BY <3>0, <3>4, BetweenSome
    <3>6. QED
      BY <1>1, <2>1, <3>1, <3>2, <3>3, <3>5
  <2>3. Places(p, "in") = {i \in (0 + 1)..n : p.stream[i] = "in"}
    BY <1>1 DEF Places
  <2>4. Between(p, "in", 0, n) > q * unit
    BY <1>4, <2>3 DEF Snug, Between
  <2>5. r.fed >= Between(p, "in", 0, n)
    BY <1>4, <2>2 DEF ReaderOk, FedOk, TakenIn
  <2>6. unit \in Nat \ {0}
    BY ReaderAssumption
  <2>7. r.fed = p.stored \/ \E k \in Nat : r.fed = k * unit
    <3>1. CASE Coded(p)
      <4>1. unit = Message /\ r.fed = Lesser(p.stored, r.cw * Message)
        BY <3>1 DEF ReaderOk, FillOk, Coded
      <4>2. QED
        BY <1>2, <4>1 DEF Lesser
    <3>2. CASE ~Coded(p)
      <4>1. unit = ChunkBytes /\ r.fed = r.src
        BY <3>2 DEF ReaderOk, FillOk, Coded
      <4>2. r.src = p.stored \/ \E k \in 0..r.src : r.src = k * ChunkBytes
        BY <3>2 DEF ReaderOk
      <4>3. QED
        BY <1>2, <4>1, <4>2
    <3>3. QED
      BY <3>1, <3>2
  <2>8. CASE \E k \in Nat : r.fed = k * unit
    <3>1. PICK k \in Nat : r.fed = k * unit
      BY <2>8
    <3>2. Between(p, "in", 0, n) \in Nat
      BY <1>1, BetweenFacts
    <3>3. q \in Int
      BY <1>1, <2>6
    <3> HIDE DEF unit, n
    <3>4. k * unit > q * unit
      <4> HIDE DEF q
      <4>1. q * unit \in Int /\ k * unit \in Int
        BY <2>6, <3>3
      <4>2. QED
        BY <2>4, <2>5, <3>1, <3>2, <4>1
    <3>5. k * unit >= p.stored
      BY <1>1, <2>6, <3>4, UnitsWhole
    <3>6. QED
      BY <1>1, <1>2, <3>1, <3>5
  <2>9. QED
    BY <2>7, <2>8
<1>5. QED
  BY <1>3, <1>4

\* A pump gives bytes of what is in hand, and never more than the page has.
LEMMA PumpedOk ==
  ASSUME NEW p, Sized(p), p.stored <= p.plain, NEW r, ReaderOk(p, r), Working(p, r)
  PROVE  LET n == Pumped(p, r, ChunkBytes)
         IN /\ ReaderOk(p, n.reader)
            /\ Len(n.bytes) \in Nat
            /\ n.reader.produced = r.produced + Len(n.bytes)
            /\ n.reader.pass = r.pass
<1> DEFINE room   == Lesser(ChunkBytes, ChunkBytes)
           to     == Reaches(p, r, room)
           copied == Lesser(room, Lesser(r.msg - r.take, p.plain - r.produced))
           used   == IF p.lz THEN Between(p, "in", r.lz.at, to) ELSE copied
           gives  == IF p.lz THEN Between(p, "out", r.lz.at, to) ELSE copied
           ended  == r.produced + gives = p.plain
           n      == Pumped(p, r, ChunkBytes)
           s      == n.reader
<1>1. /\ p.stored \in Nat /\ p.plain \in Nat /\ Len(p.stream) \in Nat
      /\ p.lz \in BOOLEAN
  BY SizedFacts DEF Sized, PageType
<1>2. /\ r.msg \in Nat /\ r.take \in Nat /\ r.fed \in Nat /\ r.produced \in Nat /\ r.have \in Nat
      /\ r.produced <= p.plain /\ r.produced # p.plain /\ r.fed <= p.stored
      /\ r.lz.at \in 0..Len(p.stream) /\ r.take <= r.msg /\ r.pass \in {"Verify", "Emit"}
  BY DEF ReaderOk, Shaped, FillOk, Working, Decoded
<1>3. room \in Nat
  BY ReaderAssumption DEF Lesser
<1>4. /\ s.pass = r.pass /\ s.cw = r.cw /\ s.src = r.src /\ s.have = r.have /\ s.msg = r.msg
      /\ s.fed = r.fed /\ s.crc = r.crc
      /\ s.produced = r.produced + gives
      /\ s.take = IF ended THEN r.msg ELSE r.take + used
      /\ s.lz.at = IF p.lz THEN to ELSE 0
      /\ r.pass = "Verify" => s.sum.n = r.sum.n + gives
      /\ r.pass # "Verify" => s.sum = r.sum
      /\ n.bytes = [i \in 1..gives |-> n.bytes[i]]
  BY DEF Pumped, Folded, ReaderOk, Shaped, Started
<1>5. Shaped(s)
  BY PumpedShaped DEF ReaderOk
<1> HIDE DEF s, n
<1>6. /\ used \in Nat /\ gives \in Nat /\ used <= r.msg - r.take
      /\ r.produced + gives <= p.plain
      /\ s.lz.at \in 0..Len(p.stream)
      /\ LzOk(p, s)
  <2>1. CASE p.lz
    <3>1. /\ to \in r.lz.at..Len(p.stream)
          /\ Between(p, "in", r.lz.at, to) <= r.msg - r.take
      BY <1>1, <1>2, <1>3, ReachesFacts
    <3> HIDE DEF to, room
    <3>2. /\ r.lz.at \in Nat /\ to \in Nat /\ r.lz.at <= to /\ to <= Len(p.stream) /\ 0 <= r.lz.at
          /\ 0 \in Nat
      BY <1>1, <1>2, <3>1
    <3>3. used \in Nat /\ gives \in Nat /\ Between(p, "out", to, Len(p.stream)) \in Nat
      BY <1>1, <2>1, <3>2, BetweenFacts
    <3>4. Between(p, "out", 0, to) = Between(p, "out", 0, r.lz.at) + gives
      BY <2>1, <3>2, BetweenAdds
    <3>5. Between(p, "out", 0, Len(p.stream)) = Between(p, "out", 0, to) + Between(p, "out", to, Len(p.stream))
      BY <1>1, <3>2, BetweenAdds
    <3>6. Between(p, "out", 0, r.lz.at) = r.produced
      BY <2>1 DEF ReaderOk, LzOk
    <3>7. Between(p, "out", 0, Len(p.stream)) <= p.plain
      BY DEF Sized
    <3>8. s.lz.at = to
      BY <1>4, <2>1
    <3>9. used <= r.msg - r.take
      BY <2>1, <3>1
    <3> HIDE DEF used, gives
    <3>10. r.produced + gives <= p.plain
      BY SMTT(30), <1>1, <1>2, <3>3, <3>4, <3>5, <3>6, <3>7
    <3>11. LzOk(p, s)
      BY <1>4, <2>1, <3>4, <3>6, <3>8 DEF LzOk, gives
    <3>12. QED
      BY <1>1, <3>2, <3>3, <3>8, <3>9, <3>10, <3>11
  <2>2. CASE ~p.lz
    <3>1. copied \in Nat /\ copied <= r.msg - r.take /\ copied <= p.plain - r.produced
      BY <1>1, <1>2, <1>3 DEF Lesser
    <3> HIDE DEF copied
    <3>2. used = copied /\ gives = copied
      BY <2>2
    <3>3. s.lz.at = 0
      BY <1>4, <2>2
    <3>4. QED
      BY <1>1, <1>2, <2>2, <3>1, <3>2, <3>3 DEF LzOk
  <2>3. QED
    BY <2>1, <2>2
<1> HIDE DEF to, room
<1>7. s.take \in Nat /\ s.take <= r.msg
  BY <1>2, <1>4, <1>6
<1>8. FillOk(p, s)
  BY <1>2, <1>4, <1>7 DEF ReaderOk, FillOk
<1>9. SumsOk(s)
  BY <1>2, <1>4 DEF ReaderOk, SumsOk
<1>10. FedOk(p, s)
  <2>1. CASE p.lz
    <3>1. TakenIn(p, s) = TakenIn(p, r) + used /\ TakenIn(p, r) \in Nat
      <4>1. to \in r.lz.at..Len(p.stream)
        BY <1>1, <1>2, <1>3, ReachesFacts DEF to
      <4>2. /\ r.lz.at \in Nat /\ to \in Nat /\ r.lz.at <= to /\ 0 <= r.lz.at /\ 0 \in Nat
        BY <1>1, <1>2, <4>1
      <4>3. Between(p, "in", 0, to) = Between(p, "in", 0, r.lz.at) + Between(p, "in", r.lz.at, to)
        BY <4>2, BetweenAdds
      <4>4. s.lz.at = to /\ used = Between(p, "in", r.lz.at, to)
        BY <1>4, <2>1
      <4>5. QED
        BY <4>2, <4>3, <4>4, BetweenFacts DEF TakenIn
    <3>2. TakenIn(p, r) + (r.msg - r.take) = r.fed
      BY <1>2, <2>1 DEF ReaderOk, FedOk, Decoded
    <3>3. ~Decoded(p, s) => s.take = r.take + used
      BY <1>4 DEF Decoded
    <3> HIDE DEF used, gives
    <3>4. TakenIn(p, s) <= s.fed
      BY <1>2, <1>4, <1>6, <3>1, <3>2
    <3>5. ~Decoded(p, s) => TakenIn(p, s) + (s.msg - s.take) = s.fed
      BY <1>2, <1>4, <1>6, <3>1, <3>2, <3>3
    <3>6. QED
      BY <2>1, <3>4, <3>5 DEF FedOk
  <2>2. CASE ~p.lz
    <3>1. r.produced + (r.msg - r.take) = r.fed /\ used = gives
      BY <2>2 DEF ReaderOk, FedOk
    <3> HIDE DEF used, gives
    <3>2. s.msg = r.msg /\ s.fed = r.fed /\ s.produced = r.produced + gives
          /\ s.take = IF ended THEN r.msg ELSE r.take + gives
      BY <1>4, <3>1
    <3>3. s.produced + (s.msg - s.take) = s.fed
      <4>1. CASE ended
        <5>1. p.plain >= p.stored /\ r.fed <= p.stored /\ r.produced + gives = p.plain
          BY <1>2, <4>1
        <5>2. gives <= r.msg - r.take
          BY <1>6, <3>1
        <5>3. QED
          BY SMTT(30), <1>1, <1>2, <1>6, <3>1, <3>2, <4>1, <5>1, <5>2
      <4>2. CASE ~ended
        BY <1>2, <1>6, <3>1, <3>2, <4>2
      <4>3. QED
        BY <4>1, <4>2
    <3>4. QED
      BY <2>2, <3>3 DEF FedOk
  <2>3. QED
    BY <2>1, <2>2
<1>11. Snug(p) => InStep(p, s)
  <2>1. ASSUME Snug(p) PROVE r.have = 0 \/ r.take = r.msg
    BY <2>1 DEF ReaderOk, InStep
  <2> HIDE DEF used, gives
  <2>2. s.produced < p.plain \/ s.take = s.msg
    <3>1. CASE ended
      BY <1>4, <3>1
    <3>2. CASE ~ended
      <4>1. r.produced + gives # p.plain /\ s.produced = r.produced + gives
        BY <1>4, <3>2
      <4>2. QED
        BY <1>1, <1>2, <1>6, <4>1
    <3>3. QED
      BY <3>1, <3>2
  <2>3. r.take = r.msg => s.take = s.msg
    BY <1>2, <1>4, <1>6
  <2>4. QED
    BY <1>4, <2>1, <2>2, <2>3 DEF InStep
<1>12. s.src = r.src /\ (~Coded(p) => s.src = p.stored \/ \E k \in 0..s.src : s.src = k * ChunkBytes)
  BY <1>4 DEF ReaderOk
<1>13. s.produced \in Nat /\ s.produced <= p.plain
  BY <1>2, <1>4, <1>6
<1>14. ReaderOk(p, s)
  BY <1>2, <1>4, <1>5, <1>6, <1>7, <1>8, <1>9, <1>10, <1>11, <1>12, <1>13 DEF ReaderOk
<1>15. Len(n.bytes) = gives
  BY <1>4, <1>6
<1>16. QED
  BY <1>4, <1>6, <1>14, <1>15 DEF s, n

\* A reader asks for bytes when it has used those in hand, or has decoded its
\* page and verifies the rest.
LEMMA NeedFacts ==
  ASSUME NEW p, NEW r, ReaderOk(p, r), Status(p, r) = "Need"
  PROVE  /\ Further(p, r)
         /\ ~Decoded(p, r) => r.take = r.msg
         /\ Snug(p) => r.take = r.msg
<1>1. Further(p, r) /\ ~Working(p, r)
  BY DEF Status
<1>2. r.take <= r.msg /\ r.take \in Nat /\ r.msg \in Nat /\ r.produced \in Nat
  BY DEF ReaderOk, FillOk
<1>3. ~Decoded(p, r) => r.take = r.msg
  BY <1>1, <1>2 DEF Working
<1>4. Snug(p) => r.take = r.msg
  BY <1>3 DEF ReaderOk, InStep, Decoded
<1>5. QED
  BY <1>1, <1>3, <1>4

\* A fill that is not over leaves the reader as it was, with more in hand.
LEMMA TakenOk ==
  ASSUME NEW p, Sized(p), NEW r, ReaderOk(p, r), Status(p, r) = "Need",
         NEW bytes, Len(bytes) \in Nat \ {0}, r.have + Len(bytes) < FillTotal(p, r)
  PROVE  ReaderOk(p, Taken(r, bytes))
<1> DEFINE t == Taken(r, bytes)
<1>1. /\ t.pass = r.pass /\ t.cw = r.cw /\ t.src = r.src /\ t.msg = r.msg /\ t.take = r.take
      /\ t.fed = r.fed /\ t.produced = r.produced /\ t.lz = r.lz /\ t.crc = r.crc /\ t.sum = r.sum
      /\ t.have = r.have + Len(bytes)
      /\ DOMAIN t = DOMAIN r
  BY DEF Taken, ReaderOk, Shaped, Started
<1> HIDE DEF t
<1>2. r.have \in Nat /\ r.src \in Nat /\ p.stored \in Nat
  BY SizedFacts DEF ReaderOk, Shaped
<1>3. Shaped(t)
  BY SMTT(30), <1>1, <1>2 DEF ReaderOk, Shaped
<1>4. FillOk(p, t)
  <2>1. CASE Coded(p)
    BY <1>1, <2>1 DEF ReaderOk, FillOk, FillTotal
  <2>2. CASE ~Coded(p)
    <3>1. t.have < Lesser(p.stored - r.src, ChunkBytes)
      BY <1>1, <2>2 DEF FillTotal
    <3>2. t.have <= p.stored - r.src /\ t.have < ChunkBytes
      BY <1>1, <1>2, <3>1, ReaderAssumption DEF Lesser
    <3>3. QED
      BY <1>1, <2>2, <3>2 DEF ReaderOk, FillOk
  <2>3. QED
    BY <2>1, <2>2
<1>5. LzOk(p, t) /\ SumsOk(t) /\ FedOk(p, t)
  BY <1>1 DEF ReaderOk, LzOk, SumsOk, FedOk, TakenIn, Decoded
<1>6. Snug(p) => InStep(p, t)
  BY <1>1, NeedFacts DEF InStep
<1>7. QED
  BY <1>1, <1>3, <1>4, <1>5, <1>6 DEF ReaderOk, t

\* A codeword that is whole is one of the page's, and its message what is
\* left of the stored bytes.
LEMMA CodewordOk ==
  ASSUME NEW p, Sized(p), Coded(p), NEW r, ReaderOk(p, r), Further(p, r)
  PROVE  /\ Carried(p, r) \in Nat
         /\ r.cw + 1 <= p.blocks
         /\ r.fed + Carried(p, r) = Lesser(p.stored, (r.cw + 1) * Message)
<1> DEFINE past == r.cw * Message
<1>1. p.stored \in Nat /\ p.blocks \in Nat /\ r.cw \in Nat /\ Message \in Nat \ {0}
      /\ p.stored <= p.blocks * Message
  BY SMTT(30), SizedFacts, ReaderAssumption DEF ReaderOk, Shaped
<1>2. r.cw <= p.blocks /\ r.fed = Lesser(p.stored, past)
  BY DEF ReaderOk, FillOk
<1>3. past \in Nat /\ (r.cw + 1) * Message = past + Message
  BY <1>1
<1>4. r.cw < p.blocks
  <2>1. SUFFICES ASSUME r.cw = p.blocks PROVE FALSE
    BY <1>1, <1>2
  <2>2. r.fed < p.stored
    BY <2>1, <1>1 DEF Further
  <2>3. past >= p.stored
    BY <1>1, <2>1
  <2> HIDE DEF past
  <2>4. QED
    BY <1>1, <1>2, <1>3, <2>2, <2>3 DEF Lesser
<1>5. Carried(p, r) = Lesser(Greater(0, p.stored - past), Message)
  BY DEF Carried
<1> HIDE DEF past
<1>6. Carried(p, r) \in Nat
  BY <1>1, <1>3, <1>5 DEF Lesser, Greater
<1>7. r.fed + Carried(p, r) = Lesser(p.stored, past + Message)
  BY <1>1, <1>2, <1>3, <1>5 DEF Lesser, Greater
<1>8. QED
  BY <1>1, <1>3, <1>4, <1>6, <1>7

\* A fill that is over hands its bytes on: the reader has a unit more.
LEMMA CompletedOk ==
  ASSUME NEW p, Sized(p), p.stored <= p.plain, NEW r, ReaderOk(p, r), Status(p, r) = "Need",
         NEW bytes, Taken(r, bytes).have = FillTotal(p, r)
  PROVE  ReaderOk(p, Completed(p, Taken(r, bytes)))
<1> DEFINE t == Taken(r, bytes)
           m == IF Coded(p) THEN Carried(p, t) ELSE t.have
           c == Completed(p, t)
<1>1. /\ t.pass = r.pass /\ t.cw = r.cw /\ t.src = r.src /\ t.msg = r.msg /\ t.take = r.take
      /\ t.fed = r.fed /\ t.produced = r.produced /\ t.lz = r.lz /\ t.crc = r.crc /\ t.sum = r.sum
  BY DEF Taken, ReaderOk, Shaped, Started
<1>2. /\ r.have \in Nat /\ r.src \in Nat /\ r.cw \in Nat /\ r.msg \in Nat /\ r.take \in Nat
      /\ r.fed \in Nat /\ r.produced \in Nat /\ r.fed <= p.stored /\ r.produced <= p.plain
      /\ r.pass \in {"Verify", "Emit"} /\ r.lz.at \in 0..Len(p.stream)
      /\ p.stored \in Nat /\ p.plain \in Nat /\ p.blocks \in Nat
  BY SizedFacts DEF ReaderOk, Shaped, Sized, PageType
<1>3. /\ Further(p, r) /\ (~Decoded(p, r) => r.take = r.msg) /\ (Snug(p) => r.take = r.msg)
  BY NeedFacts
<1>4. /\ c.pass = r.pass /\ c.have = 0 /\ c.msg = m /\ c.take = 0 /\ c.fed = r.fed + m
      /\ c.produced = r.produced /\ c.lz = r.lz /\ c.sum = r.sum
  BY <1>1 DEF Completed, ReaderOk, Shaped, Started
<1>5. /\ Coded(p) => c.cw = r.cw + 1 /\ c.src = r.src
      /\ ~Coded(p) => c.cw = r.cw /\ c.src = r.src + t.have
  BY <1>1 DEF Completed, ReaderOk, Shaped, Started
<1>6. /\ r.pass = "Verify" => c.crc.n = r.crc.n + m
      /\ r.pass # "Verify" => c.crc = r.crc
      /\ DOMAIN c = DOMAIN Started("Verify")
  BY DEF Completed, Folded, Taken, ReaderOk, Shaped, Started
<1>7. t.have = FillTotal(p, r)
  OBVIOUS
<1> HIDE DEF t, c
<1>8. /\ m \in Nat /\ c.src \in Nat /\ c.cw \in Nat
      /\ FillOk(p, c) /\ c.fed <= p.stored
      /\ ~Coded(p) => c.src = p.stored \/ \E k \in 0..c.src : c.src = k * ChunkBytes
      /\ r.fed = p.stored => m = 0
  <2>1. CASE Coded(p)
    <3>1. /\ Carried(p, r) \in Nat /\ r.cw + 1 <= p.blocks
          /\ r.fed + Carried(p, r) = Lesser(p.stored, (r.cw + 1) * Message)
      BY <1>3, <2>1, CodewordOk
    <3>2. m = Carried(p, r)
      BY <1>1, <2>1 DEF Carried
    <3> HIDE DEF m
    <3>3. c.cw = r.cw + 1 /\ c.src = r.src /\ c.cw # 0 /\ c.cw - 1 = r.cw
      <4>1. c.cw = r.cw + 1 /\ c.src = r.src
        BY <1>5, <2>1
      <4>2. r.cw \in Nat
        BY <1>2
      <4>3. QED
        BY <4>1, <4>2
    <3>4. r.src = 0
      BY <2>1 DEF ReaderOk, FillOk
    <3>5. c.fed = Lesser(p.stored, c.cw * Message) /\ c.cw * Message \in Nat
      <4>1. c.fed = r.fed + Carried(p, r)
        BY <1>4, <3>2
      <4>2. c.cw * Message \in Nat
        BY SMTT(30), <1>2, <3>3, ReaderAssumption
      <4>3. QED
        BY <3>1, <3>3, <4>1, <4>2
    <3>6. c.msg = Lesser(Greater(0, p.stored - (c.cw - 1) * Message), Message)
      BY <1>4, <3>2, <3>3 DEF Carried
    <3>7. FillOk(p, c)
      BY <1>2, <1>4, <2>1, <3>1, <3>2, <3>3, <3>4, <3>5, <3>6, ReaderAssumption DEF FillOk
    <3>8. c.fed <= p.stored
      BY <1>2, <3>3, <3>5 DEF Lesser
    <3>9. r.fed = p.stored => m = 0
      BY <1>2, <1>4, <3>1, <3>2, <3>8
    <3>10. QED
      BY SMTT(30), <1>2, <2>1, <3>1, <3>2, <3>3, <3>7, <3>8, <3>9
  <2>2. CASE ~Coded(p)
    <3>1. r.src < p.stored
      BY <1>3, <2>2 DEF Further
    <3>2. m = Lesser(p.stored - r.src, ChunkBytes)
      BY <1>7, <2>2 DEF FillTotal
    <3>3. c.src = r.src + m /\ c.cw = r.cw
      BY <1>5, <2>2
    <3> HIDE DEF m
    <3>4. m \in Nat /\ m <= ChunkBytes /\ m <= p.stored - r.src
          /\ (m = ChunkBytes \/ m = p.stored - r.src)
      BY SMTT(30), <1>2, <3>1, <3>2, ReaderAssumption DEF Lesser
    <3>5. r.fed = r.src /\ r.cw = 0
      BY <2>2 DEF ReaderOk, FillOk
    <3>6. FillOk(p, c)
      BY <1>2, <1>4, <2>2, <3>3, <3>4, <3>5, ReaderAssumption DEF FillOk
    <3>7. c.src = p.stored \/ \E k \in 0..c.src : c.src = k * ChunkBytes
      <4>1. CASE m = p.stored - r.src
        BY <1>2, <3>3, <3>4, <4>1
      <4>2. CASE m = ChunkBytes
        <5>1. PICK k \in 0..r.src : r.src = k * ChunkBytes
          BY <1>2, <2>2, <3>1 DEF ReaderOk
        <5>2. k \in Nat /\ (k + 1) * ChunkBytes = k * ChunkBytes + ChunkBytes /\ k <= r.src
          BY <1>2, <5>1, ReaderAssumption
        <5>3. c.src = (k + 1) * ChunkBytes
          BY <3>3, <4>2, <5>1, <5>2
        <5>4. k + 1 \in 0..c.src
          BY <1>2, <3>3, <3>4, <4>2, <5>2, ReaderAssumption
        <5>5. QED
          BY <5>3, <5>4
      <4>3. QED
        BY <3>4, <4>1, <4>2
    <3>8. QED
      BY <1>2, <1>4, <3>1, <3>3, <3>4, <3>5, <3>6, <3>7
  <2>3. QED
    BY <2>1, <2>2
<1> HIDE DEF m
<1>9. Shaped(c)
  BY <1>4, <1>8, <1>6 DEF Shaped
<1>10. LzOk(p, c)
  BY <1>4 DEF ReaderOk, LzOk
<1>11. SumsOk(c)
  BY <1>4, <1>6 DEF ReaderOk, SumsOk
<1>12. FedOk(p, c)
  <2>1. CASE p.lz
    <3>1. TakenIn(p, c) = TakenIn(p, r) /\ TakenIn(p, r) \in Nat
      <4>1. 0 \in Nat /\ r.lz.at \in Nat
        BY <1>2
      <4>2. QED
        BY <1>4, <4>1, BetweenFacts DEF TakenIn
    <3>2. TakenIn(p, r) <= r.fed
      BY <2>1 DEF ReaderOk, FedOk
    <3>3. ~Decoded(p, r) => TakenIn(p, r) = r.fed
      BY <1>2, <1>3, <2>1, <3>1 DEF ReaderOk, FedOk
    <3>4. Decoded(p, c) <=> Decoded(p, r)
      BY <1>4 DEF Decoded
    <3>5. QED
      BY <1>2, <1>4, <1>8, <2>1, <3>1, <3>2, <3>3, <3>4 DEF FedOk
  <2>2. CASE ~p.lz
    <3>1. Snug(p)
      BY <2>2 DEF Snug
    <3>2. r.produced + (r.msg - r.take) = r.fed
      BY <2>2 DEF ReaderOk, FedOk
    <3>3. QED
      BY <1>2, <1>3, <1>4, <1>8, <2>2, <3>1, <3>2 DEF FedOk
  <2>3. QED
    BY <2>1, <2>2
<1>13. Snug(p) => InStep(p, c)
  <2>1. SUFFICES ASSUME Snug(p), Decoded(p, r) PROVE m = 0
    BY <1>2, <1>4 DEF InStep, Decoded
  <2>2. r.fed = p.stored
    BY <2>1, AllFed
  <2>3. QED
    BY <1>8, <2>2
<1>14. c.fed \in Nat
  <2>1. c.fed = r.fed + m /\ r.fed \in Nat /\ m \in Nat
    BY <1>2, <1>4, <1>8
  <2>2. QED
    BY <2>1
<1>15. ReaderOk(p, c)
  BY <1>2, <1>4, <1>8, <1>9, <1>10, <1>11, <1>12, <1>13, <1>14 DEF ReaderOk
<1>16. QED
  BY <1>15 DEF c, t

----------------------------------------------------------------------------
(* What a walk is, and what a step makes of it. *)

Current(w) ==
  /\ w.stage = stage /\ w.head = head /\ w.facts = facts /\ w.scan = scan
  /\ w.entryHave = entryHave /\ w.sec = sec /\ w.rec = rec /\ w.cur = cur /\ w.page = page
  /\ w.described = described /\ w.sections = sections /\ w.pages = pages
  /\ w.reader = Kept(reader)
  /\ w.pending = pending /\ w.emitted = emitted

Resulting(m) ==
  /\ m.stage = stage' /\ m.head = head' /\ m.facts = facts' /\ m.scan = scan'
  /\ m.entryHave = entryHave' /\ m.sec = sec' /\ m.rec = rec' /\ m.cur = cur' /\ m.page = page'
  /\ m.described = described' /\ m.sections = sections' /\ m.pages = pages'
  /\ m.reader = Kept(reader)'
  /\ m.pending = pending' /\ m.emitted = emitted'

LEMMA NowFacts == Current(Now) /\ Resulting(Now')
BY DEF Now, Current, Resulting

LEMMA KeptStarted ==
  ASSUME NEW pass
  PROVE  Kept(Started(pass)) = Started(pass)
<1> DEFINE s == Started(pass)
           e == SubSeq(s.buf, 1, Greater(s.have, s.msg))
<1>1. e = <<>>
  <2>1. s.buf = <<>> /\ s.have = 0 /\ s.msg = 0 /\ Greater(0, 0) = 0
    BY DEF Started, Greater
  <2>2. SubSeq(<<>>, 1, 0) = <<>>
    OBVIOUS
  <2>3. QED
    BY <2>1, <2>2
<1>2. s.buf = <<>>
  BY DEF Started
<1>3. [s EXCEPT !.buf = <<>>] = s
  <2>1. s = [x \in DOMAIN s |-> s[x]]
    BY Zenon DEF Started
  <2> HIDE DEF s
  <2>2. QED
    BY <1>2, <2>1
<1>4. QED
  BY <1>1, <1>3 DEF Kept

\* The parts of a walk that a step leaves alone.
SameMaps(m, w) ==
  /\ m.facts = w.facts /\ m.scan = w.scan /\ m.entryHave = w.entryHave /\ m.sec = w.sec

SameSection(m, w) ==
  /\ m.rec = w.rec /\ m.cur = w.cur /\ m.described = w.described /\ m.sections = w.sections

SamePage(m, w) ==
  /\ m.page = w.page /\ m.reader = w.reader /\ m.emitted = w.emitted

LEMMA SameOk ==
  ASSUME NEW m, NEW w, SameSection(m, w), m.pending = w.pending,
         w.rec.kind \in {"Descriptor", "Name", "Reference"}
  PROVE  /\ SectionOk(w) => SectionOk(m)
         /\ SamePage(m, w) /\ m.pages = w.pages /\ BlankParser(w) => BlankParser(m)
<1>1. (BetweenSections(w) => BetweenSections(m)) /\ (InName(w) => InName(m))
      /\ (InReferences(w) => InReferences(m))
  BY DEF SameSection, BetweenSections, InName, InReferences
<1>2. SectionOk(w) => SectionOk(m)
  <2>1. m.rec.kind = w.rec.kind
    BY DEF SameSection
  <2>2. CASE w.rec.kind = "Descriptor"
    BY <1>1, <2>1, <2>2 DEF SectionOk
  <2>3. CASE w.rec.kind = "Name"
    BY <1>1, <2>1, <2>3 DEF SectionOk
  <2>4. CASE w.rec.kind = "Reference"
    BY <1>1, <2>1, <2>4 DEF SectionOk
  <2>5. QED
    BY <2>2, <2>3, <2>4
<1>3. QED
  BY <1>2 DEF SameSection, SamePage, BlankParser, BlankPage

\* A checkpoint of a walk that has been restored is the walk's.
LEMMA KeptReached ==
  ASSUME NEW m, NEW w, Reached(w), Shaped(w.reader), m.reader = Kept(w.reader),
         m.stage = w.stage, m.head = w.head, SameMaps(m, w), SameSection(m, w),
         m.page = w.page, m.emitted = w.emitted, m.pending = w.pending, m.pages = w.pages
  PROVE  Reached(m)
<1>1. SectionOk(w) => SectionOk(m)
  <2>1. w.rec.kind \in {"Descriptor", "Name", "Reference"}
    BY DEF Reached, Typed
  <2>2. QED
    BY <2>1, SameOk
<1>2. BlankPage(w) => BlankPage(m)
  BY KeptStarted DEF BlankPage
<1>3. BlankParser(w) => BlankParser(m)
  BY <1>2 DEF BlankParser, SameSection
<1>4. MapDone(m) <=> MapDone(w)
  BY DEF MapDone, SameMaps
<1>5. m.reader.produced = w.reader.produced /\ m.reader.pass = w.reader.pass
      /\ (ReaderOk(m.page, m.reader) <=> ReaderOk(w.page, w.reader))
  BY KeptOk
<1>6. (HoleOk(m) <=> HoleOk(w)) /\ (ReferenceOk(m) <=> ReferenceOk(w))
  BY <1>5 DEF HoleOk, ReferenceOk, SameSection
<1>7. Typed(m)
  BY DEF Reached, Typed, SameMaps, SameSection
<1>8. CASE w.stage = "Head"
  BY <1>3, <1>7, <1>8 DEF Reached, StageReached, HeadOk, SameMaps
<1>9. CASE w.stage = "Map"
  BY <1>3, <1>7, <1>9 DEF Reached, StageReached, MapOk, ScanOk, SameMaps, SameSection
<1>10. CASE w.stage = "Sections"
  BY <1>1, <1>2, <1>3, <1>4, <1>7, <1>10 DEF Reached, StageReached, SectionsOk, Counted, SameMaps, SameSection
<1>11. CASE w.stage = "Lookup"
  BY <1>1, <1>4, <1>6, <1>7, <1>11 DEF Reached, StageReached, LookupOk, ScanOk, SameMaps, SameSection
<1>12. CASE w.stage = "Page"
  BY <1>1, <1>4, <1>5, <1>6, <1>7, <1>12 DEF Reached, StageReached, PageReached, SameMaps, SameSection
<1>13. CASE w.stage = "Done"
  BY <1>2, <1>4, <1>7, <1>13 DEF Reached, StageReached, DoneOk, SameMaps, SameSection
<1>14. QED
  BY <1>8, <1>9, <1>10, <1>11, <1>12, <1>13 DEF Reached

\* What a step in a page must show.
LEMMA PageSame ==
  ASSUME NEW m, NEW w, Reached(w), w.stage = "Page", m.stage = "Page", m.head = w.head,
         SameMaps(m, w), SameSection(m, w), m.page = w.page,
         ReaderOk(m.page, m.reader), m.pending.kind \in {"None", "Hole"}, HoleOk(m),
         m.emitted \in Nat, m.emitted <= m.reader.produced,
         m.reader.pass = "Emit" \/ m.emitted = 0
  PROVE  Reached(m)
<1>1. PageReached(w)
  BY DEF Reached, StageReached
<1>2. SectionOk(m)
  BY <1>1 DEF PageReached, SectionOk, InReferences, SameSection
<1>3. MapDone(m) /\ ReferenceOk(m)
  BY <1>1 DEF PageReached, MapDone, ReferenceOk, SameMaps, SameSection
<1>4. Typed(m)
  BY DEF Reached, Typed, SameMaps, SameSection
<1>5. PageReached(m)
  BY <1>1, <1>2, <1>3 DEF PageReached, SameMaps, SameSection
<1>6. QED
  BY <1>4, <1>5 DEF Reached, StageReached, SameSection

\* The invariant is about nothing but the walk and its file.
LEMMA ReachedSame ==
  ASSUME NEW k, file' = file
  PROVE  Reached(k)' <=> Reached(k)
<1>1. /\ MapDone(k)' <=> MapDone(k)
      /\ Outside(k.page)' <=> Outside(k.page)
  BY DEF MapDone, Outside
<1>2. /\ BlankParser(k)' <=> BlankParser(k)
      /\ BlankPage(k)' <=> BlankPage(k)
      /\ SectionOk(k)' <=> SectionOk(k)
      /\ ReferenceOk(k)' <=> ReferenceOk(k)
      /\ HoleOk(k)' <=> HoleOk(k)
      /\ ReaderOk(k.page, k.reader)' <=> ReaderOk(k.page, k.reader)
      /\ Sized(k.page)' <=> Sized(k.page)
      /\ Typed(k)' <=> Typed(k)
      /\ Counted(k)' <=> Counted(k)
  OBVIOUS
<1>3. HeadOk(k)' <=> HeadOk(k)
  BY <1>2 DEF HeadOk
<1>4. MapOk(k)' <=> MapOk(k)
  BY <1>2 DEF MapOk
<1>5. SectionsOk(k)' <=> SectionsOk(k)
  BY <1>1, <1>2 DEF SectionsOk
<1>6. LookupOk(k)' <=> LookupOk(k)
  BY <1>1, <1>2 DEF LookupOk
<1>7. PageReached(k)' <=> PageReached(k)
  BY <1>1, <1>2 DEF PageReached
<1>8. DoneOk(k)' <=> DoneOk(k)
  BY <1>1, <1>2 DEF DoneOk
<1>9. StageReached(k)' <=> StageReached(k)
  BY <1>1, <1>2, <1>3, <1>4, <1>5, <1>6, <1>7, <1>8 DEF StageReached
<1>10. QED
  BY <1>2, <1>9 DEF Reached

WInv ==
  /\ IInv
  /\ Reached(kept)
  /\ failure = "none" => Reached(Now)

LEMMA StepKeeps ==
  ASSUME WInv, file' = file, kept' = kept, failure' = "none" => Reached(Now'), IInv'
  PROVE  WInv'
<1>1. Reached(kept)' <=> Reached(kept)
  BY ReachedSame
<1>2. Reached(Now)' <=> Reached(Now')
  BY ReachedSame
<1>3. QED
  BY <1>1, <1>2 DEF WInv

----------------------------------------------------------------------------
(* The header and the page. *)

LEMMA FeedHeadReached ==
  ASSUME WInv, stage = "Head", failure = "none", NEW bytes, FeedHead(bytes),
         HeadPlaced(stage', head')
  PROVE  failure' = "none" => Reached(Now')
<1> DEFINE w == Now
           m == Now'
<1>1. Current(w) /\ Resulting(m) /\ Reached(w)
  BY NowFacts DEF WInv
<1> HIDE DEF w, m
<1>2. HeadOk(w) /\ Typed(w) /\ w.stage = "Head"
  BY <1>1 DEF Current, Reached, StageReached
<1>3. /\ UNCHANGED <<facts, scan, entryHave, sec, rec, cur, page, described, sections, pages,
                     reader, pending, emitted>>
      /\ \/ stage' = "Map" /\ head' = <<>>
         \/ stage' = "Head"
  BY DEF FeedHead, mapVars
<1>4. SameMaps(m, w) /\ SameSection(m, w) /\ SamePage(m, w) /\ m.pages = w.pages /\ m.pending = w.pending
  BY <1>1, <1>3 DEF Current, Resulting, SameMaps, SameSection, SamePage
<1>5. BlankParser(m) /\ Typed(m)
  BY <1>2, <1>4, SameOk DEF HeadOk, Typed, SameMaps, SameSection, SamePage
<1>6. file.described \in Nat
  BY FileFacts DEF WInv, IInv
<1>7. CASE stage' = "Map" /\ head' = <<>>
  <2>1. MapOk(m) /\ m.scan = NoScan
    BY <1>2, <1>4, <1>5 DEF HeadOk, MapOk, NoScan, SameMaps
  <2>2. m.described = 0 /\ m.sections = 0
    BY <1>5 DEF BlankParser
  <2>3. QED
    BY <1>1, <1>5, <1>6, <1>7, <2>1, <2>2 DEF Resulting, Reached, StageReached, m
<1>8. CASE stage' = "Head"
  <2>1. HeadOk(m)
    BY <1>1, <1>2, <1>4, <1>5, <1>8 DEF HeadOk, HeadPlaced, Resulting, SameMaps
  <2>2. QED
    BY <1>1, <1>5, <1>8, <2>1 DEF Resulting, Reached, StageReached, m
<1>9. QED
  BY <1>3, <1>7, <1>8

\* What is known of a walk in a page.
PageNow ==
  /\ stage = "Page" /\ failure = "none"
  /\ Sized(page) /\ page.stored <= page.plain
  /\ ReaderOk(page, reader)
  /\ emitted \in Nat /\ emitted <= reader.produced
  /\ reader.pass = "Emit" \/ emitted = 0
  /\ pending.kind \in {"None", "Hole"}
  /\ cur \in SectionType

LEMMA PageFacts ==
  ASSUME WInv, stage = "Page", failure = "none"
  PROVE  PageNow
<1> DEFINE w == Now
<1>1. Current(w) /\ Reached(w)
  BY NowFacts DEF WInv
<1> HIDE DEF w
<1>2. PageReached(w) /\ Typed(w)
  BY <1>1 DEF Current, Reached, StageReached
<1>3. Shaped(reader)
  BY DEF WInv, IInv, PagePlaced
<1>4. /\ ReaderOk(page, reader) /\ w.reader.produced = reader.produced /\ w.reader.pass = reader.pass
  BY <1>1, <1>2, <1>3, KeptOk DEF Current, PageReached
<1>5. w.pending.kind \in {"None", "Hole"}
  BY <1>2 DEF PageReached, SectionOk, InReferences
<1>6. QED
  BY <1>1, <1>2, <1>4, <1>5 DEF Current, PageReached, ReferenceOk, Typed, PageNow

\* A step in a page, from what it makes of the reader and the hole.
LEMMA InPageReached ==
  ASSUME WInv, PageNow, stage' = stage,
         UNCHANGED <<head, facts, scan, entryHave, sec, rec, cur, page, described, sections, pages>>,
         Shaped(reader') /\ ReaderOk(page, reader'),
         pending'.kind = "None" \/ (pending' = Gap /\ reader'.pass = "Emit" /\ reader'.produced = 0),
         emitted' \in Nat, emitted' <= reader'.produced,
         reader'.pass = "Emit" \/ emitted' = 0
  PROVE  Reached(Now')
<1> DEFINE w == Now
           m == Now'
<1>1. Current(w) /\ Resulting(m) /\ Reached(w)
  BY NowFacts DEF WInv, PageNow
<1> HIDE DEF w, m
<1>2. w.stage = "Page" /\ m.stage = "Page" /\ m.head = w.head /\ m.page = w.page
      /\ SameMaps(m, w) /\ SameSection(m, w)
  BY <1>1 DEF Current, Resulting, SameMaps, SameSection, PageNow
<1>3. /\ m.reader = Kept(reader') /\ m.page = page /\ m.cur = cur /\ m.pending = pending'
      /\ m.emitted = emitted'
  BY <1>1 DEF Current, Resulting, Kept
<1>4. /\ ReaderOk(m.page, m.reader)
      /\ m.reader.produced = reader'.produced /\ m.reader.pass = reader'.pass
  BY <1>3, KeptOk
<1>5. m.pending.kind \in {"None", "Hole"} /\ HoleOk(m)
  <2>1. CASE pending'.kind = "None"
    BY <1>3, <2>1 DEF HoleOk
  <2>2. CASE pending' = Gap /\ reader'.pass = "Emit" /\ reader'.produced = 0
    BY <1>3, <1>4, <2>2 DEF HoleOk, Gap, NoPending, Waiting
  <2>3. QED
    BY <2>1, <2>2
<1>6. Reached(m)
  BY <1>1, <1>2, <1>3, <1>4, <1>5, PageSame
<1>7. QED
  BY <1>6 DEF m

LEMMA FeedPageReached ==
  ASSUME WInv, InPage, Status(page, reader) = "Need", NEW bytes, FeedPage(bytes),
         Len(bytes) \in 1..(FillTotal(page, reader) - reader.have), IInv'
  PROVE  failure' = "none" => Reached(Now')
<1> SUFFICES ASSUME failure' = "none" PROVE Reached(Now')
  OBVIOUS
<1> DEFINE taken == Taken(reader, bytes)
<1>1. PageNow
  BY PageFacts DEF InPage
<1>2. /\ Shaped(reader) /\ taken.have = reader.have + Len(bytes) /\ taken.src = reader.src
      /\ taken.pass = reader.pass /\ taken.produced = reader.produced
      /\ Completed(page, taken).pass = reader.pass
      /\ Completed(page, taken).produced = reader.produced
  BY <1>1 DEF PageNow, ReaderOk, Shaped, Taken, Completed, Started
<1>3. FillTotal(page, taken) = FillTotal(page, reader)
  BY <1>2 DEF FillTotal
<1>4. FillTotal(page, reader) \in Int /\ reader.have \in Nat
  BY SMTT(30), <1>1, ReaderAssumption, SizedFacts DEF PageNow, ReaderOk, FillTotal, Lesser, Shaped
<1>5. \/ taken.have # FillTotal(page, taken) /\ reader' = taken
      \/ taken.have = FillTotal(page, taken) /\ reader' = Completed(page, taken)
  BY DEF FeedPage
<1>6. ReaderOk(page, reader')
  <2>1. CASE taken.have # FillTotal(page, taken) /\ reader' = taken
    <3>1. Len(bytes) \in Nat \ {0} /\ reader.have + Len(bytes) < FillTotal(page, reader)
      BY <1>2, <1>3, <1>4, <2>1
    <3>2. QED
      BY <1>1, <2>1, <3>1, TakenOk DEF PageNow
  <2>2. CASE taken.have = FillTotal(page, taken) /\ reader' = Completed(page, taken)
    <3>1. Taken(reader, bytes).have = FillTotal(page, reader)
      BY <1>3, <2>2
    <3>2. QED
      BY <1>1, <2>2, <3>1, CompletedOk DEF PageNow
  <2>3. QED
    BY <1>5, <2>1, <2>2
<1>7. Shaped(reader')
  BY <1>6 DEF ReaderOk
<1>8. reader'.produced = reader.produced /\ reader'.pass = reader.pass
  BY <1>2, <1>5
<1>9. /\ UNCHANGED <<stage, head, facts, scan, entryHave, sec, rec, cur, page, described, sections,
                     pages, pending, emitted>>
  BY DEF FeedPage, mapVars
<1>10. pending.kind = "None"
  BY DEF InPage, NoPending, Waiting
<1>11. QED
  BY <1>1, <1>6, <1>7, <1>8, <1>9, <1>10, InPageReached DEF PageNow

\* What a pump of the page knows.
LEMMA PumpsFacts ==
  ASSUME WInv, NEW pass, NEW status, Pumps(pass, status)
  PROVE  /\ PageNow /\ reader.pass = pass /\ Status(page, reader) = status
         /\ pending.kind = "None" /\ pending = NoPending
BY PageFacts DEF Pumps, InPage, NoPending, Waiting

LEMMA WorkFacts ==
  ASSUME PageNow, Status(page, reader) = "Work"
  PROVE  LET n == Pumped(page, reader, ChunkBytes)
         IN /\ Shaped(n.reader) /\ ReaderOk(page, n.reader)
            /\ Len(n.bytes) \in Nat
            /\ n.reader.produced = reader.produced + Len(n.bytes)
            /\ n.reader.pass = reader.pass
            /\ reader.produced \in Nat
<1>1. Working(page, reader)
  BY DEF Status
<1>2. QED
  BY <1>1, PumpedOk DEF PageNow, ReaderOk

LEMMA VerifyReached ==
  ASSUME WInv, PumpVerify
  PROVE  failure' = "none" => Reached(Now')
<1> SUFFICES ASSUME failure' = "none" PROVE Reached(Now')
  OBVIOUS
<1>1. PageNow /\ reader.pass = "Verify" /\ Status(page, reader) = "Work" /\ pending.kind = "None"
  BY PumpsFacts DEF PumpVerify
<1>2. /\ reader' = Pumped(page, reader, ChunkBytes).reader
      /\ UNCHANGED <<stage, head, facts, scan, entryHave, sec, rec, cur, page, described, sections,
                     pages, pending, emitted>>
  BY DEF PumpVerify, mapVars
<1>3. emitted = 0
  BY <1>1 DEF PageNow
<1>4. Shaped(reader') /\ ReaderOk(page, reader') /\ 0 <= reader'.produced
  BY <1>1, <1>2, WorkFacts
<1>5. QED
  BY <1>1, <1>2, <1>3, <1>4, InPageReached

LEMMA VerdictReached ==
  ASSUME WInv, PumpVerdict
  PROVE  failure' = "none" => Reached(Now')
<1> SUFFICES ASSUME failure' = "none" PROVE Reached(Now')
  OBVIOUS
<1>1. PageNow
  BY PumpsFacts DEF PumpVerdict
<1>2. /\ reader' = Started("Emit") /\ pending' = Gap /\ emitted' = 0
      /\ UNCHANGED <<stage, head, facts, scan, entryHave, sec, rec, cur, page, described, sections,
                     pages>>
  BY DEF PumpVerdict, mapVars
<1>3. /\ ReaderOk(page, reader') /\ Shaped(reader') /\ reader'.produced = 0 /\ reader'.pass = "Emit"
  BY <1>1, <1>2, StartedOk, StartedShaped DEF PageNow
<1>4. QED
  BY <1>1, <1>2, <1>3, InPageReached

LEMMA HoleReached ==
  ASSUME WInv, PumpHole
  PROVE  Reached(Now')
<1> DEFINE w == Now
<1>1. stage = "Page"
  <2>1. Current(w) /\ Reached(w)
    BY NowFacts DEF WInv, PumpHole
  <2> HIDE DEF w
  <2>2. w.pending.kind = "Hole" /\ "Hole" # "None" /\ NoPending.kind = "None"
    BY <2>1 DEF PumpHole, Current, NoPending, Waiting
  <2>3. ~BlankParser(w) /\ w.pending # NoPending
    BY <2>2 DEF BlankParser
  <2>4. w.stage = "Page"
    BY <2>1, <2>2, <2>3 DEF Reached, StageReached, HeadOk, MapOk, LookupOk, DoneOk
  <2>5. QED
    BY <2>1, <2>4 DEF Current
<1>2. PageNow
  BY <1>1, PageFacts DEF PumpHole
<1>3. /\ pending' = NoPending
      /\ UNCHANGED <<stage, head, facts, scan, entryHave, sec, rec, cur, page, described, sections,
                     pages, reader, emitted>>
  BY DEF PumpHole, mapVars
<1>4. pending'.kind = "None"
  BY <1>3 DEF NoPending, Waiting
<1>5. QED
  BY <1>2, <1>3, <1>4, InPageReached DEF PageNow, ReaderOk

LEMMA DataReached ==
  ASSUME WInv, PumpData
  PROVE  failure' = "none" => Reached(Now')
<1> SUFFICES ASSUME failure' = "none" PROVE Reached(Now')
  OBVIOUS
<1> DEFINE n    == Pumped(page, reader, ChunkBytes)
           keep == Lesser(Len(n.bytes), Greater(0, cur.size - (page.dataOffset + reader.produced)))
<1>1. PageNow /\ reader.pass = "Emit" /\ Status(page, reader) = "Work" /\ pending.kind = "None"
  BY PumpsFacts DEF PumpData
<1>2. /\ reader' = n.reader /\ emitted' = emitted + keep
      /\ UNCHANGED <<stage, head, facts, scan, entryHave, sec, rec, cur, page, described, sections,
                     pages, pending>>
  BY DEF PumpData, mapVars
<1>3. /\ Shaped(reader') /\ ReaderOk(page, reader') /\ Len(n.bytes) \in Nat
      /\ reader'.produced = reader.produced + Len(n.bytes)
      /\ reader'.pass = "Emit" /\ reader.produced \in Nat
  BY <1>1, <1>2, WorkFacts
<1> HIDE DEF n
<1>4. cur.size \in Nat /\ page.dataOffset \in Nat /\ emitted \in Nat /\ emitted <= reader.produced
  BY <1>1, SizedFacts DEF PageNow, SectionType
<1>5. keep \in Nat /\ keep <= Len(n.bytes)
  BY <1>3, <1>4 DEF Lesser, Greater
<1> HIDE DEF keep
<1>6. emitted' \in Nat /\ emitted' <= reader'.produced
  BY <1>2, <1>3, <1>4, <1>5
<1>7. QED
  BY <1>1, <1>2, <1>3, <1>6, InPageReached

\* A page done: the next record, or the section's end.
LEMMA DoneReached ==
  ASSUME WInv, PumpDone
  PROVE  Reached(Now')
<1> DEFINE w == Now
           m == Now'
<1>1. Current(w) /\ Resulting(m) /\ Reached(w) /\ w.stage = "Page" /\ w.pending = NoPending
  BY NowFacts DEF WInv, PumpDone, Pumps, InPage, Current
<1> HIDE DEF w, m
<1>2. PageReached(w) /\ Typed(w)
  BY <1>1 DEF Reached, StageReached
<1>3. /\ w.rec = [kind |-> "Reference", have |-> 0] /\ InReferences(w)
      /\ w.cur \in SectionType
      /\ w.page.dataOffset \in Nat /\ w.page.plain \in Nat
  BY <1>2, SizedFacts DEF PageReached, SectionOk, Typed
<1>4. /\ m.cur = [w.cur EXCEPT !.end = w.page.dataOffset + w.page.plain, !.done = @ + 1]
      /\ m.emitted = 0 /\ m.page = NoPage /\ m.reader = Started("Verify") /\ m.stage = "Sections"
      /\ SameMaps(m, w) /\ m.head = w.head /\ m.described = w.described /\ m.sections = w.sections
      /\ IF m.cur.done = m.cur.pages
         THEN m.pending = SectionEndOf(m.cur) /\ m.rec = [kind |-> "Descriptor", have |-> 0]
         ELSE m.pending = w.pending /\ m.rec = w.rec
  <2>1. /\ cur' = [cur EXCEPT !.end = page.dataOffset + page.plain, !.done = @ + 1]
        /\ emitted' = 0 /\ page' = NoPage /\ reader' = Started("Verify") /\ stage' = "Sections"
        /\ UNCHANGED <<head, facts, scan, entryHave, sec, described, sections>>
    BY DEF PumpDone
  <2>2. m.reader = Kept(reader')
    BY <1>1 DEF Resulting, Kept
  <2>3. m.reader = Started("Verify")
    BY <2>1, <2>2, KeptStarted
  <2>4. m.cur = cur' /\ w.cur = cur /\ w.page = page
    BY <1>1 DEF Current, Resulting
  <2>5. cur'.pages = cur.pages
    BY <1>3, <2>1, <2>4 DEF SectionType
  <2>6. IF cur'.done = cur.pages THEN pending' = SectionEndOf(cur') /\ Expect("Descriptor")
        ELSE UNCHANGED <<pending, rec>>
    BY DEF PumpDone
  <2>7. IF m.cur.done = m.cur.pages
        THEN m.pending = SectionEndOf(m.cur) /\ m.rec = [kind |-> "Descriptor", have |-> 0]
        ELSE m.pending = w.pending /\ m.rec = w.rec
    BY <1>1, <2>4, <2>5, <2>6 DEF Current, Resulting, Expect
  <2>8. QED
    BY <1>1, <2>1, <2>3, <2>4, <2>7 DEF Current, Resulting, SameMaps
<1>5. /\ m.cur \in SectionType /\ m.cur.name = w.cur.name /\ m.cur.trimmed = w.cur.trimmed
      /\ m.cur.index = w.cur.index /\ m.cur.done = w.cur.done + 1 /\ m.cur.pages = w.cur.pages
      /\ w.cur.done \in Nat /\ w.cur.pages \in Nat
  <2> DEFINE end == w.page.dataOffset + w.page.plain
  <2>1. end \in Nat /\ w.cur \in SectionType /\ m.cur = [w.cur EXCEPT !.end = end, !.done = @ + 1]
    BY <1>3, <1>4
  <2> HIDE DEF end
  <2>2. w.cur.done + 1 \in Nat
    BY <2>1 DEF SectionType
  <2>3. QED
    BY <2>1, <2>2 DEF SectionType
<1>6. /\ m.rec \in [kind : {"Descriptor", "Name", "Reference"}, have : Nat]
      /\ m.rec.kind \in {"Descriptor", "Reference"} /\ m.rec.have = 0
      /\ m.pending.kind \in {"None", "SectionEnd"}
  BY <1>1, <1>3, <1>4 DEF SectionEndOf, NoPending, Waiting
<1>7. Typed(m)
  BY <1>2, <1>4, <1>5, <1>6 DEF Typed, SameMaps
<1>8. SectionOk(m)
  <2>1. CASE m.cur.done = m.cur.pages
    <3>1. m.pending = SectionEndOf(m.cur) /\ m.pending.kind = "SectionEnd" /\ m.rec.kind = "Descriptor"
      BY <1>4, <2>1 DEF SectionEndOf, Waiting
    <3>2. BetweenSections(m)
      BY <1>3, <1>4, <1>5, <1>6, <2>1, <3>1 DEF BetweenSections, InReferences
    <3>3. QED
      BY <3>1, <3>2 DEF SectionOk
  <2>2. CASE m.cur.done # m.cur.pages
    <3>1. m.pending = NoPending /\ m.rec.kind = "Reference" /\ m.pending.kind = "None"
      BY <1>1, <1>3, <1>4, <2>2 DEF NoPending, Waiting
    <3>2. m.cur.done < m.cur.pages
      BY <1>3, <1>5, <2>2 DEF InReferences
    <3>3. InReferences(m)
      BY <1>3, <1>4, <1>5, <1>6, <3>1, <3>2, MapsAssumption DEF InReferences
    <3>4. QED
      BY <3>1, <3>3 DEF SectionOk
  <2>3. QED
    BY <2>1, <2>2
<1>9. SectionsOk(m) /\ m.sec.pass # "Scan" /\ Counted(m) /\ m.pending.kind # "Hole"
  BY <1>2, <1>4, <1>6, <1>8 DEF PageReached, SectionsOk, BlankPage, MapDone, Counted, SameMaps
<1>10. Reached(m)
  BY <1>1, <1>4, <1>7, <1>9 DEF Reached, StageReached
<1>11. QED
  BY <1>10 DEF m

\* The end of a section handed out.
LEMMA SectionEndReached ==
  ASSUME WInv, PumpSectionEnd
  PROVE  Reached(Now')
<1> DEFINE w == Now
           m == Now'
<1>1. Current(w) /\ Resulting(m) /\ Reached(w) /\ w.pending.kind = "SectionEnd"
  BY NowFacts DEF WInv, PumpSectionEnd, Current
<1> HIDE DEF w, m
<1>2. Typed(w) /\ w.pending # NoPending
  BY <1>1 DEF Reached, NoPending, Waiting
<1>3. ~BlankParser(w)
  BY <1>2 DEF BlankParser
<1>4. w.stage = "Sections" /\ SectionsOk(w) /\ w.sec.pass = "Emit" /\ SectionOk(w)
  BY <1>1, <1>2, <1>3
     DEF Reached, StageReached, HeadOk, MapOk, SectionsOk, LookupOk, PageReached, DoneOk, Typed, ScanType
<1>5. w.rec.kind = "Descriptor" /\ w.rec.have = 0
  <2>1. w.rec.kind \in {"Descriptor", "Name", "Reference"}
    BY <1>2 DEF Typed
  <2>2. QED
    BY <1>1, <1>2, <1>4, <2>1 DEF SectionOk, BetweenSections, InName, InReferences
<1>6. /\ m.pending = NoPending /\ m.cur = NoSection /\ m.stage = w.stage /\ m.head = w.head
      /\ SameMaps(m, w) /\ SamePage(m, w) /\ m.rec = w.rec
      /\ m.described = w.described /\ m.sections = w.sections
  <2>1. /\ pending' = NoPending /\ cur' = NoSection
        /\ UNCHANGED <<stage, head, facts, scan, entryHave, sec, rec, page, described, sections,
                       reader, emitted>>
    BY DEF PumpSectionEnd, counters
  <2>2. QED
    BY <1>1, <2>1 DEF Current, Resulting, SameMaps, SamePage
<1>7. NoSection \in SectionType
  BY DEF NoSection, SectionType
<1>8. Typed(m)
  BY <1>2, <1>6, <1>7 DEF Typed, SameMaps, SamePage
<1>9. SectionOk(m)
  <2>1. BetweenSections(m)
    BY <1>5, <1>6, MapsAssumption DEF BetweenSections, NoPending, Waiting
  <2>2. QED
    BY <1>5, <1>6, <2>1 DEF SectionOk
<1>10. SectionsOk(m)
  BY <1>4, <1>6, <1>9 DEF SectionsOk, BlankPage, MapDone, SameMaps, SamePage
<1>11. Counted(m) /\ m.pending.kind # "Hole"
  BY <1>5, <1>6 DEF Counted, NoPending, Waiting
<1>12. Reached(m)
  BY <1>1, <1>4, <1>6, <1>8, <1>10, <1>11 DEF Reached, StageReached, SameMaps
<1>13. QED
  BY <1>12 DEF m

----------------------------------------------------------------------------
(* The maps. *)

\* What is known of a walk in the page map's first pass.
LEMMA MapFacts ==
  ASSUME WInv, stage = "Map", failure = "none"
  PROVE  /\ Current(Now) /\ Resulting(Now') /\ Typed(Now) /\ MapOk(Now)
         /\ head = <<>> /\ described = 0 /\ sections = 0 /\ sec = NoScan
         /\ scan.pass = "Verify" => scan = NoScan /\ facts = NoFacts /\ entryHave = 0
         /\ scan.pass # "Verify" => scan.pass = "Emit" /\ entryHave = scan.part /\ facts.entries = scan.whole
         /\ BlankParser(Now)
<1> DEFINE w == Now
<1>1. Current(w) /\ Resulting(Now') /\ Reached(w)
  BY NowFacts DEF WInv
<1> HIDE DEF w
<1>2. w.stage = "Map" /\ MapOk(w) /\ Typed(w) /\ w.head = <<>> /\ BlankParser(w)
      /\ (w.scan.pass = "Verify" => w.scan = NoScan)
  BY <1>1 DEF Current, Reached, StageReached, MapOk
<1>3. /\ w.sec = NoScan
      /\ w.scan.pass = "Verify" => w.facts = NoFacts /\ w.entryHave = 0
      /\ w.scan.pass # "Verify" => /\ w.scan.pass = "Emit" /\ w.entryHave = w.scan.part
                                   /\ w.facts.entries = w.scan.whole
  BY <1>2 DEF MapOk, ScanOk
<1>4. w.described = 0 /\ w.sections = 0
  BY <1>2 DEF BlankParser
<1>5. QED
  BY <1>1, <1>2, <1>3, <1>4 DEF Current, w

\* A step within the first pass, from what it makes of the map.
LEMMA InMapReached ==
  ASSUME WInv, stage = "Map", failure = "none", stage' \in {"Map", "Sections"},
         UNCHANGED <<head, sec, rec, cur, page, described, sections, pages, reader, pending, emitted>>,
         scan' \in ScanType, DOMAIN facts' = DOMAIN NoFacts,
         facts'.entries \in Nat, facts'.acc \in Nat,
         stage' = "Map" => /\ scan'.pass = "Emit" /\ entryHave' = scan'.part
                           /\ facts'.entries = scan'.whole,
         stage' = "Sections" => scan' = NoScan /\ entryHave' = 0 /\ MapDone(Now')
  PROVE  Reached(Now')
<1> DEFINE w == Now
           m == Now'
<1>1. /\ Current(w) /\ Resulting(m) /\ Typed(w) /\ MapOk(w) /\ BlankParser(w)
      /\ head = <<>> /\ described = 0 /\ sections = 0 /\ sec = NoScan
  BY MapFacts
<1> HIDE DEF w, m
<1>2. SameSection(m, w) /\ SamePage(m, w) /\ m.pages = w.pages /\ m.pending = w.pending
      /\ m.sec = NoScan /\ m.head = <<>> /\ m.described = 0 /\ m.sections = 0
  BY <1>1 DEF Current, Resulting, SameSection, SamePage
<1>3. m.scan \in ScanType /\ DOMAIN m.facts = DOMAIN NoFacts /\ m.facts.entries \in Nat
      /\ m.facts.acc \in Nat /\ m.stage = stage' /\ m.scan = scan' /\ m.entryHave = entryHave'
      /\ m.facts = facts'
  BY <1>1 DEF Resulting
<1>4. BlankParser(m) /\ Typed(m)
  <2>1. w.rec.kind \in {"Descriptor", "Name", "Reference"} /\ NoScan \in ScanType
    BY <1>1 DEF Typed, NoScan, ScanType
  <2>2. QED
    BY <1>1, <1>2, <1>3, <2>1, SameOk DEF Typed, SameSection, SamePage
<1>5. file.described \in Nat
  BY FileFacts DEF WInv, IInv
<1>6. CASE stage' = "Map"
  <2>1. MapOk(m)
    BY <1>2, <1>3, <1>4, <1>6 DEF MapOk, ScanOk
  <2>2. QED
    BY <1>2, <1>3, <1>4, <1>5, <1>6, <2>1 DEF Reached, StageReached, m
<1>7. CASE stage' = "Sections"
  <2>1. m.rec.kind = "Descriptor" /\ m.pending.kind = "None" /\ BlankPage(m)
    BY <1>4 DEF BlankParser, NoRecord, NoPending, Waiting
  <2>2. MapDone(m)
    BY <1>7 DEF m
  <2>3. SectionsOk(m) /\ m.sec.pass # "Scan" /\ Counted(m)
    BY <1>2, <1>3, <1>4, <1>7, <2>1, <2>2 DEF SectionsOk, NoScan, Counted
  <2>4. QED
    BY <1>2, <1>3, <1>4, <1>5, <1>7, <2>1, <2>3 DEF Reached, StageReached, m
<1>8. QED
  BY <1>6, <1>7

LEMMA MapVerifyReached ==
  ASSUME WInv, MapVerify
  PROVE  failure' = "none" => Reached(Now')
<1> SUFFICES ASSUME failure' = "none" PROVE Reached(Now')
  OBVIOUS
<1>1. /\ stage = "Map" /\ scan.pass = "Verify" /\ failure = "none"
      /\ scan' = [scan EXCEPT !.pass = "Emit"]
      /\ UNCHANGED <<stage, head, facts, entryHave, sec, rec, cur, page, described, sections, pages,
                     reader, pending, emitted>>
  BY DEF MapVerify, counters
<1>2. scan = NoScan /\ facts = NoFacts /\ entryHave = 0
  BY <1>1, MapFacts
<1>3. scan' \in ScanType /\ scan'.pass = "Emit" /\ scan'.part = 0 /\ scan'.whole = 0
  BY <1>1, <1>2 DEF NoScan, ScanType
<1>4. facts'.entries = 0 /\ facts'.acc = 0 /\ DOMAIN facts' = DOMAIN NoFacts
  BY <1>1, <1>2 DEF NoFacts
<1>5. QED
  BY <1>1, <1>2, <1>3, <1>4, InMapReached

LEMMA FinishMapReached ==
  ASSUME WInv, FinishMap
  PROVE  failure' = "none" => Reached(Now')
<1> SUFFICES ASSUME failure' = "none" PROVE Reached(Now')
  OBVIOUS
<1>1. /\ stage = "Map" /\ failure = "none" /\ MapFault = "none" /\ stage' = "Sections" /\ scan' = NoScan
      /\ UNCHANGED <<head, facts, entryHave, sec, rec, cur, page, described, sections, pages,
                     reader, pending, emitted>>
  BY DEF FinishMap, counters
<1>2. /\ entryHave = 0 /\ facts.entries = file.amount /\ facts.maxId = file.maxId
      /\ facts.own /\ facts.maps
  BY <1>1 DEF MapFault
<1>3. Current(Now) /\ Resulting(Now') /\ Typed(Now)
  BY <1>1, MapFacts
<1>4. MapDone(Now')
  <2> DEFINE m == Now'
  <2>1. m.facts = facts
    BY <1>1, <1>3 DEF Resulting
  <2> HIDE DEF m
  <2>2. MapDone(m)
    BY <1>2, <2>1 DEF MapDone
  <2>3. QED
    BY <2>2 DEF m
<1>5. DOMAIN facts = DOMAIN NoFacts /\ facts.entries \in Nat /\ facts.acc \in Nat
  <2> DEFINE w == Now
  <2>1. Current(w) /\ Typed(w)
    BY <1>3
  <2> HIDE DEF w
  <2>2. QED
    BY <2>1 DEF Current, Typed
<1>6. NoScan \in ScanType
  BY DEF NoScan, ScanType
<1>7. QED
  BY <1>1, <1>2, <1>4, <1>5, <1>6, InMapReached

\* A place in a map, some bytes on.
LEMMA AdvancedType ==
  ASSUME NEW pos \in ScanType, NEW n \in Nat, NEW size \in Nat
  PROVE  Advanced(pos, n, size) \in ScanType /\ Advanced(pos, n, size).pass = pos.pass
<1>1. pos.whole + 1 \in Nat /\ pos.part + n \in Nat
  BY DEF ScanType
<1>2. CASE pos.part + n = size
  BY <1>1, <1>2 DEF Advanced, ScanType
<1>3. CASE pos.part + n # size
  <2> DEFINE part == pos.part + n
  <2>1. Advanced(pos, n, size) = [pos EXCEPT !.part = part]
    BY <1>3 DEF Advanced
  <2>2. part \in Nat
    BY <1>1
  <2> HIDE DEF part
  <2>3. QED
    BY <2>1, <2>2 DEF ScanType
<1>4. QED
  BY <1>2, <1>3

\* An entry of the first pass.
LEMMA MapEntryReached ==
  ASSUME WInv, stage = "Map", PumpEntry
  PROVE  failure' = "none" => Reached(Now')
<1> SUFFICES ASSUME failure' = "none" PROVE Reached(Now')
  OBVIOUS
<1> DEFINE ns == SomeOf(scan, entryHave, file.entries, EntryBytes, file.tail)
           e  == file.entries[scan.whole + 1]
<1>1. /\ scan.pass # "Verify" /\ failure = "none"
      /\ UNCHANGED <<head, sec, rec, cur, described, sections, pages, pending, emitted>>
  BY DEF PumpEntry, counters
<1>2. PICK n \in ns :
        \/ /\ entryHave + n < EntryBytes
           /\ scan' = Advanced(scan, n, EntryBytes) /\ entryHave' = entryHave + n
           /\ UNCHANGED <<stage, facts, page, reader>>
        \/ /\ entryHave + n = EntryBytes
           /\ entryHave' = 0
           /\ OnEntry(e)
           /\ scan' = Advanced(scan, n, EntryBytes)
  BY DEF PumpEntry
<1> DEFINE next == Advanced(scan, n, EntryBytes)
<1>3. /\ n \in Nat
      /\ entryHave + n = EntryBytes =>
           scan.whole + 1 \in 1..Len(file.entries) /\ next.whole = scan.whole + 1 /\ next.part = 0
      /\ entryHave + n < EntryBytes => next.whole = scan.whole /\ next.part = entryHave + n
  BY EntryAdvances DEF WInv
<1>4. /\ scan.pass = "Emit" /\ entryHave = scan.part /\ facts.entries = scan.whole
      /\ Current(Now) /\ Typed(Now)
  BY <1>1, MapFacts
<1>5. scan \in ScanType /\ DOMAIN facts = DOMAIN NoFacts /\ facts.entries \in Nat /\ facts.acc \in Nat
  <2> DEFINE w == Now
  <2>1. Current(w) /\ Typed(w)
    BY <1>4
  <2> HIDE DEF w
  <2>2. QED
    BY <2>1 DEF Current, Typed
<1>6. next \in ScanType /\ next.pass = "Emit"
  BY <1>3, <1>4, <1>5, MapsAssumption, AdvancedType
<1> HIDE DEF next
<1>7. CASE /\ entryHave + n < EntryBytes
           /\ scan' = next /\ entryHave' = entryHave + n
           /\ UNCHANGED <<stage, facts, page, reader>>
  <2>1. stage' = "Map" /\ stage' # "Sections" /\ entryHave' = scan'.part /\ facts'.entries = scan'.whole
    BY <1>3, <1>4, <1>7
  <2>2. QED
    BY <1>1, <1>5, <1>6, <1>7, <2>1, InMapReached
<1>8. CASE /\ entryHave + n = EntryBytes
           /\ entryHave' = 0
           /\ OnEntry(e)
           /\ scan' = next
  <2>1. /\ UNCHANGED <<stage, page, reader>>
        /\ DOMAIN facts' = DOMAIN NoFacts
        /\ facts'.entries = facts.entries + 1 /\ facts'.acc = facts.acc + e.size
    BY <1>1, <1>8 DEF OnEntry, NoFacts
  <2>2. e.size \in Nat
    BY <1>3, <1>8, FileFacts DEF WInv, IInv
  <2>3. stage' = "Map" /\ stage' # "Sections" /\ entryHave' = scan'.part /\ facts'.entries = scan'.whole
    BY <1>3, <1>4, <1>8, <2>1
  <2>4. facts'.entries \in Nat /\ facts'.acc \in Nat
    BY <1>5, <2>1, <2>2
  <2>5. QED
    BY <1>1, <1>6, <1>8, <2>1, <2>3, <2>4, InMapReached
<1>9. QED
  BY <1>2, <1>7, <1>8 DEF next

\* What is known of a lookup.
LEMMA LookupFacts ==
  ASSUME WInv, stage = "Lookup", failure = "none"
  PROVE  /\ Current(Now) /\ Resulting(Now') /\ Typed(Now) /\ Reached(Now) /\ LookupOk(Now)
         /\ Sized(page) /\ scan \in ScanType /\ scan.pass = "Scan" /\ facts.acc \in Nat
         /\ pending = NoPending /\ emitted = 0
<1> DEFINE w == Now
<1>1. Current(w) /\ Resulting(Now') /\ Reached(w)
  BY NowFacts DEF WInv
<1> HIDE DEF w
<1>2. w.stage = "Lookup" /\ LookupOk(w) /\ Typed(w) /\ Sized(w.page)
  BY <1>1 DEF Current, Reached, StageReached
<1>3. w.scan \in ScanType /\ w.scan.pass = "Scan" /\ w.facts.acc \in Nat
      /\ w.pending = NoPending /\ w.emitted = 0
  BY <1>2 DEF LookupOk, Typed
<1>4. QED
  BY <1>1, <1>2, <1>3 DEF Current, w

\* A step within it.
LEMMA InLookupReached ==
  ASSUME WInv, stage = "Lookup", failure = "none", stage' = "Lookup",
         UNCHANGED <<head, sec, rec, cur, page, described, sections, pages, reader, pending, emitted>>,
         scan' \in ScanType, scan'.pass = "Scan", entryHave' = scan'.part,
         facts' = facts \/ \E a \in Nat : facts' = [facts EXCEPT !.acc = a]
  PROVE  Reached(Now')
<1> DEFINE w == Now
           m == Now'
<1>1. Current(w) /\ Resulting(m) /\ Typed(w) /\ Reached(w) /\ LookupOk(w) /\ Sized(page)
  BY LookupFacts
<1> HIDE DEF w, m
<1>2. /\ SameSection(m, w) /\ m.page = w.page /\ m.emitted = w.emitted /\ m.pending = w.pending
      /\ m.sec = w.sec /\ m.head = w.head /\ m.stage = "Lookup" /\ w.stage = "Lookup"
      /\ m.scan = scan' /\ m.entryHave = entryHave' /\ m.page = page
  BY <1>1 DEF Current, Resulting, SameSection
<1>3. /\ DOMAIN m.facts = DOMAIN NoFacts /\ m.facts.entries \in Nat /\ m.facts.acc \in Nat
      /\ MapDone(m)
  <2>1. MapDone(w) /\ DOMAIN w.facts = DOMAIN NoFacts /\ w.facts.entries \in Nat /\ w.facts.acc \in Nat
        /\ w.facts = facts /\ m.facts = facts'
    BY <1>1 DEF LookupOk, Typed, Current, Resulting
  <2>2. CASE facts' = facts
    BY <2>1, <2>2 DEF MapDone
  <2>3. CASE \E a \in Nat : facts' = [facts EXCEPT !.acc = a]
    <3>1. PICK a \in Nat : m.facts = [w.facts EXCEPT !.acc = a]
      BY <2>1, <2>3
    <3>2. QED
      BY <2>1, <3>1 DEF MapDone, NoFacts
  <2>4. QED
    BY <2>2, <2>3
<1>4. Typed(m)
  BY <1>1, <1>2, <1>3 DEF Typed, SameSection
<1>5. SectionOk(m)
  <2>1. w.rec.kind \in {"Descriptor", "Name", "Reference"} /\ SectionOk(w)
    BY <1>1 DEF Typed, LookupOk
  <2>2. QED
    BY <1>2, <2>1, SameOk
<1>6. LookupOk(m)
  BY <1>1, <1>2, <1>3, <1>5 DEF LookupOk, ReferenceOk, ScanOk, SameSection
<1>7. Reached(m)
  BY <1>1, <1>2, <1>4, <1>6 DEF Reached, StageReached, SameSection
<1>8. QED
  BY <1>7 DEF m

\* The page found.
LEMMA FoundReached ==
  ASSUME WInv, stage = "Lookup", failure = "none", NEW e, e.size \in Nat, ~Outside(Located(e)),
         page' = Located(e), stage' = "Page", reader' = Started("Verify"), scan' = NoScan,
         entryHave' = 0, facts' = [facts EXCEPT !.acc = @ + e.size],
         UNCHANGED <<head, sec, rec, cur, described, sections, pages, pending, emitted>>
  PROVE  Reached(Now')
<1> DEFINE w == Now
           m == Now'
<1>1. Current(w) /\ Resulting(m) /\ Typed(w) /\ Reached(w) /\ LookupOk(w) /\ pending = NoPending
      /\ emitted = 0 /\ facts.acc \in Nat /\ Sized(page)
  BY LookupFacts
<1>2. m.reader = Kept(reader')
  BY DEF Now, Kept
<1> HIDE DEF w, m
<1>3. /\ SameSection(m, w) /\ m.emitted = 0 /\ m.pending = NoPending /\ m.pending = w.pending
      /\ m.sec = w.sec /\ m.head = w.head /\ m.stage = "Page" /\ w.stage = "Lookup"
      /\ m.scan = NoScan /\ m.entryHave = 0 /\ m.page = Located(e) /\ w.page = page
      /\ m.facts = [w.facts EXCEPT !.acc = facts.acc + e.size]
  BY <1>1 DEF Current, Resulting, SameSection
<1>4. m.reader = Started("Verify")
  BY <1>2, KeptStarted
<1>5. /\ DOMAIN m.facts = DOMAIN NoFacts /\ m.facts.entries \in Nat /\ m.facts.acc \in Nat
      /\ MapDone(m)
  <2>1. MapDone(w) /\ DOMAIN w.facts = DOMAIN NoFacts /\ w.facts.entries \in Nat
    BY <1>1 DEF LookupOk, Typed
  <2>2. facts.acc + e.size \in Nat
    BY <1>1
  <2>3. QED
    BY <1>3, <2>1, <2>2 DEF MapDone, NoFacts
<1>6. Typed(m)
  <2>1. NoScan \in ScanType
    BY DEF NoScan, ScanType
  <2>2. QED
    BY <1>1, <1>3, <1>5, <2>1 DEF Typed, SameSection
<1>7. SectionOk(m)
  <2>1. w.rec.kind \in {"Descriptor", "Name", "Reference"} /\ SectionOk(w)
    BY <1>1 DEF Typed, LookupOk
  <2>2. QED
    BY <1>3, <2>1, SameOk
<1>8. /\ Sized(m.page) /\ m.page.base >= PageBase
      /\ m.page.id = w.page.id /\ m.page.stored = w.page.stored /\ m.page.plain = w.page.plain
      /\ m.page.dataOffset = w.page.dataOffset
  <2>1. Sized(Located(e))
    BY LocatedSized DEF WInv
  <2>2. page \in PageType /\ PageBase + facts.acc >= PageBase /\ PageBase + facts.acc \in Nat
    BY <1>1, MapsAssumption DEF Sized
  <2>3. /\ Located(e).base = PageBase + facts.acc
        /\ Located(e).id = page.id /\ Located(e).stored = page.stored /\ Located(e).plain = page.plain
        /\ Located(e).dataOffset = page.dataOffset
    BY <2>2 DEF Located, PageType
  <2>4. QED
    BY <1>3, <2>1, <2>2, <2>3
<1>9. ReferenceOk(m)
  BY <1>1, <1>3, <1>8 DEF ReferenceOk, LookupOk, SameSection
<1>10. ReaderOk(m.page, m.reader) /\ m.reader.produced = 0
  BY <1>4, <1>8, StartedOk
<1>11. PageReached(m)
  <2>1. m.pending.kind = "None"
    BY <1>3 DEF NoPending, Waiting
  <2>2. m.rec = [kind |-> "Reference", have |-> 0] /\ m.sec.pass = "Emit"
    BY <1>1, <1>3 DEF LookupOk, SameSection
  <2>3. ~Outside(m.page)
    BY <1>3
  <2>4. QED
    BY <1>3, <1>5, <1>7, <1>8, <1>9, <1>10, <2>1, <2>2, <2>3 DEF PageReached, HoleOk
<1>12. Reached(m)
  BY <1>1, <1>3, <1>6, <1>11 DEF Reached, StageReached, SameSection
<1>13. QED
  BY <1>12 DEF m

LEMMA LookupEntryReached ==
  ASSUME WInv, stage = "Lookup", PumpEntry
  PROVE  failure' = "none" => Reached(Now')
<1> SUFFICES ASSUME failure' = "none" PROVE Reached(Now')
  OBVIOUS
<1> DEFINE ns == SomeOf(scan, entryHave, file.entries, EntryBytes, file.tail)
           e  == file.entries[scan.whole + 1]
<1>1. /\ failure = "none"
      /\ UNCHANGED <<head, sec, rec, cur, described, sections, pages, pending, emitted>>
  BY DEF PumpEntry, counters
<1>2. PICK n \in ns :
        \/ /\ entryHave + n < EntryBytes
           /\ scan' = Advanced(scan, n, EntryBytes) /\ entryHave' = entryHave + n
           /\ UNCHANGED <<stage, facts, page, reader>>
        \/ /\ entryHave + n = EntryBytes
           /\ entryHave' = 0
           /\ OnLookup(e)
           /\ scan' = IF Named(e) THEN NoScan ELSE Advanced(scan, n, EntryBytes)
  BY DEF PumpEntry
<1> DEFINE next == Advanced(scan, n, EntryBytes)
<1>3. /\ n \in Nat
      /\ entryHave + n = EntryBytes => scan.whole + 1 \in 1..Len(file.entries) /\ next.part = 0
      /\ entryHave + n < EntryBytes => next.part = entryHave + n
  BY EntryAdvances DEF WInv
<1>4. scan \in ScanType /\ scan.pass = "Scan" /\ facts.acc \in Nat
  BY <1>1, LookupFacts
<1>5. next \in ScanType /\ next.pass = "Scan"
  BY <1>3, <1>4, MapsAssumption, AdvancedType
<1> HIDE DEF next
<1>6. CASE /\ entryHave + n < EntryBytes
           /\ scan' = next /\ entryHave' = entryHave + n
           /\ UNCHANGED <<stage, facts, page, reader>>
  BY <1>1, <1>3, <1>5, <1>6, InLookupReached
<1>7. CASE /\ entryHave + n = EntryBytes
           /\ entryHave' = 0
           /\ OnLookup(e)
           /\ scan' = IF Named(e) THEN NoScan ELSE next
  <2>1. e.size \in Nat
    BY <1>3, <1>7, FileFacts DEF WInv, IInv
  <2>2. facts' = [facts EXCEPT !.acc = @ + e.size]
    BY <1>7 DEF OnLookup
  <2>3. CASE ~Named(e)
    <3>1. UNCHANGED <<stage, page, reader>>
      BY <1>7, <2>3 DEF OnLookup
    <3>2. \E a \in Nat : facts' = [facts EXCEPT !.acc = a]
      <4>1. facts.acc + e.size \in Nat
        BY <1>4, <2>1
      <4>2. QED
        BY <2>2, <4>1
    <3>3. QED
      BY <1>1, <1>3, <1>5, <1>7, <2>3, <3>1, <3>2, InLookupReached
  <2>4. CASE Named(e)
    <3>1. ~Outside(Located(e)) /\ page' = Located(e) /\ stage' = "Page" /\ reader' = Started("Verify")
      BY <1>1, <1>7, <2>4 DEF OnLookup
    <3>2. QED
      BY <1>1, <1>7, <2>1, <2>2, <2>4, <3>1, FoundReached
  <2>5. QED
    BY <2>3, <2>4
<1>8. QED
  BY <1>2, <1>6, <1>7 DEF next

----------------------------------------------------------------------------
(* The section map. *)

\* What is known of a walk between the pages, with no end to hand out.
LEMMA SectionsFacts ==
  ASSUME WInv, stage = "Sections", failure = "none", pending = NoPending
  PROVE  LET w == Now
         IN /\ Current(w) /\ Resulting(Now') /\ Reached(w) /\ Typed(w)
            /\ w.stage = "Sections" /\ w.pending = NoPending /\ w.head = <<>>
            /\ SectionsOk(w) /\ Counted(w)
            /\ w.sec.pass = "Verify" => BlankParser(w)
            /\ w.sec.pass # "Verify" => SectionOk(w)
            /\ w.described <= file.described /\ w.sections <= w.described
            /\ file.described \in Nat
<1> DEFINE w == Now
<1>1. Current(w) /\ Resulting(Now') /\ Reached(w)
  BY NowFacts DEF WInv
<1>2. file.described \in Nat
  BY FileFacts DEF WInv, IInv
<1> HIDE DEF w
<1>3. w.stage = "Sections" /\ w.pending = NoPending
  BY <1>1 DEF Current
<1>4. SectionsOk(w) /\ Counted(w) /\ Typed(w) /\ w.head = <<>>
      /\ w.described <= file.described /\ w.sections <= w.described
  BY <1>1, <1>3 DEF Reached, StageReached
<1>5. QED
  BY <1>1, <1>2, <1>3, <1>4 DEF w, SectionsOk

\* A step that stays there, from what it makes of the section.
LEMMA InSectionsReached ==
  ASSUME WInv, stage = "Sections", failure = "none", pending = NoPending, stage' = "Sections",
         UNCHANGED <<head, facts, scan, entryHave, page, reader, emitted>>,
         sec' \in ScanType, sec'.pass = "Emit",
         SectionOk(Now'), Counted(Now'), pending'.kind # "Hole",
         described' \in Nat, sections' \in Nat, cur' \in SectionType,
         rec' \in [kind : {"Descriptor", "Name", "Reference"}, have : Nat],
         described' <= file.described, sections' <= described'
  PROVE  Reached(Now')
<1> DEFINE w == Now
           m == Now'
<1>1. Current(w) /\ Resulting(m) /\ Typed(w) /\ SectionsOk(w) /\ w.head = <<>>
  BY SectionsFacts
<1>2. SectionOk(m) /\ Counted(m)
  OBVIOUS
<1> HIDE DEF w, m
<1>3. /\ m.stage = "Sections" /\ m.head = <<>> /\ m.facts = w.facts /\ m.scan = w.scan
      /\ m.entryHave = w.entryHave /\ SamePage(m, w) /\ m.sec = sec' /\ m.described = described'
      /\ m.sections = sections' /\ m.cur = cur' /\ m.rec = rec' /\ m.pending = pending'
  BY <1>1 DEF Current, Resulting, SamePage
<1>4. Typed(m)
  BY <1>1, <1>3 DEF Typed, SamePage
<1>5. SectionsOk(m)
  BY <1>1, <1>2, <1>3 DEF SectionsOk, BlankPage, MapDone, SamePage
<1>6. Reached(m)
  BY <1>2, <1>3, <1>4, <1>5 DEF Reached, StageReached
<1>7. QED
  BY <1>6 DEF m

LEMMA SectionsVerifyReached ==
  ASSUME WInv, SectionsVerify
  PROVE  failure' = "none" => Reached(Now')
<1> SUFFICES ASSUME failure' = "none" PROVE Reached(Now')
  OBVIOUS
<1> DEFINE w == Now
           m == Now'
<1>1. /\ stage = "Sections" /\ failure = "none" /\ pending = NoPending /\ sec.pass = "Verify"
      /\ sec' = [sec EXCEPT !.pass = "Emit"]
      /\ UNCHANGED <<stage, head, facts, scan, entryHave, rec, cur, page, described, sections, pages,
                     reader, pending, emitted>>
  BY DEF SectionsVerify, counters
<1>2. /\ Current(w) /\ Resulting(m) /\ Typed(w)
      /\ w.sec.pass = "Verify" => BlankParser(w)
      /\ w.described <= file.described /\ w.sections <= w.described
  BY <1>1, SectionsFacts
<1> HIDE DEF w, m
<1>3. BlankParser(w) /\ w.rec = rec /\ w.cur = cur /\ w.described = described /\ w.sections = sections
      /\ w.sec = sec
  BY <1>1, <1>2 DEF Current
<1>4. rec = NoRecord /\ cur = NoSection /\ described = 0 /\ sections = 0
  BY <1>3 DEF BlankParser
<1>5. m.rec = NoRecord /\ m.cur = NoSection /\ m.pending = NoPending
  BY <1>1, <1>2, <1>4 DEF Resulting
<1>6. SectionOk(m) /\ Counted(m)
  <2>1. m.rec.kind = "Descriptor" /\ m.rec.have = 0 /\ m.pending.kind = "None"
    BY <1>5 DEF NoRecord, NoPending, Waiting
  <2>2. BetweenSections(m)
    BY <1>5, <2>1, MapsAssumption DEF BetweenSections
  <2>3. QED
    BY <2>1, <2>2 DEF SectionOk, Counted
<1>7. sec' \in ScanType /\ sec'.pass = "Emit"
  <2>1. sec \in ScanType
    BY <1>2, <1>3 DEF Typed
  <2>2. QED
    BY <1>1, <2>1 DEF ScanType
<1>8. /\ cur \in SectionType /\ rec \in [kind : {"Descriptor", "Name", "Reference"}, have : Nat]
      /\ pending.kind # "Hole" /\ described \in Nat /\ sections \in Nat
      /\ described <= file.described /\ sections <= described
  <2>1. pending.kind = "None"
    BY <1>1 DEF NoPending, Waiting
  <2>2. QED
    BY <1>2, <1>3, <2>1 DEF Typed
<1>9. SectionOk(Now') /\ Counted(Now')
  BY <1>6 DEF m
<1>10. QED
  BY <1>1, <1>7, <1>8, <1>9, InSectionsReached

\* The walk over.
LEMMA FinishWalkReached ==
  ASSUME WInv, FinishWalk
  PROVE  failure' = "none" => Reached(Now')
<1> SUFFICES ASSUME failure' = "none" PROVE Reached(Now')
  OBVIOUS
<1> DEFINE w == Now
           m == Now'
<1>1. /\ stage = "Sections" /\ failure = "none" /\ pending = NoPending /\ WalkFault = "none"
      /\ sec' = NoScan /\ cur' = NoSection /\ stage' = "Done"
      /\ UNCHANGED <<head, facts, scan, entryHave, rec, page, described, sections, pages,
                     reader, pending, emitted>>
  BY DEF FinishWalk, counters
<1>2. /\ Current(w) /\ Resulting(m) /\ Typed(w) /\ SectionsOk(w) /\ w.head = <<>>
      /\ w.described <= file.described /\ w.sections <= w.described
  BY <1>1, SectionsFacts
<1>3. rec = NoRecord /\ described = file.described
  BY <1>1 DEF WalkFault
<1> HIDE DEF w, m
<1>4. /\ m.stage = "Done" /\ m.head = w.head /\ m.facts = w.facts /\ m.scan = w.scan
      /\ m.entryHave = w.entryHave /\ SamePage(m, w) /\ m.sec = NoScan
      /\ m.cur = NoSection /\ m.rec = NoRecord /\ m.rec = w.rec /\ m.pending = NoPending
      /\ m.described = w.described /\ m.sections = w.sections /\ m.described = file.described
  BY <1>1, <1>2, <1>3 DEF Current, Resulting, SamePage
<1>5. Typed(m)
  <2>1. NoScan \in ScanType /\ NoSection \in SectionType
    BY DEF NoScan, ScanType, NoSection, SectionType
  <2>2. QED
    BY <1>2, <1>4, <2>1 DEF Typed, SamePage
<1>6. DoneOk(m)
  BY <1>2, <1>4 DEF DoneOk, SectionsOk, BlankPage, MapDone, SamePage
<1>7. Reached(m)
  BY <1>2, <1>4, <1>5, <1>6 DEF Reached, StageReached
<1>8. QED
  BY <1>7 DEF m

\* What a step at a record knows.
AtRecord ==
  /\ stage = "Sections" /\ failure = "none" /\ pending = NoPending /\ sec.pass = "Emit"
  /\ sec' \in ScanType /\ sec'.pass = "Emit"
  /\ UNCHANGED <<head, entryHave, pages, reader, emitted>>

\* The section at a record.
RecordFacts ==
  /\ described \in Nat /\ sections \in Nat /\ file.described \in Nat
  /\ described <= file.described /\ sections <= described
  /\ cur \in SectionType
  /\ rec \in [kind : {"Descriptor", "Name", "Reference"}, have : Nat]
  /\ rec.kind = "Descriptor" => cur = NoSection
  /\ rec.kind = "Name" => /\ cur.name > 0 /\ cur.trimmed = 0 /\ cur.done = 0 /\ cur.end = 0
                          /\ cur.index = sections /\ sections < described
  /\ rec.kind = "Reference" => /\ cur.name > 0 /\ cur.trimmed > 0 /\ cur.index + 1 = sections
                               /\ cur.done < cur.pages

LEMMA AtRecordFacts ==
  ASSUME WInv, stage = "Sections", failure = "none", pending = NoPending, sec.pass = "Emit"
  PROVE  RecordFacts /\ sec \in ScanType
<1> DEFINE w == Now
<1>1. /\ Current(w) /\ Typed(w) /\ Counted(w) /\ (w.sec.pass # "Verify" => SectionOk(w))
      /\ w.described <= file.described /\ w.sections <= w.described /\ file.described \in Nat
  BY SectionsFacts
<1> HIDE DEF w
<1>2. /\ w.cur = cur /\ w.rec = rec /\ w.described = described /\ w.sections = sections /\ w.sec = sec
      /\ w.pending = NoPending /\ w.pending.kind = "None"
  BY <1>1 DEF Current, NoPending, Waiting
<1>3. SectionOk(w)
  BY <1>1, <1>2
<1>4. /\ cur \in SectionType /\ rec \in [kind : {"Descriptor", "Name", "Reference"}, have : Nat]
      /\ described \in Nat /\ sections \in Nat /\ sec \in ScanType
  BY <1>1, <1>2 DEF Typed
<1>5. rec.kind = "Descriptor" => cur = NoSection
  BY <1>2, <1>3 DEF SectionOk, BetweenSections
<1>6. rec.kind = "Name" => /\ cur.name > 0 /\ cur.trimmed = 0 /\ cur.done = 0 /\ cur.end = 0
                           /\ cur.index = sections /\ sections < described
  BY <1>1, <1>2, <1>3 DEF SectionOk, InName, Counted
<1>7. rec.kind = "Reference" => /\ cur.name > 0 /\ cur.trimmed > 0 /\ cur.index + 1 = sections
                                /\ cur.done < cur.pages
  BY <1>2, <1>3 DEF SectionOk, InReferences
<1>8. QED
  BY <1>1, <1>2, <1>4, <1>5, <1>6, <1>7 DEF RecordFacts

\* The section a step at a record leaves.
LEMMA RecordReached ==
  ASSUME WInv, AtRecord, UNCHANGED <<stage, facts, scan, page>>,
         described' \in Nat, sections' \in Nat, cur' \in SectionType,
         rec' \in [kind : {"Descriptor", "Name", "Reference"}, have : Nat],
         described' <= file.described, sections' <= described',
         rec'.kind = "Descriptor" =>
           \/ pending' = NoPending /\ cur' = NoSection /\ rec'.have < DescriptorBytes
           \/ /\ cur'.name > 0 /\ cur'.trimmed > 0 /\ cur'.done = cur'.pages
              /\ pending' = SectionEndOf(cur') /\ rec'.have = 0 /\ cur'.index + 1 = sections',
         rec'.kind = "Name" =>
           /\ cur'.name > 0 /\ cur'.trimmed = 0 /\ cur'.done = 0 /\ cur'.end = 0
           /\ cur'.index = sections' /\ sections' < described'
           /\ rec'.have < cur'.name /\ pending' = NoPending,
         rec'.kind = "Reference" =>
           /\ cur'.name > 0 /\ cur'.trimmed > 0 /\ cur'.index + 1 = sections'
           /\ cur'.done < cur'.pages
           /\ rec'.have < ReferenceBytes /\ pending' = NoPending
  PROVE  Reached(Now')
<1> DEFINE m == Now'
<1>1. Resulting(m)
  BY NowFacts
<1> HIDE DEF m
<1>2. /\ m.rec = rec' /\ m.cur = cur' /\ m.described = described' /\ m.sections = sections'
      /\ m.pending = pending'
  BY <1>1 DEF Resulting
<1>3. NoPending.kind = "None" /\ SectionEndOf(m.cur).kind = "SectionEnd"
  BY DEF NoPending, SectionEndOf, Waiting
<1>4. rec'.kind \in {"Descriptor", "Name", "Reference"}
  OBVIOUS
<1>5. (SectionOk(m) /\ Counted(m) /\ m.pending.kind # "Hole") => Reached(Now')
  <2>1. SUFFICES ASSUME SectionOk(m), Counted(m), m.pending.kind # "Hole" PROVE Reached(Now')
    OBVIOUS
  <2>2. SectionOk(Now') /\ Counted(Now')
    BY <2>1 DEF m
  <2>3. pending'.kind # "Hole"
    BY <1>2, <2>1
  <2>4. QED
    BY <2>2, <2>3, InSectionsReached DEF AtRecord
<1>6. CASE rec'.kind = "Descriptor"
  <2>1. BetweenSections(m)
    BY <1>2, <1>3, <1>6 DEF BetweenSections
  <2>2. m.pending.kind # "Hole"
    BY <1>2, <1>3, <1>6
  <2>3. QED
    BY <1>2, <1>5, <1>6, <2>1, <2>2 DEF SectionOk, Counted
<1>7. CASE rec'.kind = "Name"
  <2>1. InName(m)
    BY <1>2, <1>7 DEF InName
  <2>2. m.pending.kind # "Hole"
    BY <1>2, <1>3, <1>7
  <2>3. QED
    BY <1>2, <1>5, <1>7, <2>1, <2>2 DEF SectionOk, Counted
<1>8. CASE rec'.kind = "Reference"
  <2>1. InReferences(m)
    BY <1>2, <1>3, <1>8 DEF InReferences
  <2>2. m.pending.kind # "Hole"
    BY <1>2, <1>3, <1>8
  <2>3. QED
    BY <1>2, <1>5, <1>8, <2>1, <2>2 DEF SectionOk, Counted
<1>9. QED
  BY <1>4, <1>6, <1>7, <1>8

LEMMA DescriptorReached ==
  ASSUME WInv, AtRecord, RecordFacts, NEW d, d.name \in Nat, d.size \in Nat, d.pages \in Nat,
         rec.kind = "Descriptor", OnDescriptor(d), failure' = "none"
  PROVE  Reached(Now')
<1>1. DescriptorFault(d) = "none" /\ described # file.described
  <2>1. DescriptorFault(d) = "none"
    BY DEF OnDescriptor, RefuseRecord
  <2>2. described = file.described => DescriptorFault(d) = "SectionEntry"
    BY DEF DescriptorFault
  <2>3. QED
    BY <2>1, <2>2
<1>2. /\ described' = described + 1 /\ UNCHANGED <<stage, scan, facts, page, sections, pending>>
      /\ IF d.name = 0 THEN Expect("Descriptor") /\ UNCHANGED cur
         ELSE /\ cur' = [NoSection EXCEPT !.index = sections, !.name = d.name, !.size = d.size,
                                          !.pages = d.pages]
              /\ Expect("Name")
  BY <1>1 DEF OnDescriptor
<1>3. /\ described' \in Nat /\ sections' \in Nat /\ sections' < described' /\ sections' <= described'
      /\ described' <= file.described
      /\ pending' = NoPending
  BY <1>1, <1>2 DEF RecordFacts, AtRecord
<1>4. CASE d.name = 0
  <2>1. rec' = [kind |-> "Descriptor", have |-> 0] /\ cur' = NoSection /\ cur' \in SectionType
    BY <1>2, <1>4 DEF Expect, RecordFacts
  <2>2. /\ rec'.kind = "Descriptor" /\ rec'.have < DescriptorBytes
        /\ rec' \in [kind : {"Descriptor", "Name", "Reference"}, have : Nat]
    BY <2>1, MapsAssumption
  <2>3. QED
    BY <1>2, <1>3, <2>1, <2>2, RecordReached
<1>5. CASE d.name # 0
  <2>1. rec' = [kind |-> "Name", have |-> 0]
        /\ cur' = [NoSection EXCEPT !.index = sections, !.name = d.name, !.size = d.size,
                                    !.pages = d.pages]
    BY <1>2, <1>5 DEF Expect
  <2>2. /\ cur' \in SectionType /\ cur'.name = d.name /\ cur'.trimmed = 0 /\ cur'.done = 0
        /\ cur'.end = 0 /\ cur'.index = sections
    BY <2>1 DEF NoSection, SectionType, RecordFacts
  <2>3. /\ rec'.kind = "Name" /\ rec'.have = 0
        /\ rec' \in [kind : {"Descriptor", "Name", "Reference"}, have : Nat]
    BY <2>1
  <2>4. cur'.name > 0 /\ rec'.have < cur'.name /\ cur'.index = sections'
    BY <1>2, <1>5, <2>2, <2>3
  <2>5. QED
    BY <1>2, <1>3, <2>2, <2>3, <2>4, RecordReached
<1>6. QED
  BY <1>4, <1>5

LEMMA NameReached ==
  ASSUME WInv, AtRecord, RecordFacts, NEW d, d.trimmed \in Nat,
         rec.kind = "Name", OnName(d), failure' = "none"
  PROVE  Reached(Now')
<1>1. d.fault = "none" /\ ~(d.trimmed = 0 /\ cur.pages # 0)
  BY DEF OnName, RefuseRecord
<1>2. described' = described /\ UNCHANGED <<stage, scan, facts, page>>
  BY <1>1 DEF OnName
<1>3. /\ cur.name > 0 /\ cur.trimmed = 0 /\ cur.done = 0 /\ cur.end = 0
      /\ cur.index = sections /\ sections < described /\ cur \in SectionType
      /\ described \in Nat /\ sections \in Nat /\ described <= file.described
      /\ pending = NoPending
  BY DEF RecordFacts, AtRecord
<1>4. CASE d.trimmed = 0
  <2>1. cur' = NoSection /\ rec' = [kind |-> "Descriptor", have |-> 0] /\ UNCHANGED <<sections, pending>>
    BY <1>1, <1>4 DEF OnName, Expect
  <2>2. NoSection \in SectionType
    BY DEF NoSection, SectionType
  <2>3. /\ rec'.kind = "Descriptor" /\ rec'.have < DescriptorBytes
        /\ rec' \in [kind : {"Descriptor", "Name", "Reference"}, have : Nat]
    BY <2>1, MapsAssumption
  <2>4. sections' \in Nat /\ described' \in Nat /\ sections' <= described' /\ described' <= file.described
    BY <1>2, <1>3, <2>1
  <2>5. QED
    BY <1>2, <1>3, <2>1, <2>2, <2>3, <2>4, RecordReached
<1>5. CASE d.trimmed # 0
  <2>1. /\ cur' = [cur EXCEPT !.trimmed = d.trimmed]
        /\ sections' = sections + 1
        /\ pending' = IF cur.pages = 0 THEN SectionEndOf(cur) ELSE NoPending
        /\ rec' = [kind |-> IF cur.pages = 0 THEN "Descriptor" ELSE "Reference", have |-> 0]
    BY <1>1, <1>5 DEF OnName, Expect
  <2>2. /\ cur' \in SectionType /\ cur'.name = cur.name /\ cur'.trimmed = d.trimmed /\ cur'.done = 0
        /\ cur'.end = cur.end /\ cur'.index = cur.index /\ cur'.pages = cur.pages
        /\ cur'.size = cur.size /\ cur.pages \in Nat
    BY <1>3, <2>1 DEF SectionType
  <2>3. /\ rec'.have = 0 /\ rec'.kind = IF cur.pages = 0 THEN "Descriptor" ELSE "Reference"
        /\ rec' \in [kind : {"Descriptor", "Name", "Reference"}, have : Nat]
    BY <2>1
  <2>4. /\ sections' \in Nat /\ described' \in Nat /\ sections' <= described'
        /\ described' <= file.described /\ cur'.index + 1 = sections'
        /\ cur'.name > 0 /\ cur'.trimmed > 0
    BY <1>2, <1>3, <1>5, <2>1, <2>2
  <2>5. CASE cur.pages = 0
    <3>1. rec'.kind = "Descriptor" /\ cur'.done = cur'.pages
      BY <2>2, <2>3, <2>5
    <3>2. pending' = SectionEndOf(cur')
      BY <2>1, <2>2, <2>5 DEF SectionEndOf
    <3>3. QED
      BY <1>2, <2>2, <2>3, <2>4, <3>1, <3>2, RecordReached
  <2>6. CASE cur.pages # 0
    <3>1. rec'.kind = "Reference" /\ cur'.done < cur'.pages /\ pending' = NoPending
          /\ rec'.have < ReferenceBytes
      BY <2>1, <2>2, <2>3, <2>6, MapsAssumption
    <3>2. QED
      BY <1>2, <2>2, <2>3, <2>4, <3>1, RecordReached
  <2>7. QED
    BY <2>5, <2>6
<1>6. QED
  BY <1>4, <1>5

\* A page to look up.
LEMMA ReferenceReached ==
  ASSUME WInv, AtRecord, RecordFacts, NEW d, Sized(d.page), d.page.base = 0, d.page.entrySize = 0,
         rec.kind = "Reference", OnReference(d), failure' = "none"
  PROVE  Reached(Now')
<1> DEFINE w == Now
           m == Now'
<1>1. ~Misplaced(d.page)
  BY DEF OnReference, RefuseRecord
<1>2. /\ page' = d.page /\ stage' = "Lookup"
      /\ scan' = [NoScan EXCEPT !.pass = "Scan"]
      /\ facts' = [facts EXCEPT !.acc = 0]
      /\ rec' = [kind |-> "Reference", have |-> 0]
      /\ UNCHANGED <<described, cur, sections, pending>>
  BY <1>1 DEF OnReference, Expect
<1>3. /\ Current(w) /\ Resulting(m) /\ Typed(w) /\ SectionsOk(w) /\ w.head = <<>>
      /\ w.described <= file.described /\ w.sections <= w.described
  BY SectionsFacts DEF AtRecord
<1> HIDE DEF w, m
<1>4. /\ m.page = d.page /\ m.stage = "Lookup" /\ m.head = <<>>
      /\ m.scan = [NoScan EXCEPT !.pass = "Scan"] /\ m.facts = [w.facts EXCEPT !.acc = 0]
      /\ m.rec = [kind |-> "Reference", have |-> 0]
      /\ m.described = w.described /\ m.cur = w.cur /\ m.sections = w.sections
      /\ m.pending = NoPending /\ m.entryHave = w.entryHave /\ m.emitted = w.emitted
      /\ m.sec \in ScanType /\ m.sec.pass = "Emit"
      /\ m.cur = cur /\ m.sections = sections
  BY <1>2, <1>3 DEF Current, Resulting, AtRecord
<1>5. w.entryHave = 0 /\ w.emitted = 0 /\ MapDone(w)
  BY <1>3 DEF SectionsOk, BlankPage
<1>6. /\ m.scan \in ScanType /\ m.scan.pass = "Scan" /\ m.scan.part = 0
  BY <1>4 DEF NoScan, ScanType
<1>7. DOMAIN m.facts = DOMAIN NoFacts /\ m.facts.entries \in Nat /\ m.facts.acc \in Nat /\ MapDone(m)
  <2>1. DOMAIN w.facts = DOMAIN NoFacts /\ w.facts.entries \in Nat
    BY <1>3 DEF Typed
  <2>2. QED
    BY <1>4, <1>5, <2>1 DEF MapDone, NoFacts
<1>8. Typed(m)
  BY <1>3, <1>4, <1>6, <1>7 DEF Typed
<1>9. SectionOk(m)
  <2>1. m.rec.kind = "Reference" /\ m.rec.have < ReferenceBytes /\ m.pending.kind = "None"
    BY <1>4, MapsAssumption DEF NoPending, Waiting
  <2>2. InReferences(m)
    BY <1>4, <2>1 DEF InReferences, RecordFacts
  <2>3. QED
    BY <2>1, <2>2 DEF SectionOk
<1>10. ReferenceOk(m)
  <2>1. d.page.id # 0 /\ ~(d.page.stored > d.page.plain) /\ ~(d.page.dataOffset < cur.end)
    BY <1>1 DEF Misplaced
  <2>2. d.page.stored \in Nat /\ d.page.plain \in Nat /\ d.page.dataOffset \in Nat /\ cur.end \in Nat
    BY SizedFacts DEF RecordFacts, SectionType
  <2>3. QED
    BY <1>4, <2>1, <2>2 DEF ReferenceOk
<1>11. LookupOk(m) /\ Sized(m.page)
  BY <1>4, <1>5, <1>6, <1>7, <1>9, <1>10 DEF LookupOk, ScanOk
<1>12. Reached(m)
  BY <1>3, <1>4, <1>8, <1>11 DEF Reached, StageReached
<1>13. QED
  BY <1>12 DEF m

\* Some bytes of a record, or the last.
LEMMA PumpRecordReached ==
  ASSUME WInv, PumpRecord
  PROVE  failure' = "none" => Reached(Now')
<1> SUFFICES ASSUME failure' = "none" PROVE Reached(Now')
  OBVIOUS
<1> DEFINE d  == Records[sec.whole + 1]
           ns == SomeOf(sec, rec.have, Records, RecordSize, file.rest)
<1>1. /\ stage = "Sections" /\ failure = "none" /\ pending = NoPending /\ sec.pass = "Emit"
      /\ UNCHANGED <<head, entryHave, pages, reader, emitted>>
  BY DEF PumpRecord
<1>2. PICK n \in ns :
        /\ sec' = Advanced(sec, n, RecordSize)
        /\ \/ /\ rec.have + n < RecordSize
              /\ rec' = [rec EXCEPT !.have = @ + n]
              /\ UNCHANGED <<stage, scan, facts, cur, page, described, sections, pending>>
           \/ /\ sec.whole < Len(Records) /\ rec.kind = d.kind
              /\ \/ d.kind = "Descriptor" /\ OnDescriptor(d)
                 \/ d.kind = "Name" /\ OnName(d)
                 \/ d.kind = "Reference" /\ OnReference(d)
  BY DEF PumpRecord
<1>3. RecordFacts /\ sec \in ScanType
  BY <1>1, AtRecordFacts
<1>4. file \in Files
  BY DEF WInv, IInv
<1>5. /\ RecordSize \in Nat
      /\ rec.kind = "Descriptor" => RecordSize = DescriptorBytes
      /\ rec.kind = "Name" => RecordSize = cur.name
      /\ rec.kind = "Reference" => RecordSize = ReferenceBytes
  BY <1>3, MapsAssumption DEF RecordFacts, SectionType, RecordSize
<1>6. n \in Nat
  BY DEF SomeOf
<1>7. AtRecord
  <2>1. Advanced(sec, n, RecordSize) \in ScanType /\ Advanced(sec, n, RecordSize).pass = "Emit"
    BY <1>1, <1>3, <1>5, <1>6, AdvancedType
  <2>2. QED
    BY <1>1, <1>2, <2>1 DEF AtRecord
<1>8. CASE /\ rec.have + n < RecordSize
           /\ rec' = [rec EXCEPT !.have = @ + n]
           /\ UNCHANGED <<stage, scan, facts, cur, page, described, sections, pending>>
  <2> DEFINE have == rec.have + n
  <2>1. have \in Nat /\ have < RecordSize
    BY <1>3, <1>6, <1>8 DEF RecordFacts
  <2>2. rec' = [rec EXCEPT !.have = have]
    BY <1>8
  <2> HIDE DEF have
  <2>3. /\ rec' \in [kind : {"Descriptor", "Name", "Reference"}, have : Nat]
        /\ rec'.kind = rec.kind /\ rec'.have = have
    BY <1>3, <2>1, <2>2 DEF RecordFacts
  <2>4. pending' = NoPending
    BY <1>1, <1>8
  <2>5. QED
    BY <1>3, <1>5, <1>7, <1>8, <2>1, <2>3, <2>4, RecordReached DEF RecordFacts
<1>9. CASE /\ sec.whole < Len(Records) /\ rec.kind = d.kind
           /\ \/ d.kind = "Descriptor" /\ OnDescriptor(d)
              \/ d.kind = "Name" /\ OnName(d)
              \/ d.kind = "Reference" /\ OnReference(d)
  <2>1. RecordOk(d)
    <3>1. sec.whole \in Nat /\ Len(file.records) \in Nat
      BY <1>3, <1>4, FileFacts DEF ScanType
    <3>2. sec.whole + 1 \in 1..Len(file.records)
      BY <1>9, <3>1 DEF Records
    <3>3. QED
      BY <1>4, <3>2, FileFacts DEF Records
  <2> HIDE DEF d
  <2>2. CASE d.kind = "Descriptor" /\ OnDescriptor(d)
    BY <1>3, <1>7, <1>9, <2>1, <2>2, DescriptorReached DEF RecordOk
  <2>3. CASE d.kind = "Name" /\ OnName(d)
    BY <1>3, <1>7, <1>9, <2>1, <2>3, NameReached DEF RecordOk
  <2>4. CASE d.kind = "Reference" /\ OnReference(d)
    BY <1>3, <1>7, <1>9, <2>1, <2>4, ReferenceReached DEF RecordOk
  <2>5. QED
    BY <1>9, <2>2, <2>3, <2>4
<1>10. QED
  BY <1>2, <1>8, <1>9

----------------------------------------------------------------------------
(* The invariant of the walk's own state. *)

LEMMA StartReached == Init => WInv
<1> SUFFICES ASSUME Init PROVE WInv
  OBVIOUS
<1> DEFINE w == Now
<1>1. IInv
  BY InitHolds
<1>2. Current(w) /\ w = kept
  BY NowFacts DEF Init
<1> HIDE DEF w
<1>3. w.reader = Started("Verify")
  BY <1>2, KeptStarted DEF Current, Init
<1>4. /\ w.stage = "Head" /\ w.head = <<>> /\ w.facts = NoFacts /\ w.scan = NoScan /\ w.sec = NoScan
      /\ w.entryHave = 0 /\ w.rec = NoRecord /\ w.cur = NoSection /\ w.page = NoPage
      /\ w.described = 0 /\ w.sections = 0 /\ w.pages = 0 /\ w.pending = NoPending /\ w.emitted = 0
  BY <1>2 DEF Current, Init
<1>5. HeadOk(w)
  BY <1>3, <1>4, MapsAssumption DEF HeadOk, BlankParser, BlankPage
<1>6. Typed(w)
  BY <1>4 DEF Typed, NoFacts, NoScan, NoRecord, NoSection, SectionType, ScanType
<1>7. Reached(w)
  BY <1>4, <1>5, <1>6 DEF Reached, StageReached
<1>8. QED
  BY <1>1, <1>2, <1>7 DEF WInv, w

\* A step that leaves the walk alone.
LEMMA StillReached ==
  ASSUME WInv, UNCHANGED walkVars
  PROVE  failure' = "none" => Reached(Now')
<1>1. Now' = Now /\ failure' = failure
  BY DEF Now, walkVars, mapVars
<1>2. QED
  BY <1>1 DEF WInv

LEMMA PollReached ==
  ASSUME WInv, Needs, NEW scratch \in Scratches, NEW outcomes \in SUBSET Outcomes(scratch),
         Poll(outcomes), IInv'
  PROVE  failure' = "none" => Reached(Now')
<1>1. PICK o \in outcomes : source' = o.source /\ Answered(o.answer)
  BY DEF Poll
<1>2. IInv
  BY DEF WInv
<1>3. CASE o.answer.kind = "Ready" /\ stage = "Head"
  <2>1. Right(o.answer, Len(head), 1, HeadBytes - Len(head))
    BY <1>2, <1>3, HeadWants, PollAnswers
  <2>2. FeedHead(o.answer.bytes) /\ failure = "none"
    BY <1>1, <1>3 DEF Answered, Needs, InPage
  <2>3. HeadPlaced(stage', head')
    BY DEF IInv
  <2>4. QED
    BY <1>3, <2>2, <2>3, FeedHeadReached
<1>4. CASE o.answer.kind = "Ready" /\ stage # "Head"
  <2>1. InPage /\ Status(page, reader) = "Need"
    BY <1>4 DEF Needs
  <2>2. Right(o.answer, Wanted.offset, Wanted.stride, FillTotal(page, reader) - reader.have)
    BY <1>2, <2>1, PageWants, PollAnswers
  <2>3. Len(o.answer.bytes) \in 1..(FillTotal(page, reader) - reader.have)
    BY <1>4, <2>2 DEF Right
  <2>4. FeedPage(o.answer.bytes)
    BY <1>1, <1>4 DEF Answered
  <2>5. QED
    BY <2>1, <2>3, <2>4, FeedPageReached
<1>5. CASE o.answer.kind # "Ready"
  <2>1. UNCHANGED walkVars
    BY <1>1, <1>5 DEF Answered
  <2>2. QED
    BY <2>1, StillReached
<1>6. QED
  BY <1>3, <1>4, <1>5

LEMMA PumpReached ==
  ASSUME WInv, Pump
  PROVE  failure' = "none" => Reached(Now')
<1>1. CASE PumpEntry
  <2>1. stage \in {"Map", "Lookup"}
    BY <1>1 DEF PumpEntry
  <2>2. QED
    BY <1>1, <2>1, MapEntryReached, LookupEntryReached
<1>2. CASE Missing
  BY <1>2 DEF Missing
<1>3. CASE MapVerify \/ FinishMap
  BY <1>3, MapVerifyReached, FinishMapReached
<1>4. CASE SectionsVerify \/ PumpRecord
  BY <1>4, SectionsVerifyReached, PumpRecordReached
<1>5. CASE PumpSectionEnd \/ FinishWalk
  BY <1>5, SectionEndReached, FinishWalkReached
<1>6. CASE PumpVerify \/ PumpVerdict \/ PumpHole
  BY <1>6, VerifyReached, VerdictReached, HoleReached
<1>7. CASE PumpData \/ PumpDone
  BY <1>7, DataReached, DoneReached
<1>8. QED
  BY <1>1, <1>2, <1>3, <1>4, <1>5, <1>6, <1>7 DEF Pump, MapPump

\* A checkpoint is taken of a walk that reached it, and restores one.
LEMMA SaveReached ==
  ASSUME WInv, Save, IInv'
  PROVE  WInv'
<1>1. kept' = Now /\ Now' = Now /\ file' = file /\ failure = "none"
  BY DEF Save, Now, walkVars, mapVars
<1>2. Reached(Now)
  BY <1>1 DEF WInv
<1>3. Reached(kept') /\ Reached(Now')
  BY <1>1, <1>2
<1>4. (Reached(kept)' <=> Reached(kept')) /\ (Reached(Now)' <=> Reached(Now'))
  BY <1>1, ReachedSame
<1>5. QED
  BY <1>3, <1>4 DEF WInv

LEMMA RestoreReached ==
  ASSUME WInv, Restore, IInv'
  PROVE  WInv'
<1>1. UNCHANGED <<file, kept>>
  BY DEF Restore
<1>2. Reached(kept) /\ Shaped(kept.reader)
  BY DEF WInv, IInv, PagePlaced
<1>3. Reached(Now')
  <2> DEFINE m == Now'
  <2>1. Resulting(m)
    BY NowFacts
  <2> HIDE DEF m
  <2>2. /\ m.stage = kept.stage /\ m.head = kept.head /\ m.page = kept.page /\ m.emitted = kept.emitted
        /\ m.pending = kept.pending /\ m.pages = kept.pages
        /\ SameMaps(m, kept) /\ SameSection(m, kept)
    BY <2>1 DEF Resulting, Restore, SameMaps, SameSection
  <2>3. m.reader = Kept(kept.reader)
    BY <2>1 DEF Resulting, Restore
  <2>4. Reached(m)
    BY <1>2, <2>2, <2>3, KeptReached
  <2>5. QED
    BY <2>4 DEF m
<1>4. QED
  BY <1>1, <1>3, StepKeeps

LEMMA WalkHolds == WInv /\ [Next]_vars => WInv'
<1> SUFFICES ASSUME WInv, [Next]_vars PROVE WInv'
  OBVIOUS
<1>1. IInv'
  BY StepHolds DEF WInv
<1>2. CASE PollMoves
  <2>1. PICK scratch \in Scratches : Poll({o \in Outcomes(scratch) : Moved(source, o)})
    BY <1>2 DEF PollMoves
  <2>2. Needs /\ UNCHANGED <<file, kept>>
    BY <1>2, <2>1 DEF PollMoves, Poll
  <2>3. QED
    BY <1>1, <2>1, <2>2, PollReached, StepKeeps
<1>3. CASE PollStops
  <2>1. PICK scratch \in Scratches : Poll({o \in Outcomes(scratch) : ~Moved(source, o)})
    BY <1>3 DEF PollStops
  <2>2. Needs /\ UNCHANGED <<file, kept>>
    BY <1>3, <2>1 DEF PollStops, Poll
  <2>3. QED
    BY <1>1, <2>1, <2>2, PollReached, StepKeeps
<1>4. CASE Pump
  <2>1. UNCHANGED <<file, kept>>
    BY <1>4 DEF Pump, Caller
  <2>2. QED
    BY <1>1, <1>4, <2>1, PumpReached, StepKeeps
<1>5. CASE Save
  BY <1>1, <1>5, SaveReached
<1>6. CASE Restore
  BY <1>1, <1>6, RestoreReached
<1>7. CASE Rest \/ UNCHANGED vars
  <2>1. UNCHANGED <<file, kept>> /\ UNCHANGED walkVars
    BY <1>7 DEF Rest, vars
  <2>2. QED
    BY <1>1, <2>1, StillReached, StepKeeps
<1>8. QED
  BY <1>2, <1>3, <1>4, <1>5, <1>6, <1>7 DEF Next, Step

\* A walk that is reached is one `consistent` takes.
LEMMA ReachedConsistent ==
  ASSUME NEW w, Reached(w), w.stage = "Page" => Snug(w.page)
  PROVE  Consistent(w)
<1>1. CASE w.stage = "Page"
  <2>1. PageReached(w)
    BY <1>1 DEF Reached, StageReached
  <2>2. ReaderOk(w.page, w.reader) /\ InStep(w.page, w.reader)
    BY <1>1, <2>1 DEF PageReached, ReaderOk
  <2>3. ProgressOk(w.page, w.reader)
    BY <2>2 DEF ReaderOk, InStep, ProgressOk
  <2>4. PageOk(w)
    BY <2>1, <2>3 DEF PageReached, PageOk
  <2>5. QED
    BY <1>1, <2>4 DEF Consistent, Reached
<1>2. CASE w.stage # "Page"
  BY <1>2 DEF Reached, StageReached, Consistent
<1>3. QED
  BY <1>1, <1>2

\* Restorable holds of every walk: r2007_checkpoint.rs takes whatever the
\* walk stores, between any two steps, of any file whose pages' streams need
\* their last unit, a checkpoint of a walk restored before among them.
THEOREM RestorableHolds == Spec => []Restorable
<1>1. Init => WInv
  BY StartReached
<1>2. WInv /\ [Next]_vars => WInv'
  BY WalkHolds
<1>3. WInv => Restorable
  <2>1. SUFFICES ASSUME WInv, failure = "none", stage = "Page" => Snug(page)
                 PROVE  Consistent(Now)
    BY DEF Restorable
  <2>2. Reached(Now) /\ Now.stage = stage /\ Now.page = page
    BY <2>1 DEF WInv, Now
  <2>3. QED
    BY <2>1, <2>2, ReachedConsistent
<1>4. QED
  BY <1>1, <1>2, <1>3, PTL DEF Spec

=============================================================================
