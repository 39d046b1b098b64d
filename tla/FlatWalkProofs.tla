--------------------------- MODULE FlatWalkProofs ---------------------------
(***************************************************************************)
(* Proofs about FlatWalk for every file, every way of reading it and every *)
(* restart: types, the demand's bounds, and that a walk that has not       *)
(* failed can be saved and restored at any byte.                           *)
(***************************************************************************)
EXTENDS FlatWalk, SequenceTheorems, WellFoundedInduction, TLAPS

(* Induction over the naturals, for a set of them. *)

LEMMA Below ==
  ASSUME NEW i \in Nat, NEW j \in Nat, i < j
  PROVE  <<i, j>> \in OpToRel(<, Nat)
BY Zenon DEF OpToRel

LEMMA LeastMember ==
  ASSUME NEW T \in SUBSET Nat, T # {}
  PROVE  \E e \in T : \A f \in T : e <= f
<1> DEFINE R == OpToRel(<, Nat)
<1>1. IsWellFoundedOn(R, Nat)
  BY NatLessThanWellFounded
<1>2. \A i, j \in Nat : i < j => <<i, j>> \in R
  BY Below
<1> HIDE DEF R
<1>3. PICK e \in T : \A f \in T : ~(<<f, e>> \in R)
  BY <1>1, WFMin
<1>4. ASSUME NEW f \in T, ~(e <= f) PROVE FALSE
  <2>1. e \in Nat /\ f \in Nat /\ f < e
    BY <1>4
  <2>2. QED
    BY <1>2, <1>3, <2>1
<1>5. QED
  BY <1>4

LEMMA SetInduction ==
  ASSUME NEW T \in SUBSET Nat, 0 \in T, \A n \in T : n + 1 \in T
  PROVE  T = Nat
<1> SUFFICES ASSUME Nat \ T # {} PROVE FALSE
  OBVIOUS
<1>1. PICK e \in Nat \ T : \A f \in Nat \ T : e <= f
  BY LeastMember
<1>2. e - 1 \in Nat /\ e - 1 + 1 = e /\ ~(e <= e - 1)
  BY <1>1
<1>3. QED
  BY <1>1, <1>2

----------------------------------------------------------------------------
(* The file. *)

LocatorType == [number : Nat, offset : Nat, size : Nat]

\* The part of FilesAssumption that the header is parsed from.
LEMMA HeaderFile ==
  ASSUME file \in Files
  PROVE  /\ file.length \in Nat /\ file.count \in Nat /\ file.magic \in {"flat", "InvalidMagic", "UnsupportedLayout"}
         /\ file.locators \in Seq(LocatorType)
         /\ file.count \in 3..6 => file.count <= Len(file.locators)
BY FilesAssumption DEF LocatorType

----------------------------------------------------------------------------
(* The header's parser. *)

\* Where the field being read ends.
Target(p) ==
  CASE p.phase = "Magic"   -> 6
    [] p.phase = "Prefix"  -> 21
    [] p.phase = "Count"   -> 25
    [] p.phase = "Locator" -> 34 + 9 * p.index
    [] p.phase = "Crc"     -> 27 + 9 * p.count
    [] OTHER               -> HeaderEnd(p)

\* What the locators read so far have been checked for.
LocatorsOk(p) ==
  /\ p.seen = {file.locators[i].number : i \in 1..p.index}
  /\ \A i \in 1..p.index : file.locators[i].offset + file.locators[i].size <= file.length

\* The inductive invariant of the parser.
ParserOk(p) ==
  /\ p \in ParserType
  /\ p.target = Target(p)
  /\ IF p.phase = "Done" THEN p.filled = p.target ELSE p.filled < p.target
  /\ IF p.phase \in {"Magic", "Prefix", "Count"} THEN p.count = 0 /\ p.index = 0
     ELSE p.count = file.count /\ p.count \in 3..6
  /\ p.phase = "Locator" => p.index < p.count
  /\ p.phase \in {"Crc", "Sentinel", "Done"} => p.index = p.count /\ {0, 1, 2} \subseteq p.seen
  /\ LocatorsOk(p)

LEMMA NewParserOk == ParserOk(NewParser)
BY DEF ParserOk, NewParser, ParserType, Phases, Target, LocatorsOk

LEMMA FilledType ==
  ASSUME NEW p \in ParserType, NEW n \in Nat
  PROVE  /\ Filled(p, n) \in ParserType
         /\ Filled(p, n).filled = p.filled + n
         /\ Filled(p, n).phase = p.phase /\ Filled(p, n).target = p.target
         /\ Filled(p, n).count = p.count /\ Filled(p, n).index = p.index
         /\ Filled(p, n).seen = p.seen
BY DEF Filled, ParserType

LEMMA FilledOk ==
  ASSUME NEW p, ParserOk(p), NEW n \in Nat, p.filled + n < p.target
  PROVE  ParserOk(Filled(p, n))
<1>1. p \in ParserType
  BY DEF ParserOk
<1> DEFINE q == Filled(p, n)
<1>2. /\ q \in ParserType /\ q.filled = p.filled + n /\ q.phase = p.phase
      /\ q.target = p.target /\ q.count = p.count /\ q.index = p.index /\ q.seen = p.seen
  BY <1>1, FilledType
<1> HIDE DEF q
<1>3. Target(q) = Target(p)
  BY <1>2 DEF Target, HeaderEnd
<1>4. LocatorsOk(q)
  BY <1>2 DEF LocatorsOk, ParserOk
<1>5. p.phase # "Done"
  BY <1>1 DEF ParserOk, ParserType
<1>6. ParserOk(q)
  BY <1>2, <1>3, <1>4, <1>5 DEF ParserOk
<1>7. QED
  BY <1>6 DEF q

\* A locator that is not refused.
LEMMA LocatorStep ==
  ASSUME file \in Files, NEW p, ParserOk(p), p.phase = "Locator", LocatorError(p) = "none"
  PROVE  LET l == file.locators[p.index + 1]
         IN /\ l \in LocatorType /\ l.number \in 0..5
            /\ l.offset + l.size <= file.length
            /\ p.index + 1 = p.count => {0, 1, 2} \subseteq p.seen \cup {l.number}
<1>1. p.index + 1 \in 1..Len(file.locators)
  BY HeaderFile DEF ParserOk, ParserType
<1>2. file.locators[p.index + 1] \in LocatorType
  BY <1>1, HeaderFile, ElementOfSeq
<1> DEFINE l == file.locators[p.index + 1]
<1>3. /\ ~(l.number > 5) /\ ~(l.offset + l.size > file.length)
      /\ ~(p.index + 1 = p.count /\ ~({0, 1, 2} \subseteq p.seen \cup {l.number}))
  BY Zenon DEF LocatorError
<1>a. l \in LocatorType
  BY <1>2
<1> HIDE DEF l
<1>4. l.number \in Nat /\ l.offset + l.size \in Nat /\ file.length \in Nat
  BY <1>a, HeaderFile DEF LocatorType
<1>5. l.number \in 0..5 /\ l.offset + l.size <= file.length
  BY <1>3, <1>4
<1>6. QED
  BY <1>2, <1>3, <1>5 DEF l

LEMMA SeenStep ==
  ASSUME NEW p, p.index \in Nat, NEW q, q.index = p.index + 1, q.seen = Seen(p), LocatorsOk(p),
         file.locators[p.index + 1].offset + file.locators[p.index + 1].size <= file.length
  PROVE  LocatorsOk(q)
<1>1. 1..q.index = (1..p.index) \cup {p.index + 1}
  OBVIOUS
<1>2. QED
  BY <1>1 DEF LocatorsOk, Seen

\* A transition that reads no locator.
Stepped(p, phase, target, count) ==
  [p EXCEPT !.filled = p.target, !.phase = phase, !.target = target, !.count = count]

LEMMA PhaseStep ==
  ASSUME NEW p, ParserOk(p), NEW phase \in Phases, NEW target \in Nat, NEW count \in 0..6
  PROVE  LET q == Stepped(p, phase, target, count)
         IN /\ q \in ParserType /\ LocatorsOk(q)
            /\ q.filled = p.target /\ q.phase = phase /\ q.target = target /\ q.count = count
            /\ q.index = p.index /\ q.seen = p.seen
<1> DEFINE q == Stepped(p, phase, target, count)
<1>1. p \in ParserType /\ LocatorsOk(p)
  BY DEF ParserOk
<1>2. /\ q.filled = p.target /\ q.phase = phase /\ q.target = target /\ q.count = count
      /\ q.index = p.index /\ q.seen = p.seen
  BY <1>1 DEF ParserType, Stepped
<1>3. q \in ParserType
  BY <1>1 DEF ParserType, Stepped
<1> HIDE DEF q
<1>4. LocatorsOk(q)
  BY <1>1, <1>2 DEF LocatorsOk
<1>5. QED
  BY <1>2, <1>3, <1>4 DEF q

LEMMA TransitionOk ==
  ASSUME file \in Files, NEW p, ParserOk(p), p.phase # "Done",
         NEW w, w = [p EXCEPT !.filled = p.target], TransitionError(p) = "none"
  PROVE  ParserOk(Transition(w))
<1> DEFINE q == Transition(w)
<1>0. /\ p \in ParserType /\ p.phase \in Phases /\ p.target \in Nat /\ p.count \in 0..6
      /\ w.phase = p.phase /\ w.target = p.target /\ w.count = p.count /\ w.index = p.index
      /\ w.seen = p.seen
  BY DEF ParserOk, ParserType
<1>1. CASE p.phase = "Magic"
  <2>1. q = Stepped(p, "Prefix", 21, p.count)
    BY <1>0, <1>1 DEF Transition, ParserType, Stepped
  <2> HIDE DEF q
  <2>2. /\ q \in ParserType /\ LocatorsOk(q) /\ q.filled = p.target /\ q.phase = "Prefix"
        /\ q.target = 21 /\ q.count = p.count /\ q.index = p.index /\ q.seen = p.seen
    <3>1. "Prefix" \in Phases /\ 21 \in Nat /\ p.count \in 0..6
      BY <1>0 DEF Phases
    <3>2. QED
      BY <2>1, <3>1, PhaseStep
  <2>3. ParserOk(q)
    BY <1>0, <1>1, <2>2 DEF ParserOk, Target
  <2>4. QED
    BY <2>3 DEF q
<1>2. CASE p.phase = "Prefix"
  <2>1. q = Stepped(p, "Count", 25, p.count)
    BY <1>0, <1>2 DEF Transition, ParserType, Stepped
  <2> HIDE DEF q
  <2>2. /\ q \in ParserType /\ LocatorsOk(q) /\ q.filled = p.target /\ q.phase = "Count"
        /\ q.target = 25 /\ q.count = p.count /\ q.index = p.index /\ q.seen = p.seen
    <3>1. "Count" \in Phases /\ 25 \in Nat /\ p.count \in 0..6
      BY <1>0 DEF Phases
    <3>2. QED
      BY <2>1, <3>1, PhaseStep
  <2>3. ParserOk(q)
    BY <1>0, <1>2, <2>2 DEF ParserOk, Target
  <2>4. QED
    BY <2>3 DEF q
<1>3. CASE p.phase = "Count"
  <2>0. file.count \in 3..6
    BY <1>3 DEF TransitionError
  <2>1. q = Stepped(p, "Locator", p.target + 9, file.count)
    BY <1>0, <1>3 DEF Transition, ParserType, Stepped
  <2> HIDE DEF q
  <2>2. /\ q \in ParserType /\ LocatorsOk(q) /\ q.filled = p.target /\ q.phase = "Locator"
        /\ q.target = p.target + 9 /\ q.count = file.count /\ q.index = p.index
        /\ q.seen = p.seen
    <3>1. p.target + 9 \in Nat /\ "Locator" \in Phases /\ file.count \in 0..6
      BY <1>0, <2>0 DEF Phases
    <3>2. QED
      BY <2>1, <3>1, PhaseStep
  <2>3. ParserOk(q)
    BY <1>0, <1>3, <2>0, <2>2 DEF ParserOk, Target
  <2>4. QED
    BY <2>3 DEF q
<1>4. CASE p.phase = "Locator"
  <2> DEFINE l == file.locators[p.index + 1]
             last == p.index + 1 = p.count
             phase == IF last THEN "Crc" ELSE "Locator"
             target == p.target + (IF last THEN 2 ELSE 9)
  <2>1. LocatorError(p) = "none"
    BY <1>4 DEF TransitionError
  <2>2. /\ l.number \in 0..5 /\ l.offset + l.size <= file.length
        /\ last => {0, 1, 2} \subseteq p.seen \cup {l.number}
    BY <1>4, <2>1, LocatorStep
  <2>3. Seen(w) = p.seen \cup {l.number} /\ Seen(p) = p.seen \cup {l.number}
    BY <1>0 DEF Seen
  <2>4. /\ p.index < p.count /\ p.index + 1 \in 0..6 /\ p.seen \cup {l.number} \in SUBSET (0..5)
        /\ phase \in Phases /\ target \in Nat
    BY <1>0, <1>4, <2>2 DEF ParserOk, ParserType, Phases
  <2>5. q = [p EXCEPT !.filled = p.target, !.seen = p.seen \cup {l.number},
                      !.index = p.index + 1, !.phase = phase, !.target = target]
    <3>1. q = [w EXCEPT !.seen = Seen(w), !.index = @ + 1, !.phase = IF last THEN "Crc" ELSE @,
                        !.target = @ + (IF last THEN 2 ELSE 9)]
      BY <1>0, <1>4 DEF Transition
    <3>2. QED
      BY <1>0, <1>4, <2>3, <3>1 DEF ParserType
  <2> HIDE DEF q, l
  <2>6. /\ q.seen = p.seen \cup {l.number} /\ q.index = p.index + 1 /\ q.count = p.count
        /\ q.filled = p.target /\ q.phase = phase /\ q.target = target
    BY <1>0, <2>5 DEF ParserType
  <2>7. q \in ParserType
    BY <1>0, <2>4, <2>5 DEF ParserType
  <2>8. LocatorsOk(q)
    <3>1. q.seen = Seen(p) /\ LocatorsOk(p) /\ p.index \in Nat
      BY <1>0, <2>3, <2>6 DEF ParserOk, ParserType
    <3>2. QED
      BY <2>2, <2>6, <3>1, SeenStep DEF l
  <2>9. ParserOk(q)
    <3>1. CASE last
      BY <1>0, <1>4, <2>2, <2>4, <2>6, <2>7, <2>8, <3>1 DEF ParserOk, Target, ParserType
    <3>2. CASE ~last
      BY <1>0, <1>4, <2>4, <2>6, <2>7, <2>8, <3>2 DEF ParserOk, Target, ParserType
    <3>3. QED
      BY <3>1, <3>2
  <2>10. QED
    BY <2>9 DEF q
<1>5. CASE p.phase = "Crc"
  <2>1. q = Stepped(p, "Sentinel", p.target + 16, p.count)
    BY <1>0, <1>5 DEF Transition, ParserType, Stepped
  <2> HIDE DEF q
  <2>2. /\ q \in ParserType /\ LocatorsOk(q) /\ q.filled = p.target /\ q.phase = "Sentinel"
        /\ q.target = p.target + 16 /\ q.count = p.count /\ q.index = p.index
        /\ q.seen = p.seen
    <3>1. "Sentinel" \in Phases /\ p.target + 16 \in Nat /\ p.count \in 0..6
      BY <1>0 DEF Phases
    <3>2. QED
      BY <2>1, <3>1, PhaseStep
  <2>3. ParserOk(q)
    BY <1>0, <1>5, <2>2 DEF ParserOk, Target, HeaderEnd
  <2>4. QED
    BY <2>3 DEF q
<1>6. CASE p.phase = "Sentinel"
  <2>1. q = Stepped(p, "Done", p.target, p.count)
    BY <1>0, <1>6 DEF Transition, ParserType, Stepped
  <2> HIDE DEF q
  <2>2. /\ q \in ParserType /\ LocatorsOk(q) /\ q.filled = p.target /\ q.phase = "Done"
        /\ q.target = p.target /\ q.count = p.count /\ q.index = p.index
        /\ q.seen = p.seen
    <3>1. "Done" \in Phases /\ p.target \in Nat /\ p.count \in 0..6
      BY <1>0 DEF Phases
    <3>2. QED
      BY <2>1, <3>1, PhaseStep
  <2>3. ParserOk(q)
    BY <1>0, <1>6, <2>2 DEF ParserOk, Target, HeaderEnd
  <2>4. QED
    BY <2>3 DEF q
<1>7. QED
  BY <1>0, <1>1, <1>2, <1>3, <1>4, <1>5, <1>6 DEF Phases

LEMMA FedOk ==
  ASSUME file \in Files, NEW p, ParserOk(p), p.phase # "Done",
         NEW n \in 1..(p.target - p.filled)
  PROVE  /\ Fed(p, n) \in ParserType
         /\ FeedError(p, n) \in HeaderErrors
         /\ FeedError(p, n) = "none" => ParserOk(Fed(p, n))
<1>1. p \in ParserType /\ p.filled \in Nat /\ p.target \in Nat
  BY DEF ParserOk, ParserType
<1>2. CASE p.filled + n < p.target
  <2>1. Fed(p, n) = Filled(p, n) /\ FeedError(p, n) = "none"
    BY <1>1, <1>2 DEF Fed, FeedError
  <2>2. ParserOk(Filled(p, n))
    BY <1>1, <1>2, FilledOk
  <2>3. QED
    BY <2>1, <2>2 DEF ParserOk, HeaderErrors
<1>3. CASE p.filled + n = p.target
  <2>1. Filled(p, n) = [p EXCEPT !.filled = p.target]
    BY <1>3 DEF Filled
  <2>2. FeedError(p, n) = TransitionError(p)
    BY <1>3 DEF FeedError
  <2>3. TransitionError(p) \in HeaderErrors
    <3>1. p.phase \in Phases \ {"Done"} /\ file.magic \in HeaderErrors \cup {"flat"}
      BY <1>1, HeaderFile DEF ParserType, HeaderErrors
    <3>2. LocatorError(p) \in HeaderErrors
      BY DEF LocatorError, HeaderErrors
    <3>3. QED
      BY <3>1, <3>2 DEF TransitionError, Phases, HeaderErrors
  <2>4. CASE TransitionError(p) = "none"
    <3>1. Fed(p, n) = Transition(Filled(p, n))
      BY <1>3, <2>4 DEF Fed
    <3>2. ParserOk(Fed(p, n))
      BY <2>1, <2>4, <3>1, TransitionOk
    <3>3. QED
      BY <2>2, <2>3, <3>2 DEF ParserOk
  <2>5. CASE TransitionError(p) # "none"
    BY <1>1, <1>3, <2>2, <2>3, <2>5, FilledType DEF Fed
  <2>6. QED
    BY <2>4, <2>5
<1>4. QED
  BY <1>1, <1>2, <1>3

----------------------------------------------------------------------------
(* Replaying the bytes of a header, one by one, leads to the parser that   *)
(* took them in pieces.                                                    *)

After(f, m) == f = [n \in 0..m |-> IF n = 0 THEN NewParser ELSE Fed(f[n - 1], 1)]

LEMMA AfterExists ==
  ASSUME NEW m \in Nat
  PROVE  \E f : After(f, m)
<1> DEFINE T == {k \in Nat : \E f : After(f, k)}
<1>1. 0 \in T
  <2>1. After([n \in 0..0 |-> NewParser], 0)
    BY DEF After
  <2>2. QED
    BY <2>1
<1>2. ASSUME NEW k \in T PROVE k + 1 \in T
  <2>1. PICK f : After(f, k)
    BY <1>2
  <2> DEFINE g == [n \in 0..(k + 1) |-> IF n <= k THEN f[n] ELSE Fed(f[k], 1)]
  <2>2. After(g, k + 1)
    <3>1. SUFFICES ASSUME NEW n \in 0..(k + 1)
                   PROVE  g[n] = IF n = 0 THEN NewParser ELSE Fed(g[n - 1], 1)
      BY Zenon DEF After
    <3>2. CASE n = 0
      BY <1>2, <2>1, <3>2 DEF After
    <3>3. CASE n \in 1..k
      BY <1>2, <2>1, <3>3 DEF After
    <3>4. CASE n = k + 1
      BY <1>2, <2>1, <3>4 DEF After
    <3>5. QED
      BY <1>2, <3>2, <3>3, <3>4
  <2> HIDE DEF g
  <2>3. QED
    BY <1>2, <2>2
<1>3. T = Nat
  BY <1>1, <1>2, SetInduction, Zenon
<1>4. QED
  BY <1>3

LEMMA ReplayedAfter ==
  ASSUME NEW m \in Nat
  PROVE  \E f : After(f, m) /\ Replayed(m) = f[m]
<1> DEFINE g == CHOOSE f : After(f, m)
<1>1. After(g, m)
  BY AfterExists, Zenon
<1>2. Replayed(m) = g[m]
  BY Zenon DEF Replayed, After
<1>3. QED
  BY <1>1, <1>2

LEMMA AfterUnique ==
  ASSUME NEW m \in Nat, NEW f, After(f, m), NEW g, After(g, m + 1)
  PROVE  f[m] = g[m]
<1> DEFINE T == {k \in Nat : k <= m => f[k] = g[k]}
<1>1. f[0] = NewParser /\ g[0] = NewParser
  BY DEF After
<1>2. 0 \in T
  BY <1>1
<1>3. ASSUME NEW k \in T PROVE k + 1 \in T
  <2>1. CASE k + 1 <= m
    <3>1. f[k + 1] = Fed(f[k], 1) /\ g[k + 1] = Fed(g[k], 1)
      BY <2>1 DEF After
    <3>2. f[k] = g[k]
      BY <1>3, <2>1
    <3>3. QED
      BY <3>1, <3>2
  <2>2. QED
    BY <2>1
<1>4. T = Nat
  BY <1>2, <1>3, SetInduction, Zenon
<1>5. QED
  BY <1>4

LEMMA ReplayedSteps ==
  /\ Replayed(0) = NewParser
  /\ \A m \in Nat : Replayed(m + 1) = Fed(Replayed(m), 1)
<1>1. Replayed(0) = NewParser
  <2>1. PICK f : After(f, 0) /\ Replayed(0) = f[0]
    BY ReplayedAfter
  <2>2. QED
    BY <2>1 DEF After
<1>2. ASSUME NEW m \in Nat PROVE Replayed(m + 1) = Fed(Replayed(m), 1)
  <2>1. PICK f : After(f, m) /\ Replayed(m) = f[m]
    BY ReplayedAfter
  <2>2. PICK g : After(g, m + 1) /\ Replayed(m + 1) = g[m + 1]
    BY ReplayedAfter
  <2>3. g[m + 1] = Fed(g[m], 1)
    BY <2>2 DEF After
  <2>4. f[m] = g[m]
    BY <2>1, <2>2, AfterUnique
  <2>5. QED
    BY <2>1, <2>2, <2>3, <2>4
<1>3. QED
  BY <1>1, <1>2

LEMMA FilledTwice ==
  ASSUME NEW p \in ParserType, NEW k \in Nat
  PROVE  Filled(Filled(p, k), 1) = Filled(p, k + 1)
<1>1. (p.filled + k) + 1 = p.filled + (k + 1)
  BY DEF ParserType
<1> DEFINE total == (p.filled + k) + 1
<1>2. Filled(p, k).filled + 1 = total
  BY FilledType
<1>3. Filled(Filled(p, k), 1) = [Filled(p, k) EXCEPT !.filled = total]
  BY <1>2 DEF Filled
<1>4. Filled(p, k + 1) = [p EXCEPT !.filled = total]
  BY <1>1 DEF Filled
<1> HIDE DEF total
<1>5. QED
  BY <1>3, <1>4 DEF Filled, ParserType

\* What a transition is refused for does not depend on the bytes taken.
LEMMA SameError ==
  ASSUME NEW p \in ParserType, NEW k \in Nat
  PROVE  TransitionError(Filled(p, k)) = TransitionError(p)
<1> DEFINE q == Filled(p, k)
<1>1. q.phase = p.phase /\ q.count = p.count /\ q.index = p.index /\ q.seen = p.seen
  BY FilledType
<1> HIDE DEF q
<1>2. LocatorError(q) = LocatorError(p)
  BY <1>1 DEF LocatorError, HeaderEnd
<1>3. TransitionError(q) = TransitionError(p)
  BY <1>1, <1>2 DEF TransitionError
<1>4. QED
  BY <1>3 DEF q

LEMMA ReplayedWithin ==
  ASSUME NEW p, ParserOk(p), Replayed(p.filled) = p
  PROVE  \A k \in Nat : p.filled + k < p.target => Replayed(p.filled + k) = Filled(p, k)
<1> DEFINE T == {k \in Nat : p.filled + k < p.target => Replayed(p.filled + k) = Filled(p, k)}
<1>1. p \in ParserType /\ p.filled \in Nat /\ p.target \in Nat
  BY DEF ParserOk, ParserType
<1>2. 0 \in T
  <2>1. Filled(p, 0) = p
    BY <1>1 DEF Filled, ParserType
  <2>2. QED
    BY <1>1, <2>1
<1>3. ASSUME NEW k \in T PROVE k + 1 \in T
  <2>1. SUFFICES ASSUME p.filled + (k + 1) < p.target
                 PROVE  Replayed(p.filled + (k + 1)) = Filled(p, k + 1)
    OBVIOUS
  <2>2. p.filled + k \in Nat /\ p.filled + (k + 1) = (p.filled + k) + 1 /\ p.filled + k < p.target
    BY <1>1, <1>3, <2>1
  <2>3. Replayed(p.filled + (k + 1)) = Fed(Filled(p, k), 1)
    BY <1>3, <2>2, ReplayedSteps
  <2>4. Filled(p, k).filled = p.filled + k /\ Filled(p, k).target = p.target
    BY <1>1, <1>3, FilledType
  <2>5. Fed(Filled(p, k), 1) = Filled(Filled(p, k), 1)
    BY <2>1, <2>2, <2>4 DEF Fed
  <2>6. QED
    BY <1>1, <1>3, <2>3, <2>5, FilledTwice
<1>4. T = Nat
  BY <1>2, <1>3, SetInduction, Zenon
<1>5. QED
  BY <1>4

LEMMA ReplayedFed ==
  ASSUME file \in Files, NEW p, ParserOk(p), Replayed(p.filled) = p, p.phase # "Done",
         NEW n \in 1..(p.target - p.filled), FeedError(p, n) = "none"
  PROVE  Replayed(Fed(p, n).filled) = Fed(p, n)
<1>1. p \in ParserType /\ p.filled \in Nat /\ p.target \in Nat /\ p.filled < p.target
  BY DEF ParserOk, ParserType
<1>2. CASE p.filled + n < p.target
  <2>1. Fed(p, n) = Filled(p, n)
    BY <1>1, <1>2 DEF Fed
  <2>2. Filled(p, n).filled = p.filled + n
    BY <1>1, FilledType
  <2>3. QED
    BY <1>2, <2>1, <2>2, ReplayedWithin
<1>3. CASE p.filled + n = p.target
  <2> DEFINE k == n - 1
             w == Filled(p, k)
  <2>1. k \in Nat /\ k + 1 = n /\ p.filled + k < p.target /\ p.filled + k \in Nat
        /\ (p.filled + k) + 1 = p.target
    BY <1>1, <1>3
  <2>2. Replayed(p.filled + k) = w
    BY <2>1, ReplayedWithin
  <2>3. Replayed(p.target) = Fed(w, 1)
    BY <2>1, <2>2, ReplayedSteps
  <2>4. w.filled + 1 = w.target /\ w.target = p.target
    BY <1>1, <2>1, FilledType
  <2>5. TransitionError(p) = "none"
    BY <1>3 DEF FeedError
  <2>6. TransitionError(w) = "none"
    BY <1>1, <2>1, <2>5, SameError
  <2>7. Filled(w, 1) = Filled(p, n)
    BY <1>1, <2>1, FilledTwice
  <2>8. Fed(w, 1) = Transition(Filled(p, n)) /\ Fed(p, n) = Transition(Filled(p, n))
    BY <1>3, <2>4, <2>5, <2>6, <2>7 DEF Fed
  <2>9. Transition(Filled(p, n)).filled = p.target
    <3>1. Filled(p, n) \in ParserType /\ Filled(p, n).filled = p.target
          /\ Filled(p, n).phase = p.phase
      BY <1>1, <1>3, FilledType
    <3>2. QED
      BY <3>1 DEF Transition, ParserType, Phases
  <2>10. QED
    BY <2>3, <2>8, <2>9
<1>4. QED
  BY <1>1, <1>2, <1>3

----------------------------------------------------------------------------
(* What a read finds. *)

\* No action changes the file, nor what is looked up in it.
LEMMA FileSame ==
  ASSUME file' = file
  PROVE  /\ Map' = Map /\ MapEnd' = MapEnd
         /\ Locator(0)' = Locator(0) /\ Locator(1)' = Locator(1)
         /\ \A at : ChunkAt(at)' = ChunkAt(at)
         /\ \A at : RecordAt(at)' = RecordAt(at)
         /\ \A at : InMap(at)' = InMap(at)
<1>1. Map' = Map
  BY SMT DEF Map, Locator
<1>2. MapEnd' = MapEnd
  BY <1>1 DEF MapEnd
<1>3. Locator(0)' = Locator(0) /\ Locator(1)' = Locator(1)
  BY SMT DEF Locator
<1>4. \A at : ChunkAt(at)' = ChunkAt(at)
  BY SMT DEF ChunkAt
<1>5. \A at : RecordAt(at)' = RecordAt(at)
  BY SMT DEF RecordAt
<1>6. \A at : InMap(at)' = InMap(at)
  BY <1>1, <1>2 DEF InMap
<1>7. QED
  BY <1>1, <1>2, <1>3, <1>4, <1>5, <1>6

LEMMA ReplayedSame ==
  ASSUME file' = file, NEW m
  PROVE  Replayed(m)' = Replayed(m)
BY SMT DEF Replayed, Fed, FeedError, TransitionError, LocatorError, HeaderEnd, Transition,
           Filled, Seen

\* The first locator of a number, where there is one.
LEMMA LocatorFound ==
  ASSUME file \in Files, NEW number \in Nat,
         NEW j \in DOMAIN file.locators, file.locators[j].number = number
  PROVE  \E i \in DOMAIN file.locators :
           i <= j /\ file.locators[i].number = number /\ Locator(number) = file.locators[i]
<1> DEFINE found == {i \in DOMAIN file.locators : file.locators[i].number = number}
           least == CHOOSE i \in found : \A k \in found : i <= k
<1>1. found \in SUBSET Nat /\ j \in found
  BY HeaderFile
<1>2. \E i \in found : \A k \in found : i <= k
  BY <1>1, LeastMember
<1>3. least \in found /\ \A k \in found : least <= k
  BY <1>2
<1>4. Locator(number) = file.locators[least]
  BY <1>1 DEF Locator
<1> HIDE DEF least
<1>5. QED
  BY <1>1, <1>3, <1>4

LEMMA LocatorTyped ==
  ASSUME file \in Files, NEW number \in Nat
  PROVE  Locator(number) \in LocatorType
<1> DEFINE found == {i \in DOMAIN file.locators : file.locators[i].number = number}
<1>1. CASE found = {}
  BY <1>1 DEF Locator, LocatorType
<1>2. CASE found # {}
  <2>1. PICK i \in DOMAIN file.locators : Locator(number) = file.locators[i]
    BY <1>2, LocatorFound
  <2>2. QED
    BY <2>1, HeaderFile, ElementOfSeq
<1>3. QED
  BY <1>1, <1>2

\* A locator the verified header has lies in the source.
LEMMA LocatorInSource ==
  ASSUME file \in Files, NEW p, ParserOk(p), p.phase = "Done", NEW number \in {0, 1, 2}
  PROVE  Locator(number).offset + Locator(number).size <= file.length
<1>1. p.index = file.count /\ file.count \in 3..6 /\ number \in p.seen /\ LocatorsOk(p)
  BY DEF ParserOk
<1>2. PICK j \in 1..p.index : file.locators[j].number = number
  BY <1>1 DEF LocatorsOk
<1>3. j \in DOMAIN file.locators /\ DOMAIN file.locators \subseteq Nat \ {0}
  BY <1>1, HeaderFile
<1>4. PICK i \in DOMAIN file.locators : i <= j /\ Locator(number) = file.locators[i]
  BY <1>2, <1>3, LocatorFound
<1>5. i \in 1..p.index
  BY <1>1, <1>3, <1>4
<1>6. QED
  BY <1>1, <1>4, <1>5 DEF LocatorsOk

LEMMA PartFacts ==
  ASSUME file \in Files, NEW part \in {0, 1}
  PROVE  file.sections[part] \in [start : Nat, end : Nat, size : Nat, crc : BOOLEAN]
BY FilesAssumption

LEMMA ChunkFacts ==
  ASSUME file \in Files, NEW at
  PROVE  /\ ChunkAt(at).size \in Nat /\ ChunkAt(at).data \in Seq(0..255)
         /\ ChunkAt(at).size <= Len(ChunkAt(at).data) + 2
BY FilesAssumption DEF ChunkAt

LEMMA RecordFacts ==
  ASSUME file \in Files, NEW at
  PROVE  LET w == RecordAt(at).words
         IN /\ w \in Seq([bits : Nat, more : BOOLEAN]) /\ Len(w) >= 1
            /\ w[1].more => Len(w) >= 2
<1>1. CASE at \in DOMAIN file.records
  <2> DEFINE w == file.records[at].words
  <2>1. w \in Seq([bits : Nat, more : BOOLEAN]) /\ w # <<>> /\ (w[1].more => Len(w) >= 2)
    BY <1>1, FilesAssumption
  <2> HIDE DEF w
  <2>2. Len(w) >= 1
    BY <2>1, EmptySeq
  <2>3. QED
    BY <1>1, <2>1, <2>2 DEF RecordAt, w
<1>2. CASE at \notin DOMAIN file.records
  <2>1. RecordAt(at).words = <<[bits |-> 0, more |-> FALSE]>>
    BY <1>2 DEF RecordAt
  <2>2. QED
    BY <2>1
<1>3. QED
  BY <1>1, <1>2

----------------------------------------------------------------------------
(* The inductive invariant. *)

NoRecordHere == object = 0 /\ msLen = 0 /\ words = 0 /\ head = FreshHead

HeaderUnit ==
  /\ parser.phase # "Done"
  /\ NoRecordHere /\ map = FreshMap
  /\ done = 0 /\ size = 0 /\ crc = 0

SectionUnit ==
  /\ parser.phase = "Done"
  /\ NoRecordHere /\ map = FreshMap
  /\ Section.size >= Frame /\ done < Section.size
  /\ IF done < 20 THEN size = 0 ELSE Frame + size = Section.size

ChunkUnit ==
  /\ parser.phase = "Done"
  /\ NoRecordHere /\ map = [FreshMap EXCEPT !.chunk = map.chunk]
  /\ map.chunk >= Map.offset /\ map.chunk + 4 <= MapEnd
  /\ IF done < 2 THEN size = 0
     ELSE /\ size = ChunkAt(map.chunk).size /\ size \in 2..MaxChunk
          /\ map.chunk + size + 2 <= MapEnd
          /\ done < size + 2

\* The chunk whose entries are being read has passed its checksum.
VerifiedChunk ==
  /\ map.len = ChunkAt(map.chunk).size /\ map.len \in 3..MaxChunk
  /\ map.chunk >= Map.offset
  /\ map.chunk + map.len + 2 <= MapEnd

\* Groups are of seven bits; the tenth is refused.
Shifts == {0, 7, 14, 21, 28, 35, 42, 49, 56, 63}

EntryUnit ==
  /\ parser.phase = "Done"
  /\ VerifiedChunk
  /\ map.at >= map.chunk + 2 /\ map.at < EntriesEnd
  /\ map.shift \in Shifts
  /\ map.loc <= MaxLocation

\* The MS size is being read, and any word read before called for another.
MsUnit ==
  /\ words <= 1 /\ done >= 2 * words /\ done < 2 * words + 2
  /\ words = 1 => RecordAt(object).words[1].more

\* The record lies in the source, clear of the map.
RecordUnit ==
  /\ words \in 1..2 /\ msLen = 2 * words
  /\ size > 0
  /\ object + msLen + size + 2 <= file.length
  /\ ~(object < MapEnd /\ object + msLen + size + 2 > Map.offset)
  /\ done >= msLen /\ done < msLen + size + 2

ObjectUnit ==
  /\ parser.phase = "Done"
  /\ VerifiedChunk
  /\ map.at > map.chunk + 2 /\ map.at <= EntriesEnd
  /\ map.field = 0 /\ map.shift = 0 /\ map.mc = 0
  /\ object = map.loc /\ object <= MaxLocation
  /\ object >= HeaderEnd(parser) /\ object + 2 <= file.length
  /\ ~InMap(object)
  /\ IF msLen = 0 THEN MsUnit ELSE RecordUnit

\* What is known of the unit being read.
UnitOk ==
  /\ stage = "Header" => HeaderUnit
  /\ stage \in {"Vars", "Classes"} => SectionUnit
  /\ stage = "Chunk" => ChunkUnit
  /\ stage = "Entry" => EntryUnit
  /\ stage = "Object" => ObjectUnit
  /\ stage = "Done" => parser.phase = "Done"

ParserFacts == ParserOk(parser) /\ Replayed(parser.filled) = parser

WalkOk == ParserFacts /\ UnitOk

Types ==
  /\ parser \in ParserType
  /\ stage \in Stages
  /\ done \in Nat /\ size \in Nat /\ crc \in Nat
  /\ head \in [1..HeadBytes -> Nat]
  /\ object \in Nat /\ msLen \in 0..4 /\ words \in 0..2
  /\ map \in MapType

\* The same of a checkpoint.
CursorType(k) ==
  /\ k.parser \in ParserType /\ k.stage \in Stages
  /\ k.done \in Nat /\ k.size \in Nat /\ k.crc \in Nat
  /\ k.head \in [1..HeadBytes -> Nat]
  /\ k.object \in Nat /\ k.msLen \in 0..4 /\ k.words \in 0..2 /\ k.map \in MapType
  /\ k = [parser |-> k.parser, stage |-> k.stage, done |-> k.done, size |-> k.size,
          crc |-> k.crc, head |-> k.head, object |-> k.object, msLen |-> k.msLen,
          words |-> k.words, map |-> k.map, commits |-> k.commits]

EntryOk(k) ==
  /\ InVerifiedChunk(k)
  /\ k.map.at >= k.map.chunk + 2 /\ k.map.at < k.map.chunk + k.map.len
  /\ k.map.shift \in Shifts
  /\ k.map.loc <= MaxLocation

\* Consistent, but for an entry of too many groups, and with what the file
\* says of the chunk and the record.
Reachable(k) ==
  /\ ParserOk(k.parser) /\ Replayed(k.parser.filled) = k.parser
  /\ k.stage # "Entry" => Consistent(k)
  /\ k.stage = "Entry" => k.parser.phase = "Done" /\ EntryOk(k)
  /\ k.stage = "Chunk" /\ k.done >= 2 => k.size = ChunkAt(k.map.chunk).size
  /\ k.stage \in {"Entry", "Object"} => k.map.len = ChunkAt(k.map.chunk).size
  /\ k.stage = "Object" /\ k.msLen = 0 /\ k.words = 1 => RecordAt(k.object).words[1].more

\* The inductive invariant: a walk that has not failed, and every checkpoint,
\* is where a walk can be.
IInv ==
  /\ file \in Files
  /\ Types /\ failure \in Errors
  /\ failure = "none" => WalkOk
  /\ CursorType(kept) /\ Reachable(kept)

\* The part of it a step of the walk has to keep.
Fine ==
  /\ Types /\ failure \in Errors
  /\ failure = "none" => WalkOk

----------------------------------------------------------------------------
(* The walk's cursor as a checkpoint. *)

LEMMA CursorFields ==
  /\ Cursor.parser = parser /\ Cursor.stage = stage /\ Cursor.done = done
  /\ Cursor.size = size /\ Cursor.crc = crc /\ Cursor.head = head
  /\ Cursor.object = object /\ Cursor.msLen = msLen /\ Cursor.words = words
  /\ Cursor.map = map /\ Cursor.commits = commits
BY DEF Cursor

LEMMA CursorTyped == Types => CursorType(Cursor)
BY CursorFields DEF Cursor, Types, CursorType

LEMMA CursorReachable == Types => (Reachable(Cursor) <=> WalkOk)
<1> SUFFICES ASSUME Types PROVE Reachable(Cursor) <=> WalkOk
  OBVIOUS
<1> USE CursorFields
<1>0. stage \in Stages /\ map \in MapType /\ object \in Nat /\ done \in Nat /\ size \in Nat
      /\ words \in 0..2 /\ msLen \in 0..4
  BY DEF Types
<1>1. (ParserOk(Cursor.parser) /\ Replayed(Cursor.parser.filled) = Cursor.parser) <=> ParserFacts
  BY DEF ParserFacts
<1>2. NoRecord(Cursor) <=> NoRecordHere
  BY DEF NoRecord, NoRecordHere
<1>3. InVerifiedChunk(Cursor) /\ map.len = ChunkAt(map.chunk).size
      <=> VerifiedChunk /\ map.at <= EntriesEnd
  BY DEF InVerifiedChunk, VerifiedChunk, EntriesEnd
<1> DEFINE rest == /\ Cursor.stage # "Entry" => Consistent(Cursor)
                   /\ Cursor.stage = "Entry" => Cursor.parser.phase = "Done" /\ EntryOk(Cursor)
                   /\ Cursor.stage = "Chunk" /\ Cursor.done >= 2 =>
                        Cursor.size = ChunkAt(Cursor.map.chunk).size
                   /\ Cursor.stage \in {"Entry", "Object"} =>
                        Cursor.map.len = ChunkAt(Cursor.map.chunk).size
                   /\ Cursor.stage = "Object" /\ Cursor.msLen = 0 /\ Cursor.words = 1 =>
                        RecordAt(Cursor.object).words[1].more
<1>4. rest <=> UnitOk
  <2>1. CASE stage = "Header"
    BY <1>2, <2>1 DEF Consistent, UnitOk, HeaderUnit
  <2>2. CASE stage \in {"Vars", "Classes"}
    <3>1. ConsistentSection(Cursor) /\ parser.phase = "Done" <=> SectionUnit
      BY <1>2 DEF ConsistentSection, SectionUnit, Section, Part
    <3>2. QED
      BY <2>2, <3>1 DEF Consistent, UnitOk
  <2>3. CASE stage = "Chunk"
    <3>1. ConsistentChunk(Cursor) /\ parser.phase = "Done"
          /\ (done >= 2 => size = ChunkAt(map.chunk).size) <=> ChunkUnit
      BY <1>0, <1>2 DEF ConsistentChunk, ChunkUnit
    <3>2. QED
      BY <2>3, <3>1 DEF Consistent, UnitOk
  <2>4. CASE stage = "Entry"
    <3>1. EntryOk(Cursor) /\ parser.phase = "Done" /\ map.len = ChunkAt(map.chunk).size <=> EntryUnit
      BY <1>0 DEF EntryOk, EntryUnit, InVerifiedChunk, VerifiedChunk, EntriesEnd, MapType
    <3>2. QED
      BY <2>4, <3>1 DEF UnitOk
  <2>5. CASE stage = "Object"
    <3>1. ConsistentObject(Cursor) /\ parser.phase = "Done" /\ map.len = ChunkAt(map.chunk).size
          /\ (msLen = 0 /\ words = 1 => RecordAt(object).words[1].more) <=> ObjectUnit
      <4>1. object + msLen + size + 2 - object = msLen + size + 2
        BY <1>0
      <4> DEFINE ms == IF msLen = 0
                       THEN words <= 1 /\ done >= 2 * words /\ done < 2 * words + 2
                       ELSE /\ words \in 1..2 /\ msLen = 2 * words /\ size > 0
                            /\ object + msLen + size + 2 <= file.length
                            /\ ~(object < MapEnd /\ object + msLen + size + 2 > Map.offset)
                            /\ done >= msLen /\ done < msLen + size + 2
      <4>2. ms /\ (msLen = 0 /\ words = 1 => RecordAt(object).words[1].more)
            <=> IF msLen = 0 THEN MsUnit ELSE RecordUnit
        BY DEF MsUnit, RecordUnit
      <4>3. ConsistentObject(Cursor) <=>
              /\ InVerifiedChunk(Cursor)
              /\ map.at > map.chunk + 2
              /\ map.field = 0 /\ map.shift = 0 /\ map.mc = 0
              /\ object = map.loc /\ object >= HeaderEnd(parser) /\ object <= MaxLocation
              /\ object + 2 <= file.length /\ ~InMap(object) /\ ms
        <5>1. Cursor.object + Cursor.msLen + Cursor.size + 2 = object + msLen + size + 2
          OBVIOUS
        <5>2. done < (object + msLen + size + 2) - object <=> done < msLen + size + 2
          BY <1>0
        <5>3. QED
          BY <5>1, <5>2 DEF ConsistentObject
      <4> HIDE DEF ms
      <4>4. QED
        BY <1>3, <4>2, <4>3 DEF ObjectUnit
    <3>2. QED
      BY <2>5, <3>1 DEF Consistent, UnitOk
  <2>6. CASE stage = "Done"
    BY <2>6 DEF Consistent, UnitOk
  <2>7. QED
    BY <1>0, <2>1, <2>2, <2>3, <2>4, <2>5, <2>6 DEF Stages
<1>5. QED
  BY <1>1, <1>4 DEF Reachable, WalkOk

----------------------------------------------------------------------------
(* request *)

LEMMA BoundaryFacts ==
  ASSUME done \in Nat, NEW ends \in SUBSET Nat, NEW last \in ends, last > done
  PROVE  /\ Boundary(ends) \in ends /\ Boundary(ends) > done
         /\ \A f \in ends : f > done => Boundary(ends) <= f
<1> DEFINE T == {e \in ends : e > done}
<1>1. T \in SUBSET Nat /\ T # {}
  OBVIOUS
<1>2. PICK e \in T : \A f \in T : e <= f
  BY <1>1, LeastMember
<1>3. e \in ends /\ e > done /\ \A f \in ends : f > done => e <= f
  BY <1>2
<1>4. QED
  BY <1>3, Zenon DEF Boundary

\* While a section is read: its ends, in their order.
SectionEnds == {16, 20, 20 + size, 22 + size, Frame + size}

LEMMA SectionDemand ==
  ASSUME file \in Files, Types, WalkOk, inSection
  PROVE  LET b == Boundary(SectionEnds)
         IN /\ Demand = [offset |-> Section.offset + done, len |-> b - done]
            /\ b \in Nat /\ b > done /\ b <= Section.size
            /\ Section \in LocatorType /\ Section.offset + Section.size <= file.length
            /\ \A f \in SectionEnds : f > done => b <= f
<1>1. SectionUnit /\ stage \in {"Vars", "Classes"} /\ parser.phase = "Done" /\ ParserOk(parser)
  BY DEF WalkOk, UnitOk, inSection, SectionUnit, ParserFacts
<1>2. Section \in LocatorType /\ Section.offset + Section.size <= file.length
  BY <1>1, LocatorTyped, LocatorInSource DEF Section, Part, PartOf
<1>3. done \in Nat /\ size \in Nat /\ Section.size \in Nat
  BY <1>2 DEF Types, LocatorType
<1>4. SectionEnds \in SUBSET Nat
  BY <1>3 DEF SectionEnds, Frame
<1>5. \E last \in SectionEnds : last > done /\ last <= Section.size
  <2>1. CASE done < 20
    <3>1. 20 \in SectionEnds /\ 20 > done /\ 20 <= Section.size
      BY <1>1, <1>3, <2>1 DEF SectionUnit, Frame, SectionEnds
    <3>2. QED
      BY <3>1
  <2>2. CASE done >= 20
    <3>1. Frame + size = Section.size /\ done < Section.size
      BY <1>1, <1>3, <2>2 DEF SectionUnit
    <3>2. Frame + size \in SectionEnds /\ Frame + size > done /\ Frame + size <= Section.size
      BY <1>3, <3>1 DEF SectionEnds, Frame
    <3>3. QED
      BY <3>2
  <2>3. QED
    BY <1>3, <2>1, <2>2
<1>6. PICK last \in SectionEnds : last > done /\ last <= Section.size
  BY <1>5
<1> DEFINE b == Boundary(SectionEnds)
<1>7. b \in SectionEnds /\ b > done /\ \A f \in SectionEnds : f > done => b <= f
  BY <1>3, <1>4, <1>6, BoundaryFacts
<1>8. b <= Section.size
  <2>1. b <= last /\ b \in Nat /\ last \in Nat
    BY <1>4, <1>6, <1>7
  <2>2. QED
    BY <1>3, <1>6, <2>1
<1>9. Demand = [offset |-> Section.offset + done, len |-> b - done]
  BY <1>1 DEF Demand, Until, SectionEnds
<1>10. QED
  BY <1>2, <1>4, <1>7, <1>8, <1>9

LEMMA MapFacts ==
  ASSUME file \in Files, ParserOk(parser), parser.phase = "Done"
  PROVE  Map \in LocatorType /\ MapEnd = Map.offset + Map.size /\ MapEnd \in Nat
         /\ Map.offset \in Nat /\ MapEnd <= file.length
<1>1. Map \in LocatorType
  BY LocatorTyped DEF Map
<1>2. Map.offset + Map.size <= file.length
  BY LocatorInSource DEF Map
<1>3. QED
  BY <1>1, <1>2 DEF MapEnd, LocatorType

ChunkEnds == {2, size, size + 2}

LEMMA ChunkDemand ==
  ASSUME file \in Files, Types, WalkOk, stage = "Chunk"
  PROVE  LET b == Boundary(ChunkEnds)
         IN /\ Demand = [offset |-> map.chunk + done, len |-> b - done]
            /\ b \in Nat /\ b > done /\ map.chunk + b <= MapEnd
            /\ \A f \in ChunkEnds : f > done => b <= f
<1>1. ChunkUnit /\ parser.phase = "Done" /\ ParserOk(parser)
  BY DEF WalkOk, UnitOk, ChunkUnit, ParserFacts
<1>2. done \in Nat /\ size \in Nat /\ map.chunk \in Nat /\ MapEnd \in Nat
  BY <1>1, MapFacts DEF Types, MapType
<1>3. ChunkEnds \in SUBSET Nat
  BY <1>2 DEF ChunkEnds
<1>4. \E last \in ChunkEnds : last > done /\ map.chunk + last <= MapEnd
  <2>1. CASE done < 2
    BY <1>1, <1>2, <2>1 DEF ChunkUnit, ChunkEnds
  <2>2. CASE done >= 2
    BY <1>1, <1>2, <2>2 DEF ChunkUnit, ChunkEnds
  <2>3. QED
    BY <1>2, <2>1, <2>2
<1>5. PICK last \in ChunkEnds : last > done /\ map.chunk + last <= MapEnd
  BY <1>4
<1> DEFINE b == Boundary(ChunkEnds)
<1>6. b \in ChunkEnds /\ b > done /\ \A f \in ChunkEnds : f > done => b <= f
  BY <1>2, <1>3, <1>5, BoundaryFacts
<1>7. Demand = [offset |-> map.chunk + done, len |-> b - done]
  BY DEF Demand, Until, ChunkEnds
<1>8. b \in Nat /\ b <= last /\ last \in Nat
  BY <1>3, <1>5, <1>6
<1> HIDE DEF b
<1>9. map.chunk + b <= MapEnd
  BY <1>2, <1>5, <1>8
<1>10. QED
  BY <1>6, <1>7, <1>8, <1>9 DEF b

RecordEnds == {msLen + size, msLen + size + 2}

LEMMA ObjectDemand ==
  ASSUME file \in Files, Types, WalkOk, stage = "Object"
  PROVE  LET b == IF msLen = 0 THEN (done - (done % 2)) + 2 ELSE Boundary(RecordEnds)
         IN /\ Demand = [offset |-> object + done, len |-> b - done]
            /\ b \in Nat /\ b > done
            /\ msLen = 0 => b <= 4 /\ b = 2 * words + 2
            /\ msLen > 0 => /\ b <= msLen + size + 2
                            /\ \A f \in RecordEnds : f > done => b <= f
<1>1. ObjectUnit
  BY DEF WalkOk, UnitOk
<1>2. done \in Nat /\ size \in Nat /\ msLen \in 0..4 /\ words \in 0..2
  BY DEF Types
<1> DEFINE b == IF msLen = 0 THEN (done - (done % 2)) + 2 ELSE Boundary(RecordEnds)
<1>3. Demand = [offset |-> object + done, len |-> b - done]
  BY DEF Demand, Until, RecordEnds
<1>4. CASE msLen = 0
  <2>1. words \in {0, 1} /\ done >= 2 * words /\ done < 2 * words + 2
    BY <1>1, <1>2, <1>4 DEF ObjectUnit, MsUnit
  <2>2. done - (done % 2) = 2 * words
    <3>1. CASE words = 0
      BY <1>2, <2>1, <3>1
    <3>2. CASE words = 1
      BY <1>2, <2>1, <3>2
    <3>3. QED
      BY <2>1, <3>1, <3>2
  <2>3. QED
    BY <1>2, <1>3, <1>4, <2>1, <2>2
<1>5. CASE msLen > 0
  <2>1. RecordUnit
    BY <1>1, <1>5 DEF ObjectUnit
  <2>2. RecordEnds \in SUBSET Nat
    BY <1>2 DEF RecordEnds
  <2>3. msLen + size + 2 \in RecordEnds /\ msLen + size + 2 > done
    BY <2>1 DEF RecordUnit, RecordEnds
  <2> DEFINE c == Boundary(RecordEnds)
  <2>4. c \in RecordEnds /\ c > done /\ \A f \in RecordEnds : f > done => c <= f
    BY <1>2, <2>2, <2>3, BoundaryFacts
  <2>5. c <= msLen + size + 2 /\ c \in Nat
    BY <2>2, <2>3, <2>4
  <2>6. b = c
    BY <1>5
  <2>7. QED
    BY <1>2, <1>3, <1>5, <2>4, <2>5, <2>6
<1>6. QED
  BY <1>2, <1>4, <1>5

LEMMA HeaderDemandFacts ==
  ASSUME file \in Files, Types, WalkOk, stage = "Header"
  PROVE  /\ Demand = [offset |-> parser.filled, len |-> parser.target - parser.filled]
         /\ parser.filled \in Nat /\ parser.target \in Nat /\ parser.filled < parser.target
<1>1. HeaderUnit /\ ParserOk(parser)
  BY DEF WalkOk, UnitOk, ParserFacts
<1>2. QED
  BY <1>1 DEF Demand, HeaderDemand, HeaderUnit, ParserOk, ParserType

\* A demand asks for a byte at least, and for none behind the unit it reads.
LEMMA DemandOk ==
  ASSUME IInv
  PROVE  DemandInBounds
<1> SUFFICES ASSUME ~Stopped PROVE DemandInBounds
  BY DEF DemandInBounds
<1> DEFINE start == Demand.offset
           end == Demand.offset + Demand.len
           inMs == stage = "Object" /\ msLen = 0
           Inside(l) == start >= l.offset /\ end <= l.offset + l.size
<1>1. file \in Files /\ Types /\ WalkOk /\ stage # "Done" /\ ~Truncated
  BY DEF IInv, Stopped
<1>2. file.length \in Nat /\ done \in Nat /\ size \in Nat /\ object \in Nat /\ map \in MapType
      /\ msLen \in 0..4 /\ stage \in Stages
  BY <1>1, HeaderFile DEF Types
<1>3. CASE stage = "Header"
  <2>1. /\ Demand = [offset |-> parser.filled, len |-> parser.target - parser.filled]
        /\ parser.filled \in Nat /\ parser.target \in Nat /\ parser.filled < parser.target
    BY <1>1, <1>3, HeaderDemandFacts
  <2>2. parser.target <= file.length
    BY <1>1, <1>2, <1>3, <2>1 DEF Truncated, HeaderTruncated, WalkOk, UnitOk, HeaderUnit
  <2>3. Demand.len > 0 /\ end <= file.length
    BY <2>1, <2>2
  <2>4. QED
    BY <1>3, <2>3 DEF DemandInBounds, inSection
<1>4. CASE stage \in {"Vars", "Classes"}
  <2> DEFINE b == Boundary(SectionEnds)
  <2>1. /\ Demand = [offset |-> Section.offset + done, len |-> b - done]
        /\ b \in Nat /\ b > done /\ b <= Section.size
        /\ Section \in LocatorType /\ Section.offset + Section.size <= file.length
    BY <1>1, <1>4, SectionDemand DEF inSection
  <2>2. Section.offset \in Nat /\ Section.size \in Nat
    BY <2>1 DEF LocatorType
  <2> HIDE DEF b
  <2>3. Demand.len > 0 /\ end <= file.length /\ Inside(Section)
    BY <1>2, <2>1, <2>2
  <2>4. QED
    BY <1>4, <2>3 DEF DemandInBounds, inSection
<1>5. CASE stage = "Chunk"
  <2> DEFINE b == Boundary(ChunkEnds)
  <2>1. /\ Demand = [offset |-> map.chunk + done, len |-> b - done]
        /\ b \in Nat /\ b > done /\ map.chunk + b <= MapEnd
    BY <1>1, <1>5, ChunkDemand
  <2>2. ChunkUnit /\ ParserOk(parser) /\ parser.phase = "Done"
    BY <1>1, <1>5 DEF WalkOk, UnitOk, ChunkUnit, ParserFacts
  <2>3. map.chunk \in Nat /\ Map.offset \in Nat /\ MapEnd \in Nat /\ MapEnd <= file.length
        /\ MapEnd = Map.offset + Map.size /\ map.chunk >= Map.offset
    BY <1>1, <1>2, <2>2, MapFacts DEF MapType, ChunkUnit
  <2> HIDE DEF b
  <2>4. Demand.len > 0 /\ end <= file.length /\ Inside(Map)
    BY <1>2, <2>1, <2>3
  <2>5. QED
    BY <1>5, <2>4 DEF DemandInBounds, inSection
<1>6. CASE stage = "Entry"
  <2>1. Demand = [offset |-> map.at, len |-> 1]
    BY <1>6 DEF Demand
  <2>2. EntryUnit /\ ParserOk(parser) /\ parser.phase = "Done"
    BY <1>1, <1>6 DEF WalkOk, UnitOk, EntryUnit, ParserFacts
  <2>3. /\ map.chunk \in Nat /\ map.at \in Nat /\ map.len \in Nat /\ Map.offset \in Nat
        /\ MapEnd \in Nat /\ MapEnd <= file.length /\ MapEnd = Map.offset + Map.size
    BY <1>1, <1>2, <2>2, MapFacts DEF MapType
  <2>4. map.at >= Map.offset /\ map.at + 1 <= MapEnd
    BY <2>2, <2>3 DEF EntryUnit, VerifiedChunk, EntriesEnd
  <2>5. Demand.len > 0 /\ end <= file.length /\ Inside(Map)
    BY <1>2, <2>1, <2>3, <2>4
  <2>6. QED
    BY <1>6, <2>5 DEF DemandInBounds, inSection
<1>7. CASE stage = "Object"
  <2> DEFINE b == IF msLen = 0 THEN (done - (done % 2)) + 2 ELSE Boundary(RecordEnds)
  <2>1. /\ Demand = [offset |-> object + done, len |-> b - done]
        /\ b \in Nat /\ b > done
        /\ msLen = 0 => b <= 4
        /\ msLen > 0 => b <= msLen + size + 2
    BY <1>1, <1>7, ObjectDemand
  <2>2. ObjectUnit /\ ParserOk(parser) /\ parser.phase = "Done"
    BY <1>1, <1>7 DEF WalkOk, UnitOk, ObjectUnit, ParserFacts
  <2>3. Map.offset \in Nat /\ MapEnd \in Nat /\ HeaderEnd(parser) \in Nat
    BY <1>1, <2>2, MapFacts DEF HeaderEnd, ParserOk, ParserType
  <2>4. /\ object + 2 <= file.length /\ object >= HeaderEnd(parser)
        /\ object < Map.offset \/ object >= MapEnd
    BY <1>2, <2>2, <2>3 DEF ObjectUnit, InMap
  <2> HIDE DEF b
  <2>5. Demand.len > 0 /\ start >= HeaderEnd(parser)
    BY <1>2, <2>1, <2>3, <2>4
  <2>6. CASE msLen = 0
    <3>1. end <= object + 4
      BY <1>2, <2>1, <2>6
    <3>2. QED
      BY <1>7, <2>4, <2>5, <2>6, <3>1 DEF DemandInBounds, inSection
  <2>7. CASE msLen > 0
    <3>1. /\ object + msLen + size + 2 <= file.length
          /\ ~(object < MapEnd /\ object + msLen + size + 2 > Map.offset)
      BY <2>2, <2>7 DEF ObjectUnit, RecordUnit
    <3>2. end <= file.length /\ (start >= MapEnd \/ end <= Map.offset)
      BY <1>2, <2>1, <2>3, <2>7, <3>1
    <3>3. QED
      BY <1>7, <2>5, <2>7, <3>2 DEF DemandInBounds, inSection
  <2>8. QED
    BY <1>2, <2>6, <2>7
<1>8. QED
  BY <1>1, <1>2, <1>3, <1>4, <1>5, <1>6, <1>7 DEF Stages

----------------------------------------------------------------------------
(* feed: a step keeps what is known of the unit, or leads to the next one. *)

LEMMA FedCount ==
  ASSUME IInv, ~Stopped, NEW scratch \in Scratches
  PROVE  LET n == Least(scratch, Least(Demand.len, file.length - Demand.offset))
         IN n \in Nat \ {0} /\ n <= Demand.len
<1>1. DemandInBounds /\ Demand.offset < file.length /\ Demand.len \in Nat /\ Demand.offset \in Nat
      /\ file.length \in Nat
  <2>1. file \in Files /\ Types /\ WalkOk /\ stage # "Done" /\ ~Truncated /\ stage \in Stages
    BY DEF IInv, Stopped, Types
  <2>2. file.length \in Nat /\ done \in Nat /\ map \in MapType /\ object \in Nat
    BY <2>1, HeaderFile DEF Types
  <2>3. Demand.len \in Nat /\ Demand.offset \in Nat
    <3>1. CASE stage = "Header"
      BY <2>1, <3>1, HeaderDemandFacts
    <3>2. CASE stage \in {"Vars", "Classes"}
      <4> DEFINE b == Boundary(SectionEnds)
      <4>1. Demand = [offset |-> Section.offset + done, len |-> b - done] /\ b \in Nat /\ b > done
            /\ Section.offset \in Nat
        BY <2>1, <3>2, SectionDemand DEF inSection, LocatorType
      <4> HIDE DEF b
      <4>2. QED
        BY <2>2, <4>1
    <3>3. CASE stage = "Chunk"
      <4> DEFINE b == Boundary(ChunkEnds)
      <4>1. Demand = [offset |-> map.chunk + done, len |-> b - done] /\ b \in Nat /\ b > done
        BY <2>1, <3>3, ChunkDemand
      <4> HIDE DEF b
      <4>2. QED
        BY <2>2, <4>1 DEF MapType
    <3>4. CASE stage = "Entry"
      BY <2>2, <3>4 DEF Demand, MapType
    <3>5. CASE stage = "Object"
      <4> DEFINE b == IF msLen = 0 THEN (done - (done % 2)) + 2 ELSE Boundary(RecordEnds)
      <4>1. Demand = [offset |-> object + done, len |-> b - done] /\ b \in Nat /\ b > done
        BY <2>1, <3>5, ObjectDemand
      <4> HIDE DEF b
      <4>2. QED
        BY <2>2, <4>1
    <3>6. QED
      BY <2>1, <3>1, <3>2, <3>3, <3>4, <3>5 DEF Stages
  <2>4. Demand.offset < file.length
    BY <2>1, <2>2, <2>3 DEF Truncated
  <2>5. QED
    BY <2>2, <2>3, <2>4, DemandOk
<1>2. Demand.len > 0
  BY <1>1 DEF DemandInBounds
<1>3. scratch \in Nat \ {0}
  BY BoundsAssumption
<1>4. QED
  BY <1>1, <1>2, <1>3 DEF Least

LEMMA FreshMapTyped ==
  ASSUME NEW at \in Nat
  PROVE  /\ FreshMap \in MapType /\ [FreshMap EXCEPT !.chunk = at] \in MapType
         /\ [FreshMap EXCEPT !.chunk = at].chunk = at
BY BoundsAssumption DEF FreshMap, MapType

LEMMA FreshHeadTyped == FreshHead \in [1..HeadBytes -> Nat]
BY DEF FreshHead

LEMMA ParserFactsSame ==
  ASSUME file' = file, parser' = parser, ParserFacts
  PROVE  ParserFacts'
<1>1. Replayed(parser.filled)' = parser'
  BY ReplayedSame DEF ParserFacts
<1>2. ParserOk(parser)'
  BY DEF ParserFacts, ParserOk, LocatorsOk, Target, HeaderEnd
<1>3. QED
  BY <1>1, <1>2 DEF ParserFacts

LEMMA EnterSectionFine ==
  ASSUME file \in Files, file' = file, Types, NEW s \in {"Vars", "Classes"}, EnterSection(s),
         parser' \in ParserType, ParserFacts', parser'.phase = "Done",
         NoRecordHere, map = FreshMap
  PROVE  Fine'
<1>1. /\ stage' = s /\ done' = 0 /\ size' = 0 /\ crc' = crc /\ head' = head /\ object' = object
      /\ msLen' = msLen /\ words' = words /\ map' = map
      /\ failure' = IF Locator(PartOf(s)).size >= Frame THEN "none" ELSE "SectionSize"
  BY DEF EnterSection, Check
<1>2. Types'
  BY <1>1 DEF Types, Stages
<1>3. failure' \in Errors
  BY <1>1 DEF Errors, HeaderErrors
<1>4. ASSUME failure' = "none" PROVE WalkOk'
  <2>1. Section' = Locator(PartOf(s))
    BY <1>1, FileSame DEF Section, Part, PartOf
  <2>2. Locator(PartOf(s)).size >= Frame /\ Locator(PartOf(s)).size \in Nat
    BY <1>1, <1>4, LocatorTyped DEF PartOf, LocatorType
  <2>3. SectionUnit'
    BY <1>1, <2>1, <2>2 DEF SectionUnit, NoRecordHere, Frame, FreshHead, FreshMap
  <2>4. QED
    BY <1>1, <2>3 DEF WalkOk, UnitOk
<1>5. QED
  BY <1>2, <1>3, <1>4 DEF Fine

LEMMA EnterChunkFine ==
  ASSUME file \in Files, file' = file, Types, NEW at \in Nat, EnterChunk(at),
         parser' = parser, ParserFacts, parser.phase = "Done", at >= Map.offset
  PROVE  Fine'
<1>1. /\ stage' = "Chunk" /\ done' = 0 /\ size' = 0 /\ crc' = crc /\ head' = FreshHead
      /\ object' = 0 /\ msLen' = 0 /\ words' = 0 /\ map' = [FreshMap EXCEPT !.chunk = at]
      /\ failure' = IF at + 4 <= MapEnd THEN "none" ELSE "MapChunk"
  BY DEF EnterChunk, Check
<1>2. map' \in MapType /\ map'.chunk = at /\ head' \in [1..HeadBytes -> Nat]
  BY <1>1, FreshMapTyped, FreshHeadTyped
<1>3. Types'
  BY <1>1, <1>2 DEF Types, Stages
<1>4. failure' \in Errors
  BY <1>1 DEF Errors, HeaderErrors
<1>5. ASSUME failure' = "none" PROVE WalkOk'
  <2>1. NoRecordHere'
    BY <1>1 DEF NoRecordHere, FreshHead
  <2>2. map' = [FreshMap EXCEPT !.chunk = map.chunk]'
    BY <1>1, <1>2 DEF FreshMap
  <2>3. ChunkUnit'
    BY <1>1, <1>2, <1>5, <2>1, <2>2, FileSame DEF ChunkUnit
  <2>4. QED
    BY <1>1, <2>3, ParserFactsSame DEF WalkOk, UnitOk
<1>6. QED
  BY <1>3, <1>4, <1>5 DEF Fine

LEMMA EnterObjectFine ==
  ASSUME file \in Files, file' = file, Types, NEW at \in 0..MaxLocation, EnterObject(at),
         parser' = parser, ParserFacts, parser.phase = "Done",
         map' \in MapType, VerifiedChunk', map'.at > map'.chunk + 2, map'.at <= EntriesEnd',
         map'.field = 0, map'.shift = 0, map'.mc = 0, map'.loc = at
  PROVE  Fine'
<1>1. /\ stage' = "Object" /\ done' = 0 /\ size' = 0 /\ crc' = 0 /\ head' = head
      /\ object' = at /\ msLen' = 0 /\ words' = 0
      /\ failure' = IF at >= HeaderEnd(parser) /\ at + 2 <= file.length /\ ~InMap(at)
                    THEN "none" ELSE "ObjectRange"
  BY DEF EnterObject, Check
<1>2. Types'
  BY <1>1, BoundsAssumption DEF Types, Stages
<1>3. failure' \in Errors
  BY <1>1 DEF Errors, HeaderErrors
<1>4. ASSUME failure' = "none" PROVE WalkOk'
  <2>1. at >= HeaderEnd(parser) /\ at + 2 <= file.length /\ ~InMap(at) /\ at <= MaxLocation
    BY <1>1, <1>4, BoundsAssumption
  <2>2. HeaderEnd(parser)' = HeaderEnd(parser) /\ InMap(object)' = InMap(at)
    BY <1>1, FileSame DEF HeaderEnd, InMap
  <2>3. MsUnit'
    BY <1>1 DEF MsUnit
  <2>4. ObjectUnit'
    BY <1>1, <2>1, <2>2, <2>3 DEF ObjectUnit
  <2>5. QED
    BY <1>1, <2>4, ParserFactsSame DEF WalkOk, UnitOk
<1>5. QED
  BY <1>2, <1>3, <1>4 DEF Fine

\* What is at hand when a step is taken.
Walking == file \in Files /\ file' = file /\ Types /\ WalkOk /\ failure = "none"

LEMMA FeedHeaderFine ==
  ASSUME Walking, NEW n \in Nat \ {0}, n <= Demand.len, FeedHeader(n)
  PROVE  Fine'
<1>1. HeaderUnit /\ ParserFacts /\ stage = "Header"
  BY DEF FeedHeader, Walking, WalkOk, UnitOk
<1>2. n \in 1..(parser.target - parser.filled)
  BY <1>1, HeaderDemandFacts DEF Walking
<1>3. /\ Fed(parser, n) \in ParserType /\ FeedError(parser, n) \in HeaderErrors
      /\ FeedError(parser, n) = "none" => ParserOk(Fed(parser, n))
                                          /\ Replayed(Fed(parser, n).filled) = Fed(parser, n)
  BY <1>1, <1>2, FedOk, ReplayedFed DEF Walking, HeaderUnit, ParserFacts
<1>4. parser' = Fed(parser, n)
  BY DEF FeedHeader
<1>5. ASSUME FeedError(parser, n) = "none" PROVE ParserFacts'
  <2>1. Replayed(parser.filled)' = parser'
    BY <1>3, <1>4, <1>5, ReplayedSame DEF Walking
  <2>2. ParserOk(parser)'
    <3>1. ParserOk(Fed(parser, n))
      BY <1>3, <1>5
    <3> DEFINE q == Fed(parser, n)
    <3> HIDE DEF q
    <3>2. ParserOk(q) /\ parser' = q
      BY <1>4, <3>1 DEF q
    <3>3. QED
      BY <3>2 DEF Walking, ParserOk, LocatorsOk, Target, HeaderEnd
  <2>3. QED
    BY <2>1, <2>2 DEF ParserFacts
<1>6. CASE /\ FeedError(parser, n) # "none" \/ parser'.phase # "Done"
           /\ Refuse(FeedError(parser, n))
           /\ UNCHANGED <<cursorVars, commits>>
  <2>1. /\ stage' = stage /\ done' = done /\ size' = size /\ crc' = crc /\ head' = head
        /\ object' = object /\ msLen' = msLen /\ words' = words /\ map' = map
        /\ failure' = FeedError(parser, n)
    BY <1>6 DEF cursorVars, Refuse
  <2>2. Types' /\ failure' \in Errors
    BY <1>3, <1>4, <2>1 DEF Types, Walking, Errors
  <2>3. ASSUME failure' = "none" PROVE WalkOk'
    <3>1. HeaderUnit'
      BY <1>1, <1>6, <2>1, <2>3 DEF HeaderUnit, NoRecordHere, FreshHead, FreshMap
    <3>2. QED
      BY <1>1, <1>5, <2>1, <2>3, <3>1 DEF WalkOk, UnitOk
  <2>4. QED
    BY <2>2, <2>3 DEF Fine
<1>7. CASE /\ FeedError(parser, n) = "none" /\ parser'.phase = "Done"
           /\ EnterSection("Vars")
  <2>1. parser' \in ParserType /\ ParserFacts' /\ NoRecordHere /\ map = FreshMap
    BY <1>1, <1>3, <1>4, <1>5, <1>7 DEF HeaderUnit
  <2>2. QED
    BY <1>7, <2>1, EnterSectionFine DEF Walking
<1>8. QED
  BY <1>6, <1>7 DEF FeedHeader

----------------------------------------------------------------------------
(* Sections. *)

LEMMA SectionKnown ==
  ASSUME Walking, inSection
  PROVE  /\ SectionUnit /\ ParserFacts /\ stage \in {"Vars", "Classes"}
         /\ done \in Nat /\ size \in Nat /\ crc \in Nat /\ Section.size \in Nat
         /\ Content.size \in Nat
         /\ stage' = stage => Section' = Section
<1>1. SectionUnit /\ ParserFacts /\ stage \in {"Vars", "Classes"}
  BY DEF Walking, WalkOk, UnitOk, inSection
<1>2. done \in Nat /\ size \in Nat /\ crc \in Nat
  BY DEF Walking, Types
<1>3. Section.size \in Nat
  BY LocatorTyped DEF Walking, Section, Part, PartOf, LocatorType
<1>4. Content.size \in Nat
  <2>1. Part \in {0, 1}
    BY DEF Part, PartOf
  <2>2. Content \in [start : Nat, end : Nat, size : Nat, crc : BOOLEAN]
    BY <2>1, PartFacts DEF Walking, Content
  <2>3. QED
    BY <2>2
<1>5. stage' = stage => Section' = Section
  BY FileSame DEF Walking, Section, Part, PartOf
<1>6. QED
  BY <1>1, <1>2, <1>3, <1>4, <1>5

\* A step within a section.
LEMMA SectionGoesOn ==
  ASSUME Walking, inSection, stage' = stage, sectionUnchanged, failure' \in Errors,
         done' \in Nat, size' \in Nat, crc' \in Nat,
         failure' = "none" =>
           done' < Section.size /\ (IF done' < 20 THEN size' = 0 ELSE Frame + size' = Section.size)
  PROVE  Fine'
<1>1. SectionUnit /\ ParserFacts /\ stage \in {"Vars", "Classes"} /\ Section' = Section
  BY SectionKnown
<1>2. /\ parser' = parser /\ head' = head /\ object' = object /\ msLen' = msLen /\ words' = words
      /\ map' = map
  BY DEF sectionUnchanged
<1>3. Types'
  BY <1>2 DEF Walking, Types
<1>4. ASSUME failure' = "none" PROVE WalkOk'
  <2>1. SectionUnit'
    BY <1>1, <1>2, <1>4 DEF SectionUnit, NoRecordHere, FreshHead, FreshMap
  <2>2. QED
    BY <1>1, <1>2, <2>1, ParserFactsSame DEF Walking, WalkOk, UnitOk
<1>5. QED
  BY <1>3, <1>4 DEF Fine

LEMMA SectionFine ==
  ASSUME Walking, NEW n \in Nat \ {0}, n <= Demand.len,
         \/ FeedSectionStart(n) \/ FeedSectionSize(n) \/ FeedSectionData(n)
         \/ FeedSectionCrc(n) \/ FeedSectionEnd(n)
  PROVE  Fine'
<1>1. inSection
  BY DEF FeedSectionStart, FeedSectionSize, FeedSectionData, FeedSectionCrc, FeedSectionEnd
<1>2. /\ SectionUnit /\ ParserFacts /\ stage \in {"Vars", "Classes"}
      /\ done \in Nat /\ size \in Nat /\ crc \in Nat /\ Section.size \in Nat
      /\ Content.size \in Nat
  BY <1>1, SectionKnown
<1>3. /\ Section.size >= Frame /\ done < Section.size
      /\ IF done < 20 THEN size = 0 ELSE Frame + size = Section.size
  BY <1>2 DEF SectionUnit
<1>4. \A f \in SectionEnds : f > done => done + n <= f
  <2> DEFINE b == Boundary(SectionEnds)
  <2>1. /\ Demand = [offset |-> Section.offset + done, len |-> b - done]
        /\ b \in Nat /\ b > done
        /\ \A f \in SectionEnds : f > done => b <= f
    BY <1>1, SectionDemand DEF Walking
  <2> HIDE DEF b
  <2>2. done + n <= b
    BY <1>2, <2>1
  <2>3. SectionEnds \in SUBSET Nat
    BY <1>2 DEF SectionEnds, Frame
  <2>4. QED
    BY <1>2, <2>1, <2>2, <2>3
<1>5. /\ 16 > done => done + n <= 16
      /\ 20 > done => done + n <= 20
      /\ 20 + size > done => done + n <= 20 + size
      /\ 22 + size > done => done + n <= 22 + size
      /\ 38 + size > done => done + n <= 38 + size
  BY <1>4 DEF SectionEnds, Frame
<1>6. {"none", "SectionSize", "SectionSentinel", "SectionCrc"} \subseteq Errors
  BY DEF Errors, HeaderErrors
<1>7. CASE FeedSectionStart(n)
  <2>1. /\ done < 16 /\ done' = done + n /\ crc' = 0 /\ stage' = stage /\ size' = size
        /\ sectionUnchanged /\ failure' \in Errors
    BY <1>6, <1>7 DEF FeedSectionStart, Check
  <2>2. done' \in Nat /\ done' < 20 /\ size = 0 /\ done' < Section.size
    BY <1>2, <1>3, <1>5, <2>1 DEF Frame
  <2>3. QED
    BY <1>1, <1>2, <2>1, <2>2, SectionGoesOn
<1>8. CASE FeedSectionSize(n)
  <2>1. /\ done \in 16..19 /\ done' = done + n /\ crc' = crc + n /\ stage' = stage
        /\ size' = (IF done + n = 20 THEN Content.size ELSE size)
        /\ sectionUnchanged /\ failure' \in Errors
        /\ failure' = "none" => (done + n = 20 => Frame + Content.size = Section.size)
    BY <1>6, <1>8 DEF FeedSectionSize, Check
  <2>2. done' \in Nat /\ crc' \in Nat /\ size' \in Nat /\ size = 0 /\ done' <= 20
    BY <1>2, <1>3, <1>5, <2>1
  <2>3. failure' = "none" =>
          done' < Section.size /\ (IF done' < 20 THEN size' = 0 ELSE Frame + size' = Section.size)
    BY <1>2, <1>3, <2>1, <2>2 DEF Frame
  <2>4. QED
    BY <1>1, <2>1, <2>2, <2>3, SectionGoesOn
<1>9. CASE FeedSectionData(n)
  <2>1. /\ done >= 20 /\ done < 20 + size /\ done' = done + n /\ crc' = crc + n /\ stage' = stage
        /\ size' = size /\ sectionUnchanged /\ failure' = failure
    BY <1>9 DEF FeedSectionData
  <2>2. /\ done' \in Nat /\ crc' \in Nat /\ done' >= 20 /\ Frame + size = Section.size
        /\ done' < Section.size
    BY <1>2, <1>3, <1>5, <2>1 DEF Frame
  <2>3. failure' \in Errors
    BY <1>6, <2>1 DEF Walking
  <2>4. QED
    BY <1>1, <1>2, <2>1, <2>2, <2>3, SectionGoesOn
<1>10. CASE FeedSectionCrc(n)
  <2>1. /\ done >= 20 + size /\ done < 22 + size /\ done' = done + n /\ crc' = crc
        /\ stage' = stage /\ size' = size /\ sectionUnchanged /\ failure' \in Errors
    BY <1>6, <1>10 DEF FeedSectionCrc, Check
  <2>2. /\ done' \in Nat /\ done' >= 20 /\ Frame + size = Section.size /\ done' < Section.size
    BY <1>2, <1>3, <1>5, <2>1 DEF Frame
  <2>3. QED
    BY <1>1, <1>2, <2>1, <2>2, SectionGoesOn
<1>11. CASE FeedSectionEnd(n)
  <2>0. done >= 22 + size /\ parser' = parser
    BY <1>11 DEF FeedSectionEnd
  <2>1. CASE /\ Refuse("SectionSentinel")
             /\ UNCHANGED <<cursorVars, commits>>
    <3>1. /\ stage' = stage /\ done' = done /\ size' = size /\ crc' = crc /\ sectionUnchanged
          /\ failure' = "SectionSentinel"
      BY <2>0, <2>1 DEF cursorVars, Refuse, sectionUnchanged
    <3>2. QED
      BY <1>1, <1>2, <1>6, <3>1, SectionGoesOn
  <2>2. CASE /\ done + n < Frame + size
             /\ done' = done + n
             /\ UNCHANGED <<failure, stage, size, crc, head, object, msLen, words, map, commits>>
    <3>1. /\ stage' = stage /\ done' = done + n /\ size' = size /\ crc' = crc /\ sectionUnchanged
          /\ failure' = failure
      BY <2>0, <2>2 DEF sectionUnchanged
    <3>2. done' \in Nat /\ done' >= 20 /\ Frame + size = Section.size /\ done' < Section.size
      BY <1>2, <1>3, <2>0, <2>2, <3>1 DEF Frame
    <3>3. failure' \in Errors
      BY <1>6, <3>1 DEF Walking
    <3>4. QED
      BY <1>1, <1>2, <3>1, <3>2, <3>3, SectionGoesOn
  <2>3. CASE IF stage = "Vars" THEN EnterSection("Classes") ELSE EnterChunk(Map.offset)
    <3>1. parser.phase = "Done" /\ NoRecordHere /\ map = FreshMap /\ parser' \in ParserType
      BY <1>2, <2>0 DEF SectionUnit, Walking, Types
    <3>2. CASE EnterSection("Classes")
      BY <1>2, <2>0, <3>1, <3>2, ParserFactsSame, EnterSectionFine DEF Walking
    <3>3. CASE EnterChunk(Map.offset)
      <4>1. Map.offset \in Nat
        BY <1>2, <3>1, MapFacts DEF Walking, ParserFacts
      <4>2. QED
        BY <1>2, <2>0, <3>1, <3>3, <4>1, EnterChunkFine DEF Walking
    <3>4. QED
      BY <2>3, <3>2, <3>3
  <2>4. QED
    BY <1>11, <2>1, <2>2, <2>3 DEF FeedSectionEnd
<1>12. QED
  BY <1>7, <1>8, <1>9, <1>10, <1>11

----------------------------------------------------------------------------
(* The map's chunks and their entries. *)

\* A step that is refused and changes nothing else.
LEMMA RefusedFine ==
  ASSUME Walking, parser' = parser, UNCHANGED cursorVars, failure' \in Errors \ {"none"}
  PROVE  Fine'
<1>1. /\ stage' = stage /\ done' = done /\ size' = size /\ crc' = crc /\ head' = head
      /\ object' = object /\ msLen' = msLen /\ words' = words /\ map' = map
  BY DEF cursorVars
<1>2. Types'
  BY <1>1 DEF Walking, Types
<1>3. QED
  BY <1>2 DEF Fine

LEMMA MapKnown ==
  ASSUME Walking, stage \in {"Chunk", "Entry", "Object"}
  PROVE  /\ ParserFacts /\ parser.phase = "Done" /\ UnitOk
         /\ Map.offset \in Nat /\ MapEnd \in Nat /\ MapEnd <= file.length /\ file.length \in Nat
         /\ done \in Nat /\ size \in Nat /\ crc \in Nat
         /\ object \in Nat /\ msLen \in 0..4 /\ words \in 0..2
         /\ map \in MapType /\ map.chunk \in Nat /\ map.at \in Nat /\ map.len \in Nat
         /\ MaxChunk \in Nat /\ MaxHandle \in Nat /\ MaxLocation \in Nat
<1>1. ParserFacts /\ UnitOk /\ file \in Files
  BY DEF Walking, WalkOk
<1>2. parser.phase = "Done"
  BY <1>1 DEF UnitOk, ChunkUnit, EntryUnit, ObjectUnit
<1>3. Map.offset \in Nat /\ MapEnd \in Nat /\ MapEnd <= file.length
  BY <1>1, <1>2, MapFacts DEF ParserFacts
<1>4. file.length \in Nat
  BY <1>1, HeaderFile
<1>5. /\ done \in Nat /\ size \in Nat /\ crc \in Nat /\ object \in Nat /\ msLen \in 0..4
      /\ words \in 0..2 /\ map \in MapType
  BY DEF Walking, Types
<1>6. map.chunk \in Nat /\ map.at \in Nat /\ map.len \in Nat
  BY <1>5 DEF MapType
<1>7. QED
  BY <1>1, <1>2, <1>3, <1>4, <1>5, <1>6, BoundsAssumption

\* A step within a chunk, before its checksum is complete.
LEMMA ChunkGoesOn ==
  ASSUME Walking, stage = "Chunk", stage' = stage, map' = map, chunkUnchanged, failure' \in Errors,
         done' \in Nat, size' \in Nat, crc' \in Nat,
         failure' = "none" =>
           IF done' < 2 THEN size' = 0
           ELSE /\ size' = ChunkAt(map.chunk).size /\ size' \in 2..MaxChunk
                /\ map.chunk + size' + 2 <= MapEnd
                /\ done' < size' + 2
  PROVE  Fine'
<1>1. ChunkUnit /\ ParserFacts
  BY DEF Walking, WalkOk, UnitOk
<1>2. /\ parser' = parser /\ head' = head /\ object' = object /\ msLen' = msLen /\ words' = words
  BY DEF chunkUnchanged
<1>3. Types'
  BY <1>2 DEF Walking, Types
<1>4. ASSUME failure' = "none" PROVE WalkOk'
  <2>1. Map' = Map /\ MapEnd' = MapEnd /\ ChunkAt(map.chunk)' = ChunkAt(map.chunk)
    BY FileSame DEF Walking, ChunkAt
  <2>2. ChunkUnit'
    BY <1>1, <1>2, <1>4, <2>1 DEF ChunkUnit, NoRecordHere, FreshHead, FreshMap
  <2>3. QED
    BY <1>1, <1>2, <2>2, ParserFactsSame DEF Walking, WalkOk, UnitOk
<1>5. QED
  BY <1>3, <1>4 DEF Fine

LEMMA VerifiedSame ==
  ASSUME file' = file, VerifiedChunk, map'.chunk = map.chunk, map'.len = map.len
  PROVE  VerifiedChunk' /\ EntriesEnd' = EntriesEnd
<1>1. ChunkAt(map.chunk)' = ChunkAt(map.chunk)
  BY FileSame DEF ChunkAt
<1>2. QED
  BY <1>1, FileSame DEF VerifiedChunk, EntriesEnd

LEMMA ChunkFine ==
  ASSUME Walking, NEW n \in Nat \ {0}, n <= Demand.len,
         FeedChunkSize(n) \/ FeedChunkData(n) \/ FeedChunkCrc(n)
  PROVE  Fine'
<1>1. stage = "Chunk"
  BY DEF FeedChunkSize, FeedChunkData, FeedChunkCrc
<1>2. /\ ParserFacts /\ parser.phase = "Done" /\ UnitOk /\ Map.offset \in Nat /\ MapEnd \in Nat
      /\ done \in Nat /\ size \in Nat /\ crc \in Nat /\ map \in MapType /\ map.chunk \in Nat
      /\ MaxChunk \in Nat
  BY <1>1, MapKnown
<1>3. /\ map = [FreshMap EXCEPT !.chunk = map.chunk]
      /\ map.chunk >= Map.offset /\ map.chunk + 4 <= MapEnd
      /\ IF done < 2 THEN size = 0
         ELSE /\ size = ChunkAt(map.chunk).size /\ size \in 2..MaxChunk
              /\ map.chunk + size + 2 <= MapEnd
              /\ done < size + 2
  BY <1>1, <1>2 DEF UnitOk, ChunkUnit
<1>4. /\ 2 > done => done + n <= 2
      /\ size > done => done + n <= size
      /\ size + 2 > done => done + n <= size + 2
  <2> DEFINE b == Boundary(ChunkEnds)
  <2>1. /\ Demand = [offset |-> map.chunk + done, len |-> b - done]
        /\ b \in Nat /\ b > done
        /\ \A f \in ChunkEnds : f > done => b <= f
    BY <1>1, ChunkDemand DEF Walking
  <2> HIDE DEF b
  <2>2. done + n <= b
    BY <1>2, <2>1
  <2>3. (2 > done => b <= 2) /\ (size > done => b <= size) /\ (size + 2 > done => b <= size + 2)
    BY <2>1 DEF ChunkEnds
  <2>4. QED
    BY <1>2, <2>1, <2>2, <2>3
<1>5. {"none", "MapChunk", "MapCrc"} \subseteq Errors
  BY DEF Errors, HeaderErrors
<1>6. CASE FeedChunkSize(n)
  <2> DEFINE s == ChunkAt(map.chunk).size
  <2>1. /\ done < 2 /\ done' = done + n /\ stage' = stage /\ map' = map /\ chunkUnchanged
    BY <1>6 DEF FeedChunkSize
  <2>2. done' \in Nat /\ done' <= 2 /\ s \in Nat /\ size = 0
    BY <1>2, <1>3, <1>4, <2>1, ChunkFacts DEF Walking
  <2>3. CASE done + n = 2
    <3>1. /\ size' = s /\ crc' = 2 /\ failure' \in Errors
          /\ failure' = "none" => s \in 2..MaxChunk /\ map.chunk + s + 2 <= MapEnd
      BY <1>5, <1>6, <2>3 DEF FeedChunkSize, Check
    <3> HIDE DEF s
    <3>2. size' \in Nat /\ crc' \in Nat
      BY <2>2, <3>1
    <3>3. failure' = "none" =>
            /\ size' = s /\ size' \in 2..MaxChunk /\ map.chunk + size' + 2 <= MapEnd
            /\ done' < size' + 2 /\ ~(done' < 2)
      BY <1>2, <2>1, <2>2, <2>3, <3>1
    <3>4. QED
      BY <1>1, <2>1, <2>2, <3>1, <3>2, <3>3, ChunkGoesOn DEF s
  <2>4. CASE done + n # 2
    <3>1. size' = size /\ crc' = crc /\ failure' = failure
      BY <1>6, <2>4 DEF FeedChunkSize
    <3>2. failure' \in Errors /\ done' < 2
      BY <1>2, <1>5, <2>1, <2>2, <2>4, <3>1 DEF Walking
    <3>3. QED
      BY <1>1, <1>2, <2>1, <2>2, <3>1, <3>2, ChunkGoesOn
  <2>5. QED
    BY <2>3, <2>4
<1>7. CASE FeedChunkData(n)
  <2>1. /\ done >= 2 /\ done < size /\ done' = done + n /\ crc' = crc + n /\ stage' = stage
        /\ map' = map /\ size' = size /\ failure' = failure /\ chunkUnchanged
    BY <1>7 DEF FeedChunkData
  <2>2. done' \in Nat /\ crc' \in Nat /\ ~(done' < 2) /\ done' < size + 2 /\ failure' \in Errors
    BY <1>2, <1>4, <1>5, <2>1 DEF Walking
  <2>3. QED
    BY <1>1, <1>2, <1>3, <2>1, <2>2, ChunkGoesOn
<1>8. CASE FeedChunkCrc(n)
  <2>0. /\ done >= 2 /\ done >= size /\ done' = done + n /\ size' = size /\ crc' = crc
        /\ chunkUnchanged
    BY <1>8 DEF FeedChunkCrc
  <2>1. /\ done' \in Nat /\ done' >= 2 /\ size = ChunkAt(map.chunk).size /\ size \in 2..MaxChunk
        /\ map.chunk + size + 2 <= MapEnd
    BY <1>2, <1>3, <2>0
  <2>2. CASE done + n < size + 2 /\ UNCHANGED <<failure, stage, map>>
    <3>1. ~(done' < 2) /\ done' < size + 2 /\ failure' \in Errors
      BY <1>2, <1>5, <2>0, <2>1, <2>2 DEF Walking
    <3>2. QED
      BY <1>1, <1>2, <2>0, <2>1, <2>2, <3>1, ChunkGoesOn
  <2>3. CASE Refuse("MapCrc") /\ UNCHANGED <<stage, map>>
    <3>1. failure' \in Errors /\ failure' # "none" /\ stage' = stage /\ map' = map
      BY <1>5, <2>3 DEF Refuse
    <3>2. QED
      BY <1>1, <1>2, <2>0, <2>1, <3>1, ChunkGoesOn
  <2>4. CASE /\ Check(map.chunk + 4 = MapEnd, "MapChunk")
             /\ stage' = IF map.chunk + 4 = MapEnd THEN "Done" ELSE stage
             /\ UNCHANGED map
    <3>1. CASE map.chunk + 4 = MapEnd
      <4>1. stage' = "Done" /\ failure' = "none" /\ map' = map /\ parser' = parser /\ head' = head
            /\ object' = object /\ msLen' = msLen /\ words' = words
        BY <2>0, <2>4, <3>1 DEF Check, chunkUnchanged
      <4>2. Types'
        BY <1>2, <2>0, <2>1, <4>1 DEF Walking, Types, Stages
      <4>3. WalkOk'
        BY <1>2, <4>1, ParserFactsSame DEF Walking, WalkOk, UnitOk
      <4>4. QED
        BY <1>5, <4>1, <4>2, <4>3 DEF Fine
    <3>2. CASE map.chunk + 4 # MapEnd
      <4>1. stage' = stage /\ failure' = "MapChunk" /\ map' = map
        BY <2>4, <3>2 DEF Check
      <4>2. QED
        BY <1>1, <1>2, <1>5, <2>0, <2>1, <4>1, ChunkGoesOn
    <3>3. QED
      BY <3>1, <3>2
  <2>5. CASE /\ size > 2
             /\ stage' = "Entry"
             /\ map' = [FreshMap EXCEPT !.chunk = map.chunk, !.len = size, !.at = map.chunk + 2]
             /\ UNCHANGED failure
    <3>1. /\ parser' = parser /\ head' = head /\ object' = object /\ msLen' = msLen
          /\ words' = words /\ failure' = "none"
      BY <2>0, <2>5 DEF chunkUnchanged, Walking
    <3>2. /\ map' \in MapType /\ map'.chunk = map.chunk /\ map'.len = size
          /\ map'.at = map.chunk + 2 /\ map'.shift = 0 /\ map'.loc = 0
      <4>1. map' = [chunk |-> map.chunk, len |-> size, at |-> map.chunk + 2, handle |-> 0,
                    loc |-> 0, mc |-> 0, shift |-> 0, field |-> 0]
        BY <2>5 DEF FreshMap
      <4>2. map.chunk + 2 \in Nat /\ 0 \in 0..MaxHandle /\ 0 \in 0..1
        BY <1>2, BoundsAssumption
      <4>3. QED
        BY <1>2, <4>1, <4>2 DEF MapType
    <3>3. Types'
      BY <1>2, <2>0, <2>1, <2>5, <3>1, <3>2 DEF Walking, Types, Stages
    <3>4. Map' = Map /\ MapEnd' = MapEnd
      BY FileSame DEF Walking
    <3>5. VerifiedChunk'
      <4>1. ChunkAt(map.chunk)' = ChunkAt(map.chunk)
        BY <3>2, FileSame DEF Walking, ChunkAt
      <4>2. QED
        BY <1>2, <1>3, <2>1, <2>5, <3>2, <3>4, <4>1 DEF VerifiedChunk
    <3>6. EntryUnit'
      BY <1>2, <2>1, <2>5, <3>1, <3>2, <3>5, BoundsAssumption DEF EntryUnit, EntriesEnd, Shifts
    <3>7. WalkOk'
      BY <1>2, <2>5, <3>1, <3>6, ParserFactsSame DEF Walking, WalkOk, UnitOk
    <3>8. QED
      BY <1>5, <3>1, <3>3, <3>7 DEF Fine
  <2>6. QED
    BY <1>8, <2>2, <2>3, <2>4, <2>5 DEF FeedChunkCrc
<1>9. QED
  BY <1>6, <1>7, <1>8

Doubled(f, x, m) == f = [i \in 0..m |-> IF i = 0 THEN x ELSE 2 * f[i - 1]]

LEMMA DoubledExists ==
  ASSUME NEW x \in Nat, NEW m \in Nat
  PROVE  \E f : Doubled(f, x, m)
<1> DEFINE T == {k \in Nat : \E f : Doubled(f, x, k)}
<1>1. 0 \in T
  <2>1. Doubled([n \in 0..0 |-> x], x, 0)
    BY DEF Doubled
  <2>2. QED
    BY <2>1
<1>2. ASSUME NEW k \in T PROVE k + 1 \in T
  <2>1. PICK f : Doubled(f, x, k)
    BY <1>2
  <2> DEFINE g == [n \in 0..(k + 1) |-> IF n <= k THEN f[n] ELSE 2 * f[k]]
  <2>2. Doubled(g, x, k + 1)
    <3>1. SUFFICES ASSUME NEW n \in 0..(k + 1)
                   PROVE  g[n] = IF n = 0 THEN x ELSE 2 * g[n - 1]
      BY Zenon DEF Doubled
    <3>2. CASE n = 0
      BY <1>2, <2>1, <3>2 DEF Doubled
    <3>3. CASE n \in 1..k
      BY <1>2, <2>1, <3>3 DEF Doubled
    <3>4. CASE n = k + 1
      BY <1>2, <2>1, <3>4 DEF Doubled
    <3>5. QED
      BY <1>2, <3>2, <3>3, <3>4
  <2> HIDE DEF g
  <2>3. QED
    BY <1>2, <2>2
<1>3. T = Nat
  BY <1>1, <1>2, SetInduction, Zenon
<1>4. QED
  BY <1>3

LEMMA ShiftedLeftInNat ==
  ASSUME NEW x \in Nat, NEW m \in Nat
  PROVE  ShiftedLeft(x, m) \in Nat
<1> DEFINE f == CHOOSE g : Doubled(g, x, m)
           T == {k \in Nat : k <= m => f[k] \in Nat}
<1>1. Doubled(f, x, m)
  BY DoubledExists, Zenon
<1>2. ShiftedLeft(x, m) = f[m]
  BY Zenon DEF ShiftedLeft, Doubled
<1> HIDE DEF f
<1>3. 0 \in T
  BY <1>1 DEF Doubled
<1>4. ASSUME NEW k \in T PROVE k + 1 \in T
  <2>1. k + 1 <= m => f[k + 1] = 2 * f[k]
    BY <1>1 DEF Doubled
  <2>2. QED
    BY <2>1
<1>5. T = Nat
  BY <1>3, <1>4, SetInduction, Zenon
<1>6. QED
  BY <1>2, <1>5

LEMMA EntryKnown ==
  ASSUME Walking, stage = "Entry"
  PROVE  /\ EntryUnit /\ ParserFacts /\ parser.phase = "Done" /\ VerifiedChunk
         /\ map \in MapType /\ map.chunk \in Nat /\ map.at \in Nat /\ map.len \in Nat
         /\ map.handle \in Nat /\ map.loc \in Nat /\ map.mc \in Nat /\ map.shift \in Nat
         /\ map.at >= map.chunk + 2 /\ map.at + 1 <= EntriesEnd /\ EntriesEnd \in Nat
         /\ MaxHandle \in Nat /\ MaxLocation \in Nat /\ MaxChunk \in Nat
<1>1. EntryUnit /\ ParserFacts /\ parser.phase = "Done" /\ VerifiedChunk
  BY DEF Walking, WalkOk, UnitOk, EntryUnit
<1>2. /\ map \in MapType /\ MaxHandle \in Nat /\ MaxLocation \in Nat /\ MaxChunk \in Nat
  BY MapKnown
<1>3. /\ map.chunk \in Nat /\ map.at \in Nat /\ map.len \in Nat
      /\ map.handle \in Nat /\ map.loc \in Nat /\ map.mc \in Nat /\ map.shift \in Nat
  BY <1>2 DEF MapType
<1>4. map.at >= map.chunk + 2 /\ map.at + 1 <= EntriesEnd /\ EntriesEnd \in Nat
  BY <1>1, <1>3 DEF EntryUnit, EntriesEnd
<1>5. QED
  BY <1>1, <1>2, <1>3, <1>4

\* A byte of an entry lies in the chunk's data, and its sum is a natural
\* number as long as no group is shifted too far.
LEMMA McFacts ==
  ASSUME Walking, stage = "Entry", map.shift <= 56
  PROVE  Mc \in Nat
<1>1. /\ EntryUnit /\ VerifiedChunk /\ map.chunk \in Nat /\ map.at \in Nat /\ map.len \in Nat
      /\ map.mc \in Nat /\ map.shift \in Nat
      /\ map.at >= map.chunk + 2 /\ map.at + 1 <= EntriesEnd
  BY EntryKnown
<1> DEFINE data == ChunkAt(map.chunk).data
           i == map.at - map.chunk - 1
<1>2. data \in Seq(0..255) /\ map.len <= Len(data) + 2 /\ Len(data) \in Nat
  <2>1. data \in Seq(0..255) /\ ChunkAt(map.chunk).size <= Len(data) + 2
    BY ChunkFacts DEF Walking
  <2>2. QED
    BY <1>1, <2>1 DEF VerifiedChunk
<1> HIDE DEF data
<1>3. i \in 1..Len(data)
  <2>1. map.at + 1 <= map.chunk + map.len
    BY <1>1 DEF EntriesEnd
  <2> DEFINE c == map.chunk
             a == map.at
             l == map.len
  <2>2. a \in Nat /\ c \in Nat /\ l \in Nat /\ a >= c + 2 /\ a + 1 <= c + l
        /\ l <= Len(data) + 2 /\ Len(data) \in Nat
    BY <1>1, <1>2, <2>1
  <2> HIDE DEF a, c, l
  <2>3. a - c - 1 \in 1..Len(data)
    BY <2>2
  <2>4. QED
    BY <2>3 DEF a, c, l
<1>4. Byte \in 0..255
  <2>1. data[i] \in 0..255
    BY <1>2, <1>3, ElementOfSeq
  <2>2. Byte = data[i]
    BY DEF Byte, data
  <2>3. QED
    BY <2>1, <2>2
<1>5. Bits \in Nat
  BY <1>4 DEF Bits
<1>6. ShiftedLeft(Bits, map.shift) \in Nat
  BY <1>1, <1>5, ShiftedLeftInNat
<1>7. QED
  BY <1>1, <1>6 DEF Mc

\* The entry goes on behind another byte of it.
LEMMA EntryGoesOn ==
  ASSUME Walking, stage = "Entry", parser' = parser,
         UNCHANGED <<failure, stage, done, size, crc, head, object, msLen, words>>,
         map.at + 1 < EntriesEnd, NEW mc \in Nat, NEW shift \in {0, map.shift + 7},
         map.shift <= 56, NEW field \in 0..1, NEW handle \in 0..MaxHandle,
         map' = [chunk |-> map.chunk, len |-> map.len, at |-> map.at + 1, handle |-> handle,
                 loc |-> map.loc, mc |-> mc, shift |-> shift, field |-> field]
  PROVE  Fine'
<1>1. /\ EntryUnit /\ ParserFacts /\ parser.phase = "Done" /\ VerifiedChunk
      /\ map.chunk \in Nat /\ map.at \in Nat /\ map.len \in Nat /\ map.loc \in Nat
      /\ map.shift \in Nat /\ map.at >= map.chunk + 2 /\ EntriesEnd \in Nat
  BY EntryKnown
<1>2. map' \in MapType
  BY <1>1 DEF MapType
<1>3. map'.chunk = map.chunk /\ map'.len = map.len /\ map'.at = map.at + 1 /\ map'.loc = map.loc
      /\ map'.shift = shift
  OBVIOUS
<1>4. Types'
  BY <1>2 DEF Walking, Types
<1>5. VerifiedChunk' /\ EntriesEnd' = EntriesEnd
  BY <1>1, <1>3, VerifiedSame DEF Walking
<1>6. shift \in Shifts
  BY <1>1 DEF EntryUnit, Shifts
<1>7. EntryUnit'
  BY <1>1, <1>3, <1>5, <1>6 DEF EntryUnit
<1>8. WalkOk'
  BY <1>1, <1>7, ParserFactsSame DEF Walking, WalkOk, UnitOk
<1>9. QED
  BY <1>4, <1>8 DEF Fine, Walking, Errors, HeaderErrors

LEMMA EntryFine ==
  ASSUME Walking, FeedEntryByte \/ FeedEntryRefused \/ FeedEntryLast
  PROVE  Fine'
<1>1. stage = "Entry" /\ parser' = parser
  BY DEF FeedEntryByte, FeedEntryRefused, FeedEntryLast, entryUnchanged
<1>2. /\ EntryUnit /\ ParserFacts /\ parser.phase = "Done" /\ VerifiedChunk
      /\ map \in MapType /\ map.chunk \in Nat /\ map.at \in Nat /\ map.len \in Nat
      /\ map.handle \in Nat /\ map.loc \in Nat /\ map.mc \in Nat /\ map.shift \in Nat
      /\ map.at >= map.chunk + 2 /\ map.at + 1 <= EntriesEnd /\ EntriesEnd \in Nat
      /\ MaxHandle \in Nat /\ MaxLocation \in Nat
  BY <1>1, EntryKnown
<1>3. map.handle \in 0..MaxHandle /\ map.field \in 0..1
  BY <1>2 DEF MapType
<1>4. map = [chunk |-> map.chunk, len |-> map.len, at |-> map.at, handle |-> map.handle,
             loc |-> map.loc, mc |-> map.mc, shift |-> map.shift, field |-> map.field]
  BY <1>2 DEF MapType
<1>5. CASE FeedEntryByte
  <2>1. /\ map.shift <= 56 /\ map.at + 1 < EntriesEnd /\ Mc \in Nat
        /\ UNCHANGED <<failure, stage, done, size, crc, head, object, msLen, words>>
    BY <1>1, <1>5, McFacts DEF FeedEntryByte
  <2>2. CASE map' = [NextByte EXCEPT !.mc = Mc, !.shift = @ + 7]
    <3>1. map' = [chunk |-> map.chunk, len |-> map.len, at |-> map.at + 1,
                  handle |-> map.handle, loc |-> map.loc, mc |-> Mc, shift |-> map.shift + 7,
                  field |-> map.field]
      BY <1>4, <2>2 DEF NextByte
    <3>2. map.shift + 7 \in {0, map.shift + 7}
      OBVIOUS
    <3>3. QED
      BY <1>1, <1>3, <2>1, <3>1, <3>2, EntryGoesOn
  <2>3. CASE /\ HandleFits
             /\ map' = [NextByte EXCEPT !.mc = 0, !.shift = 0, !.field = 1, !.handle = @ + Mc]
    <3>1. map' = [chunk |-> map.chunk, len |-> map.len, at |-> map.at + 1,
                  handle |-> map.handle + Mc, loc |-> map.loc, mc |-> 0, shift |-> 0,
                  field |-> 1]
      BY <1>4, <2>3 DEF NextByte
    <3>2. map.handle + Mc \in 0..MaxHandle /\ 0 \in {0, map.shift + 7} /\ 1 \in 0..1 /\ 0 \in Nat
      BY <1>2, <2>1, <2>3 DEF HandleFits
    <3>3. QED
      BY <1>1, <2>1, <3>1, <3>2, EntryGoesOn
  <2>4. QED
    BY <1>5, <2>2, <2>3 DEF FeedEntryByte
<1>6. CASE FeedEntryRefused
  <2>1. UNCHANGED cursorVars /\ failure' = "MapEntry"
    BY <1>6 DEF FeedEntryRefused, Refuse
  <2>2. "MapEntry" \in Errors \ {"none"}
    BY DEF Errors
  <2>3. QED
    BY <1>1, <2>1, <2>2, RefusedFine
<1>7. CASE FeedEntryLast
  <2>1. /\ Location \in 0..MaxLocation /\ EnterObject(Location)
        /\ map' = [NextByte EXCEPT !.mc = 0, !.shift = 0, !.field = 0, !.loc = Location]
    BY <1>7 DEF FeedEntryLast
  <2>2. map' = [chunk |-> map.chunk, len |-> map.len, at |-> map.at + 1,
                handle |-> map.handle, loc |-> Location, mc |-> 0, shift |-> 0, field |-> 0]
    BY <1>4, <2>1 DEF NextByte
  <2>3. map' \in MapType
    BY <1>2, <1>3, <2>1, <2>2 DEF MapType
  <2>4. /\ map'.chunk = map.chunk /\ map'.len = map.len /\ map'.at = map.at + 1
        /\ map'.loc = Location /\ map'.mc = 0 /\ map'.shift = 0 /\ map'.field = 0
    BY <2>2
  <2>5. VerifiedChunk' /\ EntriesEnd' = EntriesEnd
    BY <1>2, <2>4, VerifiedSame DEF Walking
  <2>6. map'.at > map'.chunk + 2 /\ map'.at <= EntriesEnd'
    BY <1>2, <2>4, <2>5
  <2>7. QED
    BY <1>1, <1>2, <2>1, <2>3, <2>4, <2>5, <2>6, EnterObjectFine DEF Walking
<1>8. QED
  BY <1>5, <1>6, <1>7

----------------------------------------------------------------------------
(* Records. *)

LEMMA ObjectKnown ==
  ASSUME Walking, stage = "Object"
  PROVE  /\ ObjectUnit /\ ParserFacts /\ parser.phase = "Done" /\ VerifiedChunk
         /\ map \in MapType /\ map.chunk \in Nat /\ map.at \in Nat /\ map.len \in Nat
         /\ done \in Nat /\ size \in Nat /\ crc \in Nat
         /\ object \in Nat /\ msLen \in 0..4 /\ words \in 0..2
         /\ Map.offset \in Nat /\ MapEnd \in Nat /\ file.length \in Nat
<1>1. ObjectUnit /\ ParserFacts /\ parser.phase = "Done" /\ VerifiedChunk
  BY DEF Walking, WalkOk, UnitOk, ObjectUnit
<1>2. QED
  BY <1>1, MapKnown

\* A step within a record, up to its size and behind it.
LEMMA ObjectGoesOn ==
  ASSUME Walking, stage = "Object", stage' = stage, parser' = parser, map' = map,
         object' = object, failure' \in Errors, done' \in Nat, size' \in Nat, crc' \in Nat,
         head' \in [1..HeadBytes -> Nat], msLen' \in 0..4, words' \in 0..2,
         failure' = "none" => IF msLen' = 0 THEN MsUnit' ELSE RecordUnit'
  PROVE  Fine'
<1>1. ObjectUnit /\ ParserFacts /\ parser.phase = "Done" /\ VerifiedChunk /\ map \in MapType
      /\ object \in Nat
  BY ObjectKnown
<1>2. Types'
  BY <1>1 DEF Walking, Types
<1>3. ASSUME failure' = "none" PROVE WalkOk'
  <2>1. VerifiedChunk' /\ EntriesEnd' = EntriesEnd
    BY <1>1, VerifiedSame DEF Walking
  <2>2. HeaderEnd(parser)' = HeaderEnd(parser) /\ InMap(object)' = InMap(object)
    BY FileSame DEF Walking, HeaderEnd, InMap
  <2>3. ObjectUnit'
    BY <1>1, <1>3, <2>1, <2>2 DEF ObjectUnit, Walking
  <2>4. QED
    BY <1>1, <2>3, ParserFactsSame DEF Walking, WalkOk, UnitOk
<1>4. QED
  BY <1>2, <1>3 DEF Fine

LEMMA ObjectSizeFine ==
  ASSUME Walking, NEW n \in Nat \ {0}, n <= Demand.len, FeedObjectSize(n)
  PROVE  Fine'
<1> DEFINE ms == RecordAt(object).words
           word == ms[words + 1]
           s == size + word.bits * 2^(15 * words)
           end == object + done + n + s + 2
<1>1. /\ stage = "Object" /\ msLen = 0 /\ done' = done + n /\ crc' = crc + n /\ stage' = stage
      /\ head' = head /\ parser' = parser /\ map' = map /\ object' = object
  BY DEF FeedObjectSize, recordUnchanged
<1>2. /\ done \in Nat /\ size \in Nat /\ crc \in Nat /\ object \in Nat /\ file.length \in Nat
      /\ Map.offset \in Nat /\ MapEnd \in Nat /\ head \in [1..HeadBytes -> Nat]
      /\ done' \in Nat /\ crc' \in Nat
  BY <1>1, ObjectKnown DEF Walking, Types
<1>3. MsUnit
  BY <1>1, ObjectKnown DEF ObjectUnit
<1>4. words \in {0, 1} /\ done >= 2 * words /\ (words = 1 => ms[1].more)
  BY <1>1, <1>3, ObjectKnown DEF MsUnit
<1>5. done + n <= 2 * words + 2
  <2> DEFINE b == IF msLen = 0 THEN (done - (done % 2)) + 2 ELSE Boundary(RecordEnds)
  <2>1. Demand = [offset |-> object + done, len |-> b - done] /\ b \in Nat /\ b = 2 * words + 2
    BY <1>1, ObjectDemand DEF Walking
  <2> HIDE DEF b
  <2>2. QED
    BY <1>2, <1>4, <2>1
<1>6. {"none", "ObjectSize", "ObjectRange"} \subseteq Errors
  BY DEF Errors, HeaderErrors
<1>7. CASE (done + n) % 2 # 0
  <2>1. size' = size /\ words' = words /\ msLen' = msLen /\ failure' = failure
    BY <1>7 DEF FeedObjectSize
  <2>2. done + n # 2 * words + 2
    BY <1>4, <1>7
  <2>3. MsUnit'
    <3>1. RecordAt(object)' = RecordAt(object)
      BY <1>1, FileSame DEF Walking, RecordAt
    <3>2. QED
      BY <1>1, <1>2, <1>4, <1>5, <2>1, <2>2, <3>1 DEF MsUnit
  <2>4. QED
    BY <1>1, <1>2, <1>4, <1>6, <2>1, <2>3, ObjectGoesOn DEF Walking
<1>8. CASE (done + n) % 2 = 0
  <2>1. /\ size' = s /\ words' = words + 1
        /\ IF word.more THEN Check(words + 1 < 2, "ObjectSize") /\ msLen' = msLen
           ELSE /\ msLen' = done + n
                /\ failure' = IF s = 0 THEN "ObjectSize"
                              ELSE IF end > file.length \/ (object < MapEnd /\ end > Map.offset)
                              THEN "ObjectRange" ELSE "none"
    BY <1>8 DEF FeedObjectSize
  <2>2. done + n = 2 * words + 2
    <3>1. CASE words = 0
      BY <1>2, <1>4, <1>5, <1>8, <3>1
    <3>2. CASE words = 1
      BY <1>2, <1>4, <1>5, <1>8, <3>2
    <3>3. QED
      BY <1>4, <3>1, <3>2
  <2>3. word \in [bits : Nat, more : BOOLEAN]
    <3>1. ms \in Seq([bits : Nat, more : BOOLEAN]) /\ Len(ms) >= 1 /\ (ms[1].more => Len(ms) >= 2)
      BY RecordFacts DEF Walking
    <3> HIDE DEF ms
    <3>2. words + 1 \in 1..Len(ms)
      BY <1>4, <3>1
    <3>3. QED
      BY <3>1, <3>2, ElementOfSeq
  <2>4. s \in Nat
    <3>1. word.bits \in Nat
      BY <2>3
    <3> HIDE DEF word
    <3>2. CASE words = 0
      <4>1. 2^(15 * words) = 1
        BY <3>2
      <4>2. QED
        BY <1>2, <3>1, <4>1
    <3>3. CASE words = 1
      <4>1. 2^(15 * words) = 32768
        BY <3>3
      <4>2. QED
        BY <1>2, <3>1, <4>1
    <3>4. QED
      BY <1>4, <3>2, <3>3
  <2>5. CASE word.more
    <3>1. /\ msLen' = 0 /\ failure' = IF words + 1 < 2 THEN "none" ELSE "ObjectSize"
      BY <1>1, <2>1, <2>5 DEF Check
    <3>2. size' \in Nat /\ words' \in 0..2 /\ failure' \in Errors
      BY <1>4, <1>6, <2>1, <2>4, <3>1
    <3>3. ASSUME failure' = "none" PROVE MsUnit'
      <4>1. words = 0 /\ words' = 1 /\ done' = 2 /\ ms[1].more
        BY <1>1, <1>4, <2>1, <2>2, <2>5, <3>1, <3>3
      <4>2. RecordAt(object)' = RecordAt(object)
        BY <1>1, FileSame DEF Walking, RecordAt
      <4>3. QED
        BY <4>1, <4>2 DEF MsUnit
    <3>4. QED
      BY <1>1, <1>2, <3>1, <3>2, <3>3, ObjectGoesOn
  <2>6. CASE ~word.more
    <3>1. /\ msLen' = 2 * words + 2 /\ words' = words + 1 /\ size' = s
          /\ failure' = IF s = 0 THEN "ObjectSize"
                        ELSE IF end > file.length \/ (object < MapEnd /\ end > Map.offset)
                        THEN "ObjectRange" ELSE "none"
      BY <2>1, <2>2, <2>6
    <3> HIDE DEF s
    <3>2. size' \in Nat /\ words' \in 1..2 /\ msLen' \in {2, 4} /\ failure' \in Errors
      BY <1>4, <1>6, <2>4, <3>1
    <3>3. ASSUME failure' = "none" PROVE RecordUnit'
      <4>1. s # 0 /\ ~(end > file.length) /\ ~(object < MapEnd /\ end > Map.offset)
        BY <3>1, <3>3
      <4>2. end = object + msLen' + size' + 2
        BY <1>2, <1>4, <2>2, <2>4, <3>1
      <4>3. end <= file.length /\ size' > 0 /\ done' = msLen' /\ msLen' = 2 * words'
        BY <1>1, <1>2, <1>4, <2>2, <2>4, <3>1, <4>1
      <4>4. Map' = Map /\ MapEnd' = MapEnd /\ file' = file
        BY FileSame DEF Walking
      <4> HIDE DEF end
      <4>5. QED
        <5>1. /\ words' \in 1..2 /\ msLen' = 2 * words' /\ size' > 0
              /\ object' + msLen' + size' + 2 <= file'.length
              /\ ~(object' < MapEnd' /\ object' + msLen' + size' + 2 > Map'.offset)
              /\ done' >= msLen' /\ done' < msLen' + size' + 2
          <6>1. object' + msLen' + size' + 2 = end /\ object' = object /\ size' \in Nat
                /\ msLen' \in Nat
            BY <1>1, <3>2, <4>2
          <6>2. done' < msLen' + size' + 2
            BY <4>3, <6>1
          <6>3. object' + msLen' + size' + 2 <= file'.length
            BY <4>3, <4>4, <6>1
          <6>4. ~(object' < MapEnd' /\ object' + msLen' + size' + 2 > Map'.offset)
            BY <4>1, <4>4, <6>1
          <6>5. done' >= msLen'
            BY <4>3, <6>1
          <6>6. QED
            BY <3>2, <4>3, <6>2, <6>3, <6>4, <6>5
        <5>2. QED
          BY <5>1 DEF RecordUnit
    <3>4. QED
      BY <1>1, <1>2, <3>2, <3>3, ObjectGoesOn
  <2>7. QED
    BY <2>5, <2>6
<1>9. QED
  BY <1>7, <1>8

LEMMA ObjectBodyFine ==
  ASSUME Walking, NEW n \in Nat \ {0}, n <= Demand.len, FeedObjectBody(n) \/ FeedObjectCrc(n)
  PROVE  Fine'
<1>1. stage = "Object" /\ msLen > 0 /\ parser' = parser
  BY DEF FeedObjectBody, FeedObjectCrc, recordUnchanged
<1>2. /\ ObjectUnit /\ ParserFacts /\ parser.phase = "Done" /\ VerifiedChunk
      /\ map \in MapType /\ map.chunk \in Nat /\ map.at \in Nat /\ map.len \in Nat
      /\ done \in Nat /\ size \in Nat /\ crc \in Nat
      /\ object \in Nat /\ msLen \in 0..4 /\ words \in 0..2
      /\ Map.offset \in Nat /\ MapEnd \in Nat /\ file.length \in Nat
      /\ head \in [1..HeadBytes -> Nat] /\ failure = "none"
  BY <1>1, ObjectKnown DEF Walking, Types
<1>3. RecordUnit
  BY <1>1, <1>2 DEF ObjectUnit
<1>4. /\ msLen + size > done => done + n <= msLen + size
      /\ done + n <= msLen + size + 2
  <2> DEFINE b == IF msLen = 0 THEN (done - (done % 2)) + 2 ELSE Boundary(RecordEnds)
  <2>1. /\ Demand = [offset |-> object + done, len |-> b - done] /\ b \in Nat
        /\ b <= msLen + size + 2 /\ \A f \in RecordEnds : f > done => b <= f
    BY <1>1, ObjectDemand DEF Walking
  <2> HIDE DEF b
  <2>2. msLen + size \in RecordEnds
    BY DEF RecordEnds
  <2>3. done + n <= b
    BY <1>2, <2>1
  <2>4. QED
    BY <1>2, <2>1, <2>2, <2>3
<1>5. /\ {"none", "ObjectCrc", "ObjectHeader", "ObjectHandle"} \subseteq Errors
  BY DEF Errors, HeaderErrors
<1>6. Map' = Map /\ MapEnd' = MapEnd /\ file' = file
  BY FileSame DEF Walking
<1>7. ASSUME done' = done + n, done' < msLen + size + 2, size' = size, words' = words,
             msLen' = msLen, object' = object
      PROVE  RecordUnit' /\ done' \in Nat
  BY <1>2, <1>3, <1>6, <1>7 DEF RecordUnit
<1>8. CASE FeedObjectBody(n)
  <2>1. /\ done < msLen + size /\ done' = done + n /\ crc' = crc + n /\ head' = HeadAfter(n)
        /\ failure' = failure /\ stage' = stage /\ size' = size /\ msLen' = msLen
        /\ words' = words /\ map' = map /\ object' = object
    BY <1>8 DEF FeedObjectBody, recordUnchanged
  <2>2. head' \in [1..HeadBytes -> Nat]
    <3>1. \A i \in 1..HeadBytes : object + msLen + i - 1 \in Nat
      BY <1>2, BoundsAssumption
    <3>2. QED
      BY <1>2, <2>1, <3>1 DEF HeadAfter
  <2>3. done' < msLen + size + 2 /\ crc' \in Nat
    BY <1>2, <1>4, <2>1
  <2>4. RecordUnit' /\ done' \in Nat
    BY <1>7, <2>1, <2>3
  <2>5. QED
    BY <1>1, <1>2, <1>5, <2>1, <2>2, <2>3, <2>4, ObjectGoesOn
<1>9. CASE FeedObjectCrc(n)
  <2>1. CASE /\ done + n < msLen + size + 2
             /\ done' = done + n
             /\ UNCHANGED <<failure, stage, size, crc, head, object, msLen, words, map, commits>>
    <3>1. RecordUnit' /\ done' \in Nat
      BY <1>7, <2>1
    <3>2. QED
      BY <1>1, <1>2, <1>5, <2>1, <3>1, ObjectGoesOn
  <2>2. CASE RecordError # "none" /\ Refuse(RecordError) /\ UNCHANGED <<cursorVars, commits>>
    <3>1. RecordError \in Errors
      BY <1>5 DEF RecordError
    <3>2. failure' \in Errors \ {"none"} /\ UNCHANGED cursorVars
      BY <2>2, <3>1 DEF Refuse
    <3>3. QED
      BY <1>1, <3>2, RefusedFine
  <2>3. CASE map.at = EntriesEnd /\ EnterChunk(map.at + 2)
    <3>1. map.at + 2 \in Nat /\ map.at + 2 >= Map.offset
      <4>1. map.chunk >= Map.offset /\ map.at > map.chunk + 2
        BY <1>2 DEF ObjectUnit, VerifiedChunk
      <4>2. QED
        BY <1>2, <4>1
    <3>2. QED
      BY <1>1, <1>2, <2>3, <3>1, EnterChunkFine DEF Walking
  <2>4. CASE /\ map.at # EntriesEnd
             /\ stage' = "Entry"
             /\ done' = done + n
             /\ UNCHANGED <<failure, size, crc, head, object, msLen, words, map>>
    <3>1. Types'
      BY <1>1, <1>2, <2>4 DEF Walking, Types, Stages
    <3>2. VerifiedChunk' /\ EntriesEnd' = EntriesEnd
      BY <1>2, <2>4, VerifiedSame DEF Walking
    <3>3. map.at < EntriesEnd /\ map.loc <= MaxLocation /\ map.shift = 0 /\ map.at >= map.chunk + 2
      BY <1>2, <2>4 DEF ObjectUnit, EntriesEnd
    <3>4. EntryUnit'
      BY <1>1, <1>2, <2>4, <3>2, <3>3 DEF EntryUnit, Shifts
    <3>5. WalkOk'
      BY <1>1, <1>2, <2>4, <3>4, ParserFactsSame DEF Walking, WalkOk, UnitOk
    <3>6. QED
      BY <1>2, <1>5, <2>4, <3>1, <3>5 DEF Fine
  <2>5. QED
    BY <1>9, <2>1, <2>2, <2>3, <2>4 DEF FeedObjectCrc
<1>10. QED
  BY <1>8, <1>9

----------------------------------------------------------------------------
(* The steps. *)

\* What a checkpoint says of the walk does not change with the walk.
LEMMA ReachableSame ==
  ASSUME file' = file, NEW k
  PROVE  Reachable(k)' <=> Reachable(k)
<1>1. ParserOk(k.parser)' <=> ParserOk(k.parser)
  BY DEF ParserOk, LocatorsOk
<1>2. Replayed(k.parser.filled)' = Replayed(k.parser.filled)
  BY ReplayedSame
<1>3. Locator(PartOf(k.stage))' = Locator(PartOf(k.stage))
  BY FileSame DEF PartOf
<1>4. InVerifiedChunk(k)' <=> InVerifiedChunk(k)
  BY FileSame DEF InVerifiedChunk
<1>5. Consistent(k)' <=> Consistent(k)
  <2>1. ConsistentSection(k)' <=> ConsistentSection(k)
    BY <1>3 DEF ConsistentSection
  <2>2. ConsistentChunk(k)' <=> ConsistentChunk(k)
    BY FileSame DEF ConsistentChunk
  <2>3. ConsistentEntry(k)' <=> ConsistentEntry(k)
    BY <1>4 DEF ConsistentEntry
  <2>4. ConsistentObject(k)' <=> ConsistentObject(k)
    BY <1>4, FileSame DEF ConsistentObject
  <2>5. QED
    BY <2>1, <2>2, <2>3, <2>4 DEF Consistent
<1>6. EntryOk(k)' <=> EntryOk(k)
  BY <1>4 DEF EntryOk
<1>7. QED
  BY <1>1, <1>2, <1>5, <1>6, FileSame DEF Reachable

LEMMA FeedKeeps ==
  ASSUME IInv, Feed
  PROVE  IInv'
<1>1. ~Stopped /\ file' = file /\ kept' = kept
  BY DEF Feed
<1>2. Walking
  BY <1>1 DEF IInv, Stopped, Walking
<1>3. PICK scratch \in Scratches :
        FeedBytes(Least(scratch, Least(Demand.len, file.length - Demand.offset)))
  BY DEF Feed
<1> DEFINE n == Least(scratch, Least(Demand.len, file.length - Demand.offset))
<1>4. n \in Nat \ {0} /\ n <= Demand.len /\ FeedBytes(n)
  BY <1>1, <1>3, FedCount
<1> HIDE DEF n
<1>5. Fine'
  <2>1. CASE FeedHeader(n)
    BY <1>2, <1>4, <2>1, FeedHeaderFine
  <2>2. CASE \/ FeedSectionStart(n) \/ FeedSectionSize(n) \/ FeedSectionData(n)
             \/ FeedSectionCrc(n) \/ FeedSectionEnd(n)
    BY <1>2, <1>4, <2>2, SectionFine
  <2>3. CASE FeedChunkSize(n) \/ FeedChunkData(n) \/ FeedChunkCrc(n)
    BY <1>2, <1>4, <2>3, ChunkFine
  <2>4. CASE FeedEntryByte \/ FeedEntryRefused \/ FeedEntryLast
    BY <1>2, <2>4, EntryFine
  <2>5. CASE FeedObjectSize(n)
    BY <1>2, <1>4, <2>5, ObjectSizeFine
  <2>6. CASE FeedObjectBody(n) \/ FeedObjectCrc(n)
    BY <1>2, <1>4, <2>6, ObjectBodyFine
  <2>7. QED
    BY <1>4, <2>1, <2>2, <2>3, <2>4, <2>5, <2>6 DEF FeedBytes
<1>6. CursorType(kept)' /\ Reachable(kept)'
  <2>1. CursorType(kept) /\ Reachable(kept)
    BY DEF IInv
  <2>2. QED
    BY <1>1, <2>1, ReachableSame DEF CursorType
<1>7. QED
  BY <1>1, <1>2, <1>5, <1>6 DEF IInv, Fine, Walking

LEMMA CursorSame ==
  ASSUME file' = file, UNCHANGED <<parser, failure, cursorVars>>, Fine
  PROVE  Fine'
<1>1. /\ stage' = stage /\ done' = done /\ size' = size /\ crc' = crc /\ head' = head
      /\ object' = object /\ msLen' = msLen /\ words' = words /\ map' = map
      /\ parser' = parser /\ failure' = failure
  BY DEF cursorVars
<1>2. Types' /\ failure' \in Errors
  BY <1>1 DEF Fine, Types
<1>3. ASSUME failure' = "none" PROVE WalkOk'
  <2>1. WalkOk
    BY <1>1, <1>3 DEF Fine
  <2>2. ParserFacts'
    BY <1>1, <2>1, ParserFactsSame DEF WalkOk
  <2>3. UnitOk'
    <3>1. HeaderUnit' <=> HeaderUnit
      BY <1>1 DEF HeaderUnit, NoRecordHere
    <3>2. stage \in {"Vars", "Classes"} => (SectionUnit' <=> SectionUnit)
      <4>1. Section' = Section
        BY <1>1, FileSame DEF Section, Part, PartOf
      <4>2. QED
        BY <1>1, <4>1 DEF SectionUnit, NoRecordHere
    <3>3. ChunkUnit' <=> ChunkUnit
      BY <1>1, FileSame DEF ChunkUnit, NoRecordHere
    <3>4. VerifiedChunk' <=> VerifiedChunk
      BY <1>1, FileSame DEF VerifiedChunk
    <3>5. EntryUnit' <=> EntryUnit
      BY <1>1, <3>4 DEF EntryUnit, EntriesEnd
    <3>6. MsUnit' <=> MsUnit
      BY <1>1, FileSame DEF MsUnit
    <3>7. RecordUnit' <=> RecordUnit
      BY <1>1, FileSame DEF RecordUnit
    <3>8. ObjectUnit' <=> ObjectUnit
      BY <1>1, <3>4, <3>6, <3>7, FileSame DEF ObjectUnit, EntriesEnd
    <3>9. QED
      BY <1>1, <2>1, <3>1, <3>2, <3>3, <3>5, <3>8 DEF WalkOk, UnitOk
  <2>4. QED
    BY <2>2, <2>3 DEF WalkOk
<1>4. QED
  BY <1>2, <1>3 DEF Fine

LEMMA SaveKeeps ==
  ASSUME IInv, Save
  PROVE  IInv'
<1>1. /\ file' = file /\ failure = "none" /\ kept' = Cursor
      /\ UNCHANGED <<parser, failure, cursorVars>>
  BY DEF Save
<1>2. Fine'
  BY <1>1, CursorSame DEF IInv, Fine
<1>3. CursorType(Cursor) /\ Reachable(Cursor)
  BY <1>1, CursorTyped, CursorReachable DEF IInv
<1>4. CursorType(kept)' /\ Reachable(kept)'
  <2>1. CursorType(kept)'
    BY <1>1, <1>3 DEF CursorType
  <2>2. Reachable(kept)'
    BY <1>1, <1>3, ReachableSame
  <2>3. QED
    BY <2>1, <2>2
<1>5. QED
  BY <1>1, <1>2, <1>4 DEF IInv, Fine

LEMMA RestartKeeps ==
  ASSUME IInv, Restart
  PROVE  IInv'
<1>1. file' = file /\ kept' = kept
  BY DEF Restart
<1>2. CursorType(kept) /\ Reachable(kept)
  BY DEF IInv
<1>3. CursorType(kept)' /\ Reachable(kept)'
  BY <1>1, <1>2, ReachableSame DEF CursorType
<1>4. CASE ~Restores(kept)
  <2>1. /\ failure' = "InvalidCheckpoint"
        /\ stage' = stage /\ done' = done /\ size' = size /\ crc' = crc /\ head' = head
        /\ object' = object /\ msLen' = msLen /\ words' = words /\ map' = map
        /\ parser' = parser
    BY <1>4 DEF Restart, cursorVars
  <2>2. Types'
    BY <2>1 DEF IInv, Types
  <2>3. QED
    BY <1>1, <1>3, <2>1, <2>2 DEF IInv, Errors
<1>5. CASE Restores(kept)
  <2>1. /\ parser' = kept.parser
        /\ stage' = kept.stage /\ done' = kept.done /\ size' = kept.size
        /\ crc' = kept.crc /\ head' = kept.head /\ object' = kept.object
        /\ msLen' = kept.msLen /\ words' = kept.words /\ map' = kept.map
        /\ commits' = kept.commits /\ failure' = "none"
    BY <1>5 DEF Restart, Restores
  <2>2. Types'
    BY <1>2, <2>1 DEF CursorType, Types
  <2>3. Cursor' = kept
    BY <1>2, <2>1 DEF CursorType, Cursor
  <2>4. Reachable(Cursor)'
    BY <1>1, <1>2, <2>3, ReachableSame
  <2>5. Types' => (Reachable(Cursor)' <=> WalkOk')
    BY CursorReachable, PTL
  <2>6. WalkOk'
    BY <2>2, <2>4, <2>5
  <2>7. QED
    BY <1>1, <1>3, <2>1, <2>2, <2>6 DEF IInv, Errors, HeaderErrors
<1>6. QED
  BY <1>4, <1>5

LEMMA InitIInv == Init => IInv
<1> SUFFICES ASSUME Init PROVE IInv
  OBVIOUS
<1>1. /\ file \in Files /\ parser = NewParser /\ failure = "none" /\ stage = "Header"
      /\ done = 0 /\ size = 0 /\ crc = 0 /\ head = FreshHead
      /\ object = 0 /\ msLen = 0 /\ words = 0 /\ map = FreshMap
  BY DEF Init
<1>2. Types
  <2>1. parser \in ParserType
    BY <1>1, NewParserOk DEF ParserOk
  <2>2. map \in MapType /\ head \in [1..HeadBytes -> Nat]
    BY <1>1, FreshMapTyped, FreshHeadTyped
  <2>3. QED
    BY <1>1, <2>1, <2>2 DEF Types, Stages
<1>3. WalkOk
  <2>1. NewParser.filled = 0 /\ NewParser.phase = "Magic"
    BY DEF NewParser
  <2>2. ParserFacts
    BY <1>1, <2>1, NewParserOk, ReplayedSteps DEF ParserFacts
  <2>3. HeaderUnit
    BY <1>1, <2>1 DEF HeaderUnit, NoRecordHere
  <2>4. QED
    BY <1>1, <2>2, <2>3 DEF WalkOk, UnitOk
<1>4. kept = Cursor
  BY DEF Init, Cursor
<1>5. CursorType(kept) /\ Reachable(kept)
  BY <1>2, <1>3, <1>4, CursorTyped, CursorReachable
<1>6. QED
  BY <1>1, <1>2, <1>3, <1>5 DEF IInv, Errors, HeaderErrors

LEMMA NextKeeps == IInv /\ [Next]_vars => IInv'
<1> SUFFICES ASSUME IInv, [Next]_vars PROVE IInv'
  OBVIOUS
<1>1. CASE Feed
  BY <1>1, FeedKeeps
<1>2. CASE Save
  BY <1>2, SaveKeeps
<1>3. CASE Restart
  BY <1>3, RestartKeeps
<1>4. CASE UNCHANGED vars
  <2>1. file' = file /\ kept' = kept /\ UNCHANGED <<parser, failure, cursorVars>>
    BY <1>4 DEF vars
  <2>2. Fine'
    BY <2>1, CursorSame DEF IInv, Fine
  <2>3. CursorType(kept)' /\ Reachable(kept)'
    BY <2>1, ReachableSame DEF IInv, CursorType
  <2>4. QED
    BY <2>1, <2>2, <2>3 DEF IInv, Fine
<1>5. QED
  BY <1>1, <1>2, <1>3, <1>4 DEF Next

LEMMA Invariant == Spec => []IInv
BY InitIInv, NextKeeps, PTL DEF Spec

----------------------------------------------------------------------------
(* What the runs check, for every value of the constants. *)

\* Beside the cursor: what was committed, by the walk and by its checkpoint.
Committed ==
  /\ commits \in Seq(CommitType) /\ kept.commits \in Seq(CommitType)
  /\ restarts \in 0..MaxRestarts

LEMMA CommitKeeps ==
  ASSUME IInv, commits \in Seq(CommitType), Feed
  PROVE  commits' \in Seq(CommitType)
<1>1. PICK n : FeedBytes(n)
  BY DEF Feed
<1>2. ASSUME NEW record \in CommitType, Commit(record)
      PROVE  commits' \in Seq(CommitType)
  BY <1>2 DEF Commit
<1>3. file \in Files /\ map \in MapType /\ size \in Nat /\ object \in Nat
  BY DEF IInv, Types
<1>4. CASE commits' = commits
  BY <1>4
<1>5. CASE Commit([part |-> "Header"])
  <2>1. [part |-> "Header"] \in CommitType
    BY DEF CommitType
  <2>2. QED
    BY <1>2, <1>5, <2>1
<1>6. CASE inSection /\ Commit([part |-> stage, offset |-> Section.offset + 20, size |-> size])
  <2>1. stage \in {"Vars", "Classes"}
    BY <1>6 DEF inSection
  <2>2. Section.offset \in Nat
    <3>1. Part \in {0, 1}
      BY DEF Part, PartOf
    <3>2. QED
      BY <1>3, <3>1, LocatorTyped DEF Section, LocatorType
  <2>3. [part |-> stage, offset |-> Section.offset + 20, size |-> size] \in CommitType
    BY <1>3, <2>1, <2>2 DEF CommitType
  <2>4. QED
    BY <1>2, <1>6, <2>3
<1>7. CASE Commit([part |-> "Object", handle |-> map.handle, offset |-> object, size |-> size])
  <2>1. map.handle \in 0..MaxHandle
    BY <1>3 DEF MapType
  <2>2. [part |-> "Object", handle |-> map.handle, offset |-> object, size |-> size] \in CommitType
    BY <1>3, <2>1 DEF CommitType
  <2>3. QED
    BY <1>2, <1>7, <2>2
<1>8. QED
  BY <1>1, <1>4, <1>5, <1>6, <1>7
  DEF FeedBytes, FeedHeader, FeedSectionStart, FeedSectionSize, FeedSectionData, FeedSectionCrc,
      FeedSectionEnd, FeedChunkSize, FeedChunkData, FeedChunkCrc, chunkUnchanged, FeedEntryByte,
      FeedEntryRefused, FeedEntryLast, entryUnchanged, FeedObjectSize, FeedObjectBody, FeedObjectCrc

LEMMA CommittedInv == IInv /\ Committed /\ [Next]_vars => Committed'
<1> SUFFICES ASSUME IInv, Committed, [Next]_vars PROVE Committed'
  OBVIOUS
<1>1. CASE Feed
  BY <1>1, CommitKeeps DEF Committed, Feed
<1>2. CASE Save
  BY <1>2, CursorFields DEF Committed, Save
<1>3. CASE Restart
  <2>1. restarts' = restarts + 1 /\ restarts < MaxRestarts /\ kept' = kept
        /\ commits' \in {commits, kept.commits}
    BY <1>3 DEF Restart
  <2>2. restarts' \in 0..MaxRestarts
    BY <2>1, BoundsAssumption DEF Committed
  <2>3. QED
    BY <2>1, <2>2 DEF Committed
<1>4. CASE UNCHANGED vars
  BY <1>4 DEF Committed, vars
<1>5. QED
  BY <1>1, <1>2, <1>3, <1>4 DEF Next

\* The parser, the cursor, the commits and the checkpoint with its own commits
\* have their types, whatever the file holds, however it is read and restarted.
THEOREM TypeCorrect == Spec => []TypeOK
<1>1. Init => Committed
  BY BoundsAssumption DEF Init, Committed
<1>2. IInv /\ Committed => TypeOK
  <2>1. SUFFICES ASSUME CursorType(kept), kept.commits \in Seq(CommitType)
                 PROVE  kept \in CheckpointType
    BY DEF IInv, Types, TypeOK, Committed
  <2>2. QED
    BY <2>1 DEF CursorType, CheckpointType
<1>3. QED
  BY <1>1, <1>2, CommittedInv, Invariant, PTL DEF Spec

\* No demand of the walk reaches outside what it has verified: the section's
\* locator, the map's, or for a record the source outside header and map.
THEOREM DemandBounded == Spec => []DemandInBounds
<1>1. IInv => DemandInBounds
  BY DemandOk
<1>2. QED
  BY <1>1, Invariant, PTL

\* A walk that has not failed, and is not about to refuse an entry of too
\* many groups, can be saved and restored at any byte: its cursor passes
\* `consistent`, and the header's saved bytes replay to its parser.
THEOREM EntryRestores == Spec => []RestorableEntry
<1>1. IInv => RestorableEntry
  <2> SUFFICES ASSUME IInv, map.shift <= 56, failure = "none" PROVE Restores(Cursor)
    BY DEF RestorableEntry, Restorable
  <2>1. Reachable(Cursor) /\ map \in MapType
    BY CursorReachable DEF IInv, Types
  <2>2. Cursor.stage = "Entry" => Consistent(Cursor)
    <3>1. SUFFICES ASSUME Cursor.stage = "Entry"
                   PROVE  Cursor.parser.phase = "Done" /\ ConsistentEntry(Cursor)
      BY DEF Consistent
    <3>2. Cursor.parser.phase = "Done" /\ EntryOk(Cursor) /\ Cursor.map = map
      BY <2>1, <3>1, CursorFields DEF Reachable
    <3>3. map.field \in 0..1 /\ map.shift % 7 = 0
      BY <2>1, <3>2 DEF MapType, EntryOk, Shifts
    <3>4. QED
      BY <3>2, <3>3 DEF EntryOk, ConsistentEntry
  <2>3. QED
    BY <2>1, <2>2 DEF Restores, Reachable
<1>2. QED
  BY <1>1, Invariant, PTL
=============================================================================
