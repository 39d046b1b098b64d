------------------------- MODULE R2004WalkProofs -------------------------
(***************************************************************************)
(* Proofs about R2004Walk for every file, every size of table and every    *)
(* way of reading and resuming.                                            *)
(***************************************************************************)
EXTENDS R2004Walk, FiniteSetTheorems, TLAPS

(* What a file is. *)

LEMMA FileFacts ==
  ASSUME file \in Files
  PROVE  /\ file.sections \in Seq(SectionType) /\ file.pages \in Seq(PageType)
         /\ Len(file.sections) \in Nat /\ DOMAIN file.sections = 1..Len(file.sections)
         /\ Len(file.pages) \in Nat /\ DOMAIN file.pages = 1..Len(file.pages)
         /\ \A i \in DOMAIN file.pages :
              file.pages[i] \in PageType /\ RefAt(file.pages[i]) \in Refs
         /\ \A s \in DOMAIN file.sections :
              /\ file.sections[s] \in SectionType
              /\ file.sections[s].refs \in Seq(Ref)
              /\ DOMAIN file.sections[s].refs = 1..file.sections[s].count
<1>1. file \in FileType
  BY FilesAssumption
<1>2. file.sections \in Seq(SectionType) /\ file.pages \in Seq(PageType)
  BY <1>1 DEF FileType
<1>3. /\ Len(file.sections) \in Nat /\ DOMAIN file.sections = 1..Len(file.sections)
      /\ Len(file.pages) \in Nat /\ DOMAIN file.pages = 1..Len(file.pages)
  BY <1>2
<1>4. \A i \in DOMAIN file.pages : file.pages[i] \in PageType
  BY <1>2
<1>5. \A s \in DOMAIN file.sections : file.sections[s] \in SectionType
  BY <1>2
<1>6. \A s \in DOMAIN file.sections : file.sections[s].refs \in Seq(Ref)
  BY <1>5 DEF SectionType
<1>7. \A s \in DOMAIN file.sections : Len(file.sections[s].refs) = file.sections[s].count
  BY FilesAssumption
<1>8. \A s \in DOMAIN file.sections :
        DOMAIN file.sections[s].refs = 1..file.sections[s].count
  BY <1>6, <1>7
<1>9. \A i \in DOMAIN file.pages : RefAt(file.pages[i]) \in PageRefs(file)
  BY DEF PageRefs
<1>10. PageRefs(file) \subseteq Refs
  BY Zenon DEF Refs
<1>11. QED
  BY <1>2, <1>3, <1>4, <1>5, <1>6, <1>8, <1>9, <1>10

LEMMA RefsAreRefs ==
  ASSUME file \in Files, NEW s \in DOMAIN file.sections,
         NEW j \in DOMAIN file.sections[s].refs
  PROVE  file.sections[s].refs[j] \in Refs
<1> DEFINE of(i) == {file.sections[i].refs[m] : m \in DOMAIN file.sections[i].refs}
<1>1. file.sections[s].refs[j] \in of(s)
  OBVIOUS
<1>2. file.sections[s].refs[j] \in UNION {of(i) : i \in DOMAIN file.sections}
  BY <1>1
<1>3. file.sections[s].refs[j] \in ListedRefs(file)
  BY <1>2, Zenon DEF ListedRefs
<1>4. QED
  BY <1>3, Zenon DEF Refs

LEMMA RisingRefs ==
  ASSUME file \in Files, NEW s \in DOMAIN file.sections,
         NEW i \in DOMAIN file.sections[s].refs, NEW j \in DOMAIN file.sections[s].refs,
         file.sections[s].refs[i] = file.sections[s].refs[j]
  PROVE  i = j
<1> DEFINE refs == file.sections[s].refs
<1>1. /\ DOMAIN refs = 1..file.sections[s].count /\ refs \in Seq(Ref)
      /\ file.sections[s] \in SectionType
  BY FileFacts
<1>2. \A a \in DOMAIN file.sections[s].refs : \A b \in 1..(a - 1) :
        file.sections[s].refs[b].start < file.sections[s].refs[a].start
  BY FilesAssumption
<1>3. \A a \in DOMAIN file.sections[s].refs :
        a \in Nat \ {0} /\ file.sections[s].refs[a].start \in Nat
  <2>1. \A a \in DOMAIN refs : a \in Nat \ {0}
    BY <1>1 DEF SectionType
  <2>2. refs \in Seq(Ref)
    BY <1>1
  <2>3. \A a \in DOMAIN refs : refs[a] \in Ref
    BY <2>2
  <2>4. QED
    BY <2>1, <2>3 DEF Ref
<1>4. i \in Nat \ {0} /\ j \in Nat \ {0}
  BY <1>3
<1>5. ~(i < j)
  BY <1>2, <1>3, <1>4
<1>6. ~(j < i)
  BY <1>2, <1>3, <1>4
<1>7. QED
  BY <1>4, <1>5, <1>6

----------------------------------------------------------------------------
(* Counting. *)

LEMMA RefsReadFinite ==
  ASSUME NEW i, NEW n \in Nat, NEW r
  PROVE  IsFiniteSet(RefsRead(i, n, r))
<1>1. IsFiniteSet(1..n)
  BY FS_Interval
<1>2. RefsRead(i, n, r) \in SUBSET (1..n)
  BY DEF RefsRead
<1>3. QED
  BY <1>1, <1>2, FS_Subset

LEMMA PagesFinite ==
  ASSUME file \in Files, NEW S \in SUBSET DataPages
  PROVE  IsFiniteSet(S)
<1>1. IsFiniteSet(1..Len(file.pages))
  BY FileFacts, FS_Interval
<1>2. S \in SUBSET (1..Len(file.pages))
  BY FileFacts DEF DataPages
<1>3. QED
  BY <1>1, <1>2, FS_Subset

LEMMA NoneRead ==
  ASSUME NEW i, NEW r
  PROVE  Cardinality(RefsRead(i, 0, r)) = 0
<1>1. RefsRead(i, 0, r) = {}
  BY DEF RefsRead
<1>2. QED
  BY <1>1, FS_EmptySet

LEMMA OneMoreRead ==
  ASSUME NEW i, NEW n \in Nat, NEW r
  PROVE  Cardinality(RefsRead(i, n + 1, r)) =
           Cardinality(RefsRead(i, n, r)) + (IF file.sections[i].refs[n + 1] = r THEN 1 ELSE 0)
<1>1. IsFiniteSet(RefsRead(i, n, r)) /\ Cardinality(RefsRead(i, n, r)) \in Nat
  BY RefsReadFinite, FS_CardinalityType
<1>2. n + 1 \notin RefsRead(i, n, r)
  BY DEF RefsRead
<1>3. CASE file.sections[i].refs[n + 1] = r
  <2>1. RefsRead(i, n + 1, r) = RefsRead(i, n, r) \cup {n + 1}
    BY <1>3 DEF RefsRead
  <2>2. QED
    BY <1>1, <1>2, <1>3, <2>1, FS_AddElement
<1>4. CASE file.sections[i].refs[n + 1] # r
  <2>1. RefsRead(i, n + 1, r) = RefsRead(i, n, r)
    BY <1>4 DEF RefsRead
  <2>2. QED
    BY <1>1, <1>4, <2>1
<1>5. QED
  BY <1>3, <1>4

LEMMA NoneFound ==
  ASSUME file \in Files, NEW id, NEW r
  PROVE  Found(id, r, 0) = {} /\ Cardinality(Found(id, r, 0)) = 0
<1>1. Found(id, r, 0) = {}
  BY FileFacts DEF Found, DataPages
<1>2. QED
  BY <1>1, FS_EmptySet

LEMMA OneMoreFound ==
  ASSUME file \in Files, NEW id, NEW r, NEW n \in Nat
  PROVE  Cardinality(Found(id, r, n + 1)) =
           Cardinality(Found(id, r, n)) +
             (IF n + 1 \in DataPages /\ file.pages[n + 1].id = id /\ RefAt(file.pages[n + 1]) = r
              THEN 1 ELSE 0)
<1> DEFINE hit == n + 1 \in DataPages /\ file.pages[n + 1].id = id /\ RefAt(file.pages[n + 1]) = r
<1>1. \A x \in DataPages : x \in Nat /\ (x <= n + 1 <=> x <= n \/ x = n + 1)
  <2>1. \A x \in DataPages : x \in Nat
    BY FileFacts DEF DataPages
  <2>2. QED
    BY <2>1
<1>2. Found(id, r, n) \in SUBSET DataPages
  BY DEF Found
<1>3. IsFiniteSet(Found(id, r, n)) /\ Cardinality(Found(id, r, n)) \in Nat
  BY <1>2, PagesFinite, FS_CardinalityType
<1>4. n + 1 \notin Found(id, r, n)
  BY DEF Found
<1>5. CASE hit
  <2>1. Found(id, r, n + 1) = Found(id, r, n) \cup {n + 1}
    BY <1>1, <1>5 DEF Found
  <2>2. QED
    BY <1>3, <1>4, <1>5, <2>1, FS_AddElement
<1>6. CASE ~hit
  <2>1. Found(id, r, n + 1) = Found(id, r, n)
    BY <1>1, <1>6 DEF Found
  <2>2. QED
    BY <1>3, <1>6, <2>1
<1>7. QED
  BY <1>5, <1>6

LEMMA OneMorePage ==
  ASSUME file \in Files, NEW n \in Nat
  PROVE  Cardinality({i \in DataPages : i <= n + 1}) =
           Cardinality({i \in DataPages : i <= n}) + (IF n + 1 \in DataPages THEN 1 ELSE 0)
<1> DEFINE upTo(m) == {i \in DataPages : i <= m}
<1>1. \A x \in DataPages : x \in Nat /\ (x <= n + 1 <=> x <= n \/ x = n + 1)
  <2>1. \A x \in DataPages : x \in Nat
    BY FileFacts DEF DataPages
  <2>2. QED
    BY <2>1
<1>2. IsFiniteSet(upTo(n)) /\ Cardinality(upTo(n)) \in Nat
  BY PagesFinite, FS_CardinalityType
<1>3. n + 1 \notin upTo(n)
  OBVIOUS
<1>4. CASE n + 1 \in DataPages
  <2>1. upTo(n + 1) = upTo(n) \cup {n + 1}
    BY <1>1, <1>4
  <2>2. Cardinality(upTo(n) \cup {n + 1}) = Cardinality(upTo(n)) + 1
    BY <1>2, <1>3, FS_AddElement
  <2>3. QED
    BY <1>2, <1>4, <2>1, <2>2
<1>5. CASE n + 1 \notin DataPages
  <2>1. upTo(n + 1) = upTo(n)
    BY <1>1, <1>5
  <2>2. QED
    BY <1>2, <1>5, <2>1
<1>6. QED
  BY <1>4, <1>5

----------------------------------------------------------------------------
(* Types. *)

\* The types of the walk's fields, one by one.
Typed ==
  /\ file \in Files
  /\ stage \in Stages /\ maps \in MapsType /\ slots \in Seq(SlotType)
  /\ entry \in Nat /\ peeked \in Nat /\ page \in WalkerType /\ pages \in Nat
  /\ handed \in [DOMAIN file.pages -> Seq(PartType)]
  /\ failure \in BOOLEAN
  /\ Len(slots) <= MaxSections /\ entry <= Len(file.pages) /\ peeked < HeadBytes

LEMMA Sizes ==
  /\ MaxSections \in Nat
  /\ HeadBytes \in Nat \ {0}
  /\ Scratches \subseteq Nat \ {0}
  /\ MaxRestarts \in Nat
BY SizesAssumption

LEMMA Fields == TypeOK => Typed
BY DEF TypeOK, Typed, Now, NowType

LEMMA NowTyped == Typed => Now \in NowType
BY Zenon DEF Typed, Now, NowType

LEMMA DigestFacts ==
  /\ NoDigest \in [Refs -> Nat]
  /\ \A d \in [Refs -> Nat] : \A r \in Refs :
       /\ Mixed(d, r) \in [Refs -> Nat]
       /\ \A q \in Refs : Mixed(d, r)[q] = d[q] + (IF q = r THEN 1 ELSE 0)
  /\ \A d \in [Refs -> Nat] : \A r : Mixed(d, r) \in [Refs -> Nat]
<1>1. NoDigest \in [Refs -> Nat]
  BY DEF NoDigest
<1>2. ASSUME NEW d \in [Refs -> Nat], NEW r
      PROVE  Mixed(d, r) = [q \in Refs |-> IF q = r THEN d[q] + 1 ELSE d[q]]
  BY DEF Mixed
<1>3. \A d \in [Refs -> Nat] : \A r : Mixed(d, r) \in [Refs -> Nat]
  BY <1>2
<1>4. ASSUME NEW d \in [Refs -> Nat], NEW r \in Refs, NEW q \in Refs
      PROVE  Mixed(d, r)[q] = d[q] + (IF q = r THEN 1 ELSE 0)
  BY <1>2
<1>5. QED
  BY <1>1, <1>3, <1>4

LEMMA SlotIs ==
  ASSUME NEW i \in Nat, NEW c \in Nat, NEW m \in Nat \ {0}, NEW n \in Nat,
         NEW a \in [Refs -> Nat], NEW e \in Nat, NEW b \in [Refs -> Nat]
  PROVE  [id |-> i, count |-> c, maxPage |-> m, refs |-> n, listed |-> a, seen |-> e, found |-> b]
           \in SlotType
BY DEF SlotType

LEMMA MapsExcept ==
  ASSUME NEW m \in MapsType, NEW n \in Nat, NEW c \in Nat
  PROVE  /\ [m EXCEPT !.header = TRUE] \in MapsType
         /\ [m EXCEPT !.entries = n] \in MapsType
         /\ [m EXCEPT !.refsLeft = n] \in MapsType
         /\ [m EXCEPT !.sectionIndex = n, !.refsLeft = c] \in MapsType
BY DEF MapsType

LEMMA MixedAt ==
  ASSUME NEW d \in [Refs -> Nat], NEW r \in Refs, NEW q \in Refs, NEW e, e = Mixed(d, r)
  PROVE  e[q] = d[q] + (IF q = r THEN 1 ELSE 0)
BY DigestFacts

LEMMA SlotOfFacts ==
  ASSUME NEW s \in SectionType
  PROVE  SlotOf(s) \in SlotType
<1>1. s.id \in Nat /\ s.count \in Nat /\ s.maxPage \in Nat \ {0}
  BY DEF SectionType
<1>2. QED
  BY <1>1, DigestFacts, 0 \in Nat, Zenon DEF SlotOf, SlotType

\* What a slot becomes when a reference of its section is read.
Listed(slot, r) == [slot EXCEPT !.refs = @ + 1, !.listed = Mixed(@, r)]

LEMMA ListedFacts ==
  ASSUME NEW slot \in SlotType, NEW r, NEW t, t = Listed(slot, r)
  PROVE  /\ t \in SlotType
         /\ t.id = slot.id /\ t.count = slot.count /\ t.maxPage = slot.maxPage
         /\ t.refs = slot.refs + 1 /\ t.listed = Mixed(slot.listed, r)
         /\ t.seen = slot.seen /\ t.found = slot.found
<1>1. slot.refs \in Nat /\ slot.listed \in [Refs -> Nat]
  BY DEF SlotType
<1>2. slot.refs + 1 \in Nat /\ Mixed(slot.listed, r) \in [Refs -> Nat]
  BY <1>1, DigestFacts
<1>3. t = [slot EXCEPT !.refs = slot.refs + 1, !.listed = Mixed(slot.listed, r)]
  BY DEF Listed
<1> DEFINE n == slot.refs + 1
           d == Mixed(slot.listed, r)
<1> HIDE DEF n, d
<1>4. n \in Nat /\ d \in [Refs -> Nat] /\ t = [slot EXCEPT !.refs = n, !.listed = d]
  BY <1>2, <1>3 DEF n, d
<1>5. /\ t \in SlotType
      /\ t.id = slot.id /\ t.count = slot.count /\ t.maxPage = slot.maxPage
      /\ t.refs = n /\ t.listed = d /\ t.seen = slot.seen /\ t.found = slot.found
  BY <1>4 DEF SlotType
<1>6. QED
  BY <1>5 DEF n, d

LEMMA CountedFacts ==
  ASSUME NEW slot \in SlotType, NEW r, NEW t, t = Counted(slot, r)
  PROVE  /\ t \in SlotType
         /\ t.id = slot.id /\ t.count = slot.count /\ t.maxPage = slot.maxPage
         /\ t.seen = slot.seen + 1 /\ t.found = Mixed(slot.found, r)
         /\ t.refs = slot.refs /\ t.listed = slot.listed
<1>1. slot.seen \in Nat /\ slot.found \in [Refs -> Nat]
  BY DEF SlotType
<1>2. slot.seen + 1 \in Nat /\ Mixed(slot.found, r) \in [Refs -> Nat]
  BY <1>1, DigestFacts
<1>3. t = [slot EXCEPT !.seen = slot.seen + 1, !.found = Mixed(slot.found, r)]
  BY DEF Counted
<1> DEFINE n == slot.seen + 1
           d == Mixed(slot.found, r)
<1> HIDE DEF n, d
<1>4. n \in Nat /\ d \in [Refs -> Nat] /\ t = [slot EXCEPT !.seen = n, !.found = d]
  BY <1>2, <1>3 DEF n, d
<1>5. /\ t \in SlotType
      /\ t.id = slot.id /\ t.count = slot.count /\ t.maxPage = slot.maxPage
      /\ t.seen = n /\ t.found = d /\ t.refs = slot.refs /\ t.listed = slot.listed
  BY <1>4 DEF SlotType
<1>6. QED
  BY <1>5 DEF n, d

LEMMA TypedMapReference ==
  ASSUME Typed, file' = file, MapReference
  PROVE  Typed'
<1> DEFINE s == file.sections[maps.sectionIndex]
           r == s.refs[s.count - maps.refsLeft + 1]
<1>1. slots' = [slots EXCEPT ![Len(slots)] = Listed(@, r)]
  BY DEF MapReference, Listed
<1> HIDE DEF r
<1>2. slots' \in Seq(SlotType) /\ Len(slots') = Len(slots)
  <2>1. CASE Len(slots) \in DOMAIN slots
    <3>1. Listed(slots[Len(slots)], r) \in SlotType
      BY <2>1, ListedFacts DEF Typed
    <3>2. QED
      BY <1>1, <2>1, <3>1 DEF Typed
  <2>2. CASE Len(slots) \notin DOMAIN slots
    <3>1. slots \in Seq(SlotType)
      BY DEF Typed
    <3>2. slots' = slots
      BY <1>1, <2>2, <3>1
    <3>3. QED
      BY <3>1, <3>2
  <2>3. QED
    BY <2>1, <2>2
<1>3. maps' \in MapsType
  <2>1. maps \in MapsType /\ maps.refsLeft > 0 /\ maps' = [maps EXCEPT !.refsLeft = maps.refsLeft - 1]
    BY DEF Typed, MapReference
  <2>2. maps.refsLeft \in Nat
    BY <2>1 DEF MapsType
  <2>3. maps.refsLeft - 1 \in Nat
    BY <2>1, <2>2
  <2>4. QED
    BY <2>1, <2>3, MapsExcept
<1>4. QED
  BY <1>2, <1>3 DEF Typed, MapReference

LEMMA TypedMaps ==
  ASSUME Typed, file' = file, Maps
  PROVE  Typed'
<1>1. CASE MapHeader
  BY <1>1 DEF Typed, MapHeader, MapsType
<1>2. CASE MapPage
  <2>1. maps \in MapsType /\ maps' = [maps EXCEPT !.entries = maps.entries + 1]
    BY <1>2 DEF Typed, MapPage
  <2>2. maps.entries + 1 \in Nat
    BY <2>1 DEF MapsType
  <2>3. maps' \in MapsType
    BY <2>1, <2>2, MapsExcept
  <2>4. QED
    BY <1>2, <2>3 DEF Typed, MapPage
<1>3. CASE MapSection
  <2> DEFINE s == file.sections[maps.sectionIndex + 1]
  <2>1. maps.sectionIndex \in Nat /\ maps.sectionIndex < Len(file.sections)
    BY <1>3 DEF Typed, MapsType, MapSection
  <2>2. s \in SectionType
    BY <2>1, FileFacts DEF Typed
  <2>3. maps' \in MapsType
    <3>1. s.count \in Nat
      BY <2>2 DEF SectionType
    <3>2. QED
      <4>1. /\ maps \in MapsType
            /\ maps' = [maps EXCEPT !.sectionIndex = maps.sectionIndex + 1, !.refsLeft = s.count]
        BY <1>3 DEF Typed, MapSection
      <4>2. maps.sectionIndex + 1 \in Nat
        BY <2>1
      <4>3. QED
        BY <3>1, <4>1, <4>2, MapsExcept
  <2>4. slots' \in Seq(SlotType) /\ Len(slots') <= MaxSections /\ failure' \in BOOLEAN
    <3>1. CASE Admits(s)
      <4>1. slots' = Append(slots, SlotOf(s)) /\ failure' = failure
        BY <1>3, <3>1 DEF MapSection
      <4>2. Len(slots) # MaxSections
        BY <3>1 DEF Admits, TableFull
      <4>3. QED
        BY <2>2, <4>1, <4>2, SlotOfFacts, Sizes DEF Typed
    <3>2. CASE ~Admits(s)
      BY <1>3, <3>2 DEF Typed, MapSection, Fail
    <3>3. QED
      BY <3>1, <3>2
  <2>5. QED
    BY <1>3, <2>3, <2>4 DEF Typed, MapSection
<1>4. CASE MapReference
  BY <1>4, TypedMapReference
<1>5. CASE MapFinished
  <2>1. maps' \in MapsType
    BY <1>5 DEF MapFinished, PagesAgain, NewMaps, MapsType
  <2>2. QED
    BY <1>5, <2>1 DEF Typed, MapFinished, Stages
<1>6. CASE MapFails
  BY <1>6 DEF Typed, MapFails, Fail
<1>7. QED
  BY <1>1, <1>2, <1>3, <1>4, <1>5, <1>6 DEF Maps

\* What a header is read of: a data page's.
LEMMA AtHeader ==
  ASSUME Typed, EntrySound(Now), stage \in {"Peek", "Walk"}
  PROVE  /\ entry \in DataPages /\ entry \in DOMAIN file.pages /\ file.pages[entry] \in PageType
         /\ file.pages[entry].number \in Nat /\ file.pages[entry].number > 0
         /\ file.pages[entry].fits /\ entry = maps.entries
<1>1. entry \in DataPages /\ file.pages[entry].fits /\ entry = maps.entries
  BY DEF EntrySound, Now
<1>2. entry \in DOMAIN file.pages /\ ~Skipped(file.pages[entry])
  BY <1>1 DEF DataPages
<1>3. file.pages[entry] \in PageType
  BY <1>2, FileFacts DEF Typed
<1>4. file.pages[entry].number \in Int
  BY <1>3 DEF PageType
<1>5. file.pages[entry].number > 0
  BY <1>2, <1>4 DEF Skipped
<1>6. QED
  BY <1>1, <1>2, <1>3, <1>4, <1>5

LEMMA TypedPeek ==
  ASSUME Typed, EntrySound(Now), file' = file, NEW n \in Nat, PeekPart(n) \/ PeekWhole(n)
  PROVE  Typed'
<1>1. CASE PeekPart(n)
  BY <1>1, Sizes DEF Typed, PeekPart
<1>2. CASE PeekWhole(n)
  <2> DEFINE p == file.pages[entry]
             started == [id |-> p.id, number |-> p.number, start |-> p.start, given |-> 0]
  <2>1. peeked' = 0 /\ UNCHANGED <<maps, entry, pages, handed>>
    BY <1>2 DEF PeekWhole
  <2>2. started \in WalkerType
    <3>1. p.id \in Nat /\ p.start \in Nat /\ p.number \in Nat
      BY <1>2, AtHeader DEF PeekWhole, PageType
    <3>2. QED
      BY <3>1 DEF WalkerType
  <2>3. slots' \in Seq(SlotType) /\ Len(slots') = Len(slots)
    <3>1. CASE slots' = slots
      BY <3>1 DEF Typed
    <3>2. CASE \E i \in DOMAIN slots : slots' = [slots EXCEPT ![i] = Counted(@, RefAt(p))]
      <4>1. PICK i \in DOMAIN slots : slots' = [slots EXCEPT ![i] = Counted(@, RefAt(p))]
        BY <3>2
      <4>2. Counted(slots[i], RefAt(p)) \in SlotType
        BY CountedFacts DEF Typed
      <4>3. QED
        BY <4>1, <4>2 DEF Typed
    <3>3. QED
      BY <1>2, <3>1, <3>2, Zenon DEF PeekWhole
  <2>4. stage' \in {stage, "Walk"} /\ page' \in {page, started} /\ failure' \in {failure, TRUE}
    BY <1>2, Zenon DEF PeekWhole, Fail
  <2>5. QED
    <3>1. page' \in WalkerType /\ stage' \in Stages /\ failure' \in BOOLEAN
      BY <2>2, <2>4 DEF Typed, Stages
    <3>2. 0 < HeadBytes
      BY Sizes
    <3>3. QED
      BY <2>1, <2>3, <3>1, <3>2 DEF Typed
<1>3. QED
  BY <1>1, <1>2

LEMMA TypedPages ==
  ASSUME Typed, file' = file, Pages \/ Verify
  PROVE  Typed'
<1>1. CASE PageFound
  <2>1. maps.entries \in Nat /\ maps.entries < Len(file.pages) /\ Len(file.pages) \in Nat
    BY <1>1, FileFacts DEF Typed, MapsType, PageFound, PageRecord
  <2>2. maps' \in MapsType
    <3>1. maps \in MapsType /\ maps' = [maps EXCEPT !.entries = maps.entries + 1]
      BY <1>1 DEF Typed, PageFound, Passed
    <3>2. maps.entries + 1 \in Nat
      BY <2>1
    <3>3. QED
      BY <3>1, <3>2, MapsExcept
  <2>3. entry' \in {entry, maps.entries + 1} /\ peeked' \in {peeked, 0}
        /\ stage' \in {stage, "Peek"} /\ failure' \in {failure, TRUE}
        /\ UNCHANGED <<slots, page, pages, handed>>
    BY <1>1 DEF PageFound, Fail
  <2>4. entry' \in Nat /\ entry' <= Len(file.pages) /\ peeked' \in Nat /\ peeked' < HeadBytes
    BY <2>1, <2>3, Sizes DEF Typed
  <2>5. QED
    BY <2>2, <2>3, <2>4 DEF Typed, Stages
<1>2. CASE PagesFinished
  BY <1>2 DEF Typed, PagesFinished, Stages
<1>3. CASE PageData
  <2> DEFINE part == [id |-> page.id, start |-> page.start, part |-> page.given + 1]
  <2>1. page.id \in Nat /\ page.start \in Nat /\ page.given \in Nat
    BY DEF Typed, WalkerType
  <2>2. part \in PartType
    BY <2>1 DEF PartType
  <2>3. page' \in WalkerType
    BY <1>3 DEF Typed, PageData, WalkerType
  <2>4. handed' \in [DOMAIN file.pages -> Seq(PartType)]
    <3>1. handed' = [handed EXCEPT ![entry] = Append(@, part)]
      BY <1>3 DEF PageData
    <3>2. \A i \in DOMAIN file.pages : Append(handed[i], part) \in Seq(PartType)
      BY <2>2 DEF Typed
    <3>3. QED
      BY <3>1, <3>2 DEF Typed
  <2>5. QED
    BY <1>3, <2>3, <2>4 DEF Typed, PageData
<1>4. CASE PageEnds
  <2>1. entry' = 0 /\ pages' = pages + 1 /\ stage' = "Pages"
        /\ UNCHANGED <<maps, slots, peeked, page, failure, handed>>
    BY <1>4 DEF PageEnds
  <2>2. Len(file.pages) \in Nat
    BY FileFacts DEF Typed
  <2>3. QED
    BY <2>1, <2>2 DEF Typed, Stages
<1>5. CASE PageFails
  BY <1>5 DEF Typed, PageFails, Fail
<1>6. CASE Verify
  BY <1>6 DEF Typed, Verify, Fail, Stages
<1>7. QED
  BY <1>1, <1>2, <1>3, <1>4, <1>5, <1>6 DEF Pages

----------------------------------------------------------------------------
(* Each step of a walk that has not failed leaves it sound: k is the walk  *)
(* before the step, n after.                                               *)

SlotsSound(k)   == \A i \in DOMAIN k.slots : SlotSound(k, i)
PagesSound(k)   == \A i \in DataPages : i <= Taken(k) => PageSound(k, i)
PagesBehind(k)  == {i \in DataPages : i <= Behind(k)}
PagesCounted(k) == k.pages = Cardinality(PagesBehind(k))

Bounds(k) ==
  /\ k.maps.entries <= Len(file.pages)
  /\ Len(k.slots) <= Len(file.sections) /\ Len(k.slots) <= MaxSections
  /\ k.peeked < HeadBytes

DoneSound(k) == k.stage = "Done" => \A i \in DOMAIN k.slots : Matches(k.slots[i])

Table(k) == SlotsSound(k) /\ PagesSound(k) /\ PagesCounted(k) /\ HandedOk(k)

LEMMA SoundParts ==
  ASSUME NEW k
  PROVE  Sound(k) <=> /\ Bounds(k) /\ MapsSound(k) /\ EntrySound(k) /\ WalkSound(k)
                      /\ Table(k) /\ (k.stage = "Maps" => k.pages = 0) /\ DoneSound(k)
BY Zenon DEF Sound, Bounds, Table, SlotsSound, PagesSound, PagesCounted, PagesBehind, DoneSound

LEMMA RecordFields ==
  ASSUME NEW k \in NowType
  PROVE  /\ k.stage \in Stages /\ k.maps \in MapsType
         /\ k.maps.entries \in Nat /\ k.maps.sectionIndex \in Nat /\ k.maps.refsLeft \in Nat
         /\ k.slots \in Seq(SlotType) /\ Len(k.slots) \in Nat
         /\ DOMAIN k.slots = 1..Len(k.slots)
         /\ \A i \in DOMAIN k.slots : k.slots[i] \in SlotType
         /\ k.entry \in Nat /\ k.peeked \in Nat /\ k.pages \in Nat
         /\ k.page \in WalkerType /\ k.page.given \in Nat
         /\ k.handed \in [DOMAIN file.pages -> Seq(PartType)]
<1>1. /\ k.stage \in Stages /\ k.maps \in MapsType /\ k.slots \in Seq(SlotType)
      /\ k.entry \in Nat /\ k.peeked \in Nat /\ k.pages \in Nat /\ k.page \in WalkerType
      /\ k.handed \in [DOMAIN file.pages -> Seq(PartType)]
  BY DEF NowType
<1>2. k.maps.entries \in Nat /\ k.maps.sectionIndex \in Nat /\ k.maps.refsLeft \in Nat
  BY <1>1 DEF MapsType
<1>3. k.page.given \in Nat
  BY <1>1 DEF WalkerType
<1>4. Len(k.slots) \in Nat /\ DOMAIN k.slots = 1..Len(k.slots)
      /\ \A i \in DOMAIN k.slots : k.slots[i] \in SlotType
  BY <1>1
<1>5. QED
  BY <1>1, <1>2, <1>3, <1>4

LEMMA SlotFields ==
  ASSUME NEW slot \in SlotType
  PROVE  /\ slot.id \in Nat /\ slot.count \in Nat /\ slot.refs \in Nat /\ slot.seen \in Nat
         /\ slot.listed \in [Refs -> Nat] /\ slot.found \in [Refs -> Nat]
BY DEF SlotType

LEMMA HandedSame ==
  ASSUME NEW k, NEW n, HandedOk(k), n.handed = k.handed,
         \A i \in DOMAIN file.pages : Due(n, i) = Due(k, i)
  PROVE  HandedOk(n)
BY Zenon DEF HandedOk

LEMMA DueSame ==
  ASSUME NEW k, NEW n, \A i \in DataPages : i <= Behind(n) <=> i <= Behind(k),
         \/ k.stage # "Walk" /\ n.stage # "Walk"
         \/ k.stage = n.stage /\ k.entry = n.entry /\ k.page = n.page
  PROVE  \A i \in DOMAIN file.pages : Due(n, i) = Due(k, i)
<1>1. CASE k.stage # "Walk" /\ n.stage # "Walk"
  BY <1>1 DEF Due
<1>2. CASE k.stage = n.stage /\ k.entry = n.entry /\ k.page = n.page
  BY <1>2 DEF Due
<1>3. QED
  BY <1>1, <1>2

\* A step that moves the walk past no data page leaves what it has found as
\* it was.
LEMMA TableSame ==
  ASSUME NEW k, NEW n, Table(k),
         n.slots = k.slots, n.pages = k.pages, n.handed = k.handed,
         \A i \in DataPages : (i <= Taken(n) <=> i <= Taken(k)) /\ (i <= Behind(n) <=> i <= Behind(k)),
         \A i \in DOMAIN file.pages : Due(n, i) = Due(k, i)
  PROVE  Table(n)
<1>1. SlotsSound(n)
  <2>1. ASSUME NEW i \in DOMAIN k.slots
        PROVE  SlotSound(n, i)
    <3>1. SlotSound(k, i)
      BY DEF Table, SlotsSound
    <3>2. \A id, r : Found(id, r, Taken(n)) = Found(id, r, Taken(k))
      BY DEF Found
    <3>3. QED
      BY <3>1, <3>2 DEF SlotSound
  <2>2. QED
    BY <2>1 DEF SlotsSound
<1>2. PagesSound(n)
  BY DEF Table, PagesSound, PageSound
<1>3. PagesCounted(n)
  <2>1. PagesBehind(n) = PagesBehind(k)
    BY DEF PagesBehind
  <2>2. QED
    BY <2>1 DEF Table, PagesCounted
<1>4. HandedOk(n)
  BY Zenon, HandedSame DEF Table
<1>5. QED
  BY <1>1, <1>2, <1>3, <1>4 DEF Table

LEMMA InMaps ==
  ASSUME NEW k, k.stage = "Maps"
  PROVE  Behind(k) = 0 /\ Taken(k) = 0
BY DEF Behind, Taken

\* Nothing is due of a file whose pages have not been reached.
LEMMA NothingDue ==
  ASSUME file \in Files, NEW k \in NowType, Behind(k) = 0, k.stage # "Walk"
  PROVE  \A i \in DOMAIN file.pages : Due(k, i) = 0
<1>1. \A i \in DOMAIN file.pages : ~(i <= 0)
  BY FileFacts
<1>2. QED
  BY <1>1, Zenon DEF Due

LEMMA MapReadSound ==
  ASSUME file \in Files, NEW k \in NowType, NEW n \in NowType, Sound(k), Bounds(n),
         k.stage = "Maps", n.stage = "Maps",
         n.slots = k.slots, n.entry = k.entry, n.peeked = k.peeked, n.pages = k.pages,
         n.handed = k.handed,
         n.maps.sectionIndex = k.maps.sectionIndex, n.maps.refsLeft = k.maps.refsLeft,
         k.slots = <<>> /\ k.maps.refsLeft = 0 
  PROVE  Sound(n)
<1>1. Table(k) /\ MapsSound(k) /\ EntrySound(k) /\ k.pages = 0
  BY SoundParts
<1>2. Behind(k) = 0 /\ Taken(k) = 0 /\ Behind(n) = 0 /\ Taken(n) = 0
  BY InMaps
<1>3. \A i \in DOMAIN file.pages : Due(k, i) = 0 /\ Due(n, i) = 0
  BY <1>2, NothingDue
<1>5. Table(n)
  BY <1>1, <1>2, <1>3, TableSame
<1>6. MapsSound(n)
  BY <1>1 DEF MapsSound, LastOk
<1>7. EntrySound(n) /\ WalkSound(n) /\ DoneSound(n)
  BY <1>1 DEF EntrySound, WalkSound, DoneSound, Blank
<1>8. QED
  BY <1>1, <1>5, <1>6, <1>7, SoundParts

\* The next section, s, is described.
AddsSection(k, n, s) ==
  /\ k.stage = "Maps" /\ n.stage = "Maps" /\ k.maps.refsLeft = 0
  /\ k.maps.header /\ k.maps.entries = Len(file.pages)
  /\ k.maps.sectionIndex < Len(file.sections) /\ Len(k.slots) < MaxSections
  /\ n.maps.header /\ n.maps.entries = k.maps.entries
  /\ n.maps.sectionIndex = k.maps.sectionIndex + 1
  /\ s = file.sections[k.maps.sectionIndex + 1] /\ n.maps.refsLeft = s.count
  /\ \A i \in DOMAIN k.slots : k.slots[i].id # s.id
  /\ n.slots = Append(k.slots, SlotOf(s))
  /\ n.entry = k.entry /\ n.peeked = k.peeked /\ n.pages = k.pages /\ n.handed = k.handed

LEMMA AddSectionSound ==
  ASSUME file \in Files, NEW k \in NowType, NEW n \in NowType, Sound(k),
         NEW s, AddsSection(k, n, s)
  PROVE  Sound(n)
<1> USE DEF AddsSection
<1> DEFINE last == Len(k.slots) + 1
<1>1. Table(k) /\ MapsSound(k) /\ EntrySound(k) /\ Bounds(k) /\ k.pages = 0
  BY SoundParts
<1>2. Behind(k) = 0 /\ Taken(k) = 0 /\ Behind(n) = 0 /\ Taken(n) = 0
  BY InMaps
<1>3. \A i \in DOMAIN file.pages : Due(k, i) = 0 /\ Due(n, i) = 0
  BY <1>2, NothingDue
<1>4. /\ k.slots \in Seq(SlotType) /\ Len(k.slots) \in Nat /\ DOMAIN k.slots = 1..Len(k.slots)
      /\ Len(n.slots) = last /\ DOMAIN n.slots = 1..last
      /\ n.slots[last] = SlotOf(s) /\ \A i \in 1..Len(k.slots) : n.slots[i] = k.slots[i]
  <2>1. k.slots \in Seq(SlotType) /\ Len(k.slots) \in Nat /\ DOMAIN k.slots = 1..Len(k.slots)
    BY RecordFields
  <2>2. QED
    BY <2>1
<1>5. k.maps.sectionIndex = Len(k.slots)
  BY <1>1 DEF MapsSound
<1>6. s \in SectionType /\ s = file.sections[last] /\ last \in DOMAIN file.sections
  BY <1>4, <1>5, FileFacts
<1>7. Bounds(n)
  BY <1>1, <1>4, <1>6, FileFacts, Sizes DEF Bounds
<1>8. MapsSound(n)
  <2>1. \A i \in 1..Len(k.slots) : n.slots[i].seen = 0 /\ n.slots[i].refs = n.slots[i].count
    <3>1. \A i \in 1..Len(k.slots) : k.slots[i].seen = 0
      BY <1>1, <1>4 DEF MapsSound
    <3>2. \A i \in 1..(Len(k.slots) - 1) : k.slots[i].refs = k.slots[i].count
      BY <1>1 DEF MapsSound
    <3>3. k.slots # <<>> => k.slots[Len(k.slots)].refs = k.slots[Len(k.slots)].count
      <4>1. k.slots # <<>> => Len(k.slots) \in DOMAIN k.slots
        BY <1>4
      <4>2. k.slots # <<>> => k.slots[Len(k.slots)] \in SlotType
        BY <4>1, RecordFields
      <4>3. k.slots # <<>> => k.slots[Len(k.slots)].refs \in Nat
        BY <4>2, SlotFields
      <4>4. QED
        BY <1>1, <4>3 DEF MapsSound, LastOk
    <3>4. QED
      BY <1>4, <3>1, <3>2, <3>3
  <2>2. n.slots[last].seen = 0 /\ n.slots[last].refs = 0 /\ n.slots[last].count = s.count
    BY <1>4 DEF SlotOf
  <2>3. s.count \in Nat
    BY <1>6 DEF SectionType
  <2>4. LastOk(n)
    BY <1>4, <2>2, <2>3 DEF LastOk
  <2>5. \A i \in DOMAIN n.slots : n.slots[i].seen = 0
    BY <1>4, <2>1, <2>2
  <2>6. \A i \in 1..(Len(n.slots) - 1) : n.slots[i].refs = n.slots[i].count
    BY <1>4, <2>1
  <2>7. n.slots # <<>>
    BY <1>4
  <2>8. QED
    BY <1>4, <1>5, <2>4, <2>5, <2>6, <2>7 DEF MapsSound
<1>9. SlotsSound(n)
  <2>1. ASSUME NEW i \in 1..Len(k.slots)
        PROVE  SlotSound(n, i)
    <3>1. SlotSound(k, i)
      BY <1>1, <1>4 DEF Table, SlotsSound
    <3>2. n.slots[i] = k.slots[i] /\ \A j \in 1..(i - 1) : n.slots[j] = k.slots[j]
      BY <1>4
    <3>3. QED
      BY <1>2, <3>1, <3>2 DEF SlotSound
  <2>2. SlotSound(n, last)
    <3>1. /\ n.slots[last].id = s.id /\ n.slots[last].count = s.count
          /\ n.slots[last].maxPage = s.maxPage /\ n.slots[last].refs = 0
          /\ n.slots[last].seen = 0 /\ n.slots[last].found = NoDigest
          /\ n.slots[last].listed = NoDigest
      BY <1>4 DEF SlotOf
    <3>2. 0 <= s.count
      BY <1>6 DEF SectionType
    <3>3. \A j \in 1..(last - 1) : n.slots[j].id # n.slots[last].id
      BY <1>4, <3>1
    <3>4. ASSUME NEW r \in Refs
          PROVE  /\ n.slots[last].listed[r] = Cardinality(RefsRead(last, 0, r))
                 /\ n.slots[last].found[r] = Cardinality(Found(s.id, r, 0))
      BY <3>1, NoneRead, NoneFound DEF NoDigest
    <3>5. QED
      BY <1>2, <1>6, <3>1, <3>2, <3>3, <3>4 DEF SlotSound
  <2>3. QED
    BY <1>4, <2>1, <2>2 DEF SlotsSound
<1>10. PagesSound(n)
  BY <1>2, FileFacts DEF PagesSound, DataPages
<1>11. PagesCounted(n)
  BY <1>1, <1>2 DEF Table, PagesCounted, PagesBehind
<1>12. HandedOk(n)
  BY <1>1, <1>3, HandedSame DEF Table
<1>13. EntrySound(n) /\ WalkSound(n) /\ DoneSound(n)
  BY <1>1 DEF EntrySound, WalkSound, DoneSound, Blank
<1>14. QED
  BY <1>1, <1>7, <1>8, <1>9, <1>10, <1>11, <1>12, <1>13, SoundParts DEF Table

\* The last section, s, has its next reference, r, read.
AddsReference(k, n, s, r) ==
  /\ k.stage = "Maps" /\ n.stage = "Maps" /\ k.maps.refsLeft > 0
  /\ n.maps.header = k.maps.header /\ n.maps.entries = k.maps.entries
  /\ n.maps.sectionIndex = k.maps.sectionIndex
  /\ n.maps.refsLeft = k.maps.refsLeft - 1
  /\ s = file.sections[k.maps.sectionIndex]
  /\ r = s.refs[s.count - k.maps.refsLeft + 1]
  /\ n.slots = [k.slots EXCEPT ![Len(k.slots)] = Listed(@, r)]
  /\ n.entry = k.entry /\ n.peeked = k.peeked /\ n.pages = k.pages /\ n.handed = k.handed

LEMMA AddReferenceSound ==
  ASSUME file \in Files, NEW k \in NowType, NEW n \in NowType, Sound(k),
         NEW s, NEW r, AddsReference(k, n, s, r)
  PROVE  Sound(n)
<1> DEFINE last == Len(k.slots)
           old  == k.slots[last]
           new  == n.slots[last]
<1>0. k.stage = "Maps" /\ n.stage = "Maps" /\ k.maps.refsLeft > 0
  BY DEF AddsReference
<1>1. Table(k) /\ MapsSound(k) /\ EntrySound(k) /\ Bounds(k) /\ k.pages = 0
  BY <1>0, SoundParts
<1>2. Behind(k) = 0 /\ Taken(k) = 0 /\ Behind(n) = 0 /\ Taken(n) = 0
  BY <1>0, InMaps
<1>3. \A i \in DOMAIN file.pages : Due(k, i) = 0 /\ Due(n, i) = 0
  BY <1>0, <1>2, NothingDue
<1>4. k.maps.sectionIndex = last /\ k.slots # <<>> /\ LastOk(k)
  BY <1>0, <1>1 DEF MapsSound, AddsReference
<1>5. /\ k.slots \in Seq(SlotType) /\ last \in Nat /\ last \in DOMAIN k.slots
      /\ DOMAIN k.slots = 1..last /\ old \in SlotType
  <2>1. k.slots \in Seq(SlotType) /\ last \in Nat /\ DOMAIN k.slots = 1..last
    BY RecordFields
  <2>2. last \in DOMAIN k.slots
    BY <1>4, <2>1
  <2>3. QED
    BY <2>1, <2>2, RecordFields
<1>6. Len(n.slots) = last /\ DOMAIN n.slots = 1..last /\ new = Listed(old, r)
      /\ \A i \in 1..(last - 1) : n.slots[i] = k.slots[i]
  <2>1. n.slots = [k.slots EXCEPT ![last] = Listed(old, r)]
    BY DEF AddsReference
  <2>2. QED
    BY <1>5, <2>1
<1> HIDE DEF last, old, new
<1>20. \A i \in DOMAIN n.slots : i = last \/ i \in 1..(last - 1)
  <2>1. last \in Nat
    BY <1>5
  <2>2. DOMAIN n.slots = 1..last
    BY <1>6
  <2>3. QED
    BY <2>1, <2>2
<1>7. SlotSound(k, last) /\ s \in SectionType /\ s = file.sections[last]
      /\ last \in DOMAIN file.sections
  <2>1. SlotSound(k, last)
    BY <1>1, <1>5 DEF Table, SlotsSound
  <2>2. last \in DOMAIN file.sections
    BY <1>1, <1>5, FileFacts DEF Bounds, last
  <2>3. s = file.sections[last]
    BY <1>4 DEF AddsReference
  <2>4. QED
    BY <2>1, <2>2, <2>3, FileFacts
<1>8. /\ new.id = old.id /\ new.count = old.count /\ new.maxPage = old.maxPage
      /\ new.refs = old.refs + 1 /\ new.listed = Mixed(old.listed, r)
      /\ new.seen = old.seen /\ new.found = old.found
  <2>1. old \in SlotType
    BY <1>5
  <2>2. new = Listed(old, r)
    BY <1>6
  <2>3. QED
    BY <2>1, <2>2, ListedFacts
<1>9. /\ old.refs \in Nat /\ old.count \in Nat /\ old.count = s.count
      /\ old.refs + k.maps.refsLeft = s.count /\ k.maps.refsLeft \in Nat
      /\ k.maps.refsLeft > 0
  BY <1>0, <1>4, <1>5, <1>7, RecordFields, SlotFields DEF LastOk, SlotSound, last, old
<1>10. r = s.refs[old.refs + 1] /\ old.refs + 1 \in DOMAIN s.refs /\ r \in Refs
  <2>1. s.count - k.maps.refsLeft + 1 = old.refs + 1
    BY <1>9
  <2>2. old.refs + 1 \in DOMAIN s.refs
    <3>1. DOMAIN s.refs = 1..s.count
      BY <1>7, FileFacts
    <3>2. QED
      BY <1>9, <3>1
  <2>3. r = s.refs[old.refs + 1]
    BY <2>1 DEF AddsReference
  <2>4. QED
    BY <1>7, <2>2, <2>3, RefsAreRefs
<1>11. SlotSound(n, last)
  <2>1. /\ new.id = s.id /\ new.count = s.count /\ new.maxPage = s.maxPage
        /\ new.seen = 0 => new.found = NoDigest
    BY <1>7, <1>8 DEF SlotSound, old
  <2>2. new.refs <= s.count
    BY <1>8, <1>9
  <2>3. \A j \in 1..(last - 1) : n.slots[j].id # new.id
    BY <1>6, <1>7, <1>8 DEF SlotSound, old
  <2>4. ASSUME NEW q \in Refs
        PROVE  new.listed[q] = Cardinality(RefsRead(last, new.refs, q))
    <3>1. old.listed[q] = Cardinality(RefsRead(last, old.refs, q))
      BY <1>7 DEF SlotSound, old
    <3>2. new.listed[q] = old.listed[q] + (IF q = r THEN 1 ELSE 0)
      <4>1. old.listed \in [Refs -> Nat]
        BY <1>5, SlotFields
      <4>2. QED
        BY <1>8, <1>10, <4>1, MixedAt
    <3>3. Cardinality(RefsRead(last, old.refs + 1, q)) =
            Cardinality(RefsRead(last, old.refs, q)) +
              (IF file.sections[last].refs[old.refs + 1] = q THEN 1 ELSE 0)
      <4>1. old.refs \in Nat
        BY <1>9
      <4>2. QED
        BY <4>1, OneMoreRead
    <3>4. file.sections[last].refs[old.refs + 1] = r
      BY <1>7, <1>10
    <3>5. (IF file.sections[last].refs[old.refs + 1] = q THEN 1 ELSE 0) = (IF q = r THEN 1 ELSE 0)
      BY <3>4
    <3>6. QED
      BY <1>8, <3>1, <3>2, <3>3, <3>5
  <2>5. ASSUME NEW q \in Refs
        PROVE  new.found[q] = Cardinality(Found(new.id, q, Taken(n)))
    BY <1>2, <1>7, <1>8 DEF SlotSound, old
  <2>6. QED
    BY <1>7, <2>1, <2>2, <2>3, <2>4, <2>5 DEF SlotSound, new
<1>12. SlotsSound(n)
  <2>1. ASSUME NEW i \in 1..(last - 1)
        PROVE  SlotSound(n, i)
    <3>1. SlotSound(k, i)
      BY <1>1, <1>5 DEF Table, SlotsSound
    <3>2. n.slots[i] = k.slots[i] /\ \A j \in 1..(i - 1) : n.slots[j] = k.slots[j]
      BY <1>5, <1>6
    <3>3. QED
      BY <1>2, <3>1, <3>2 DEF SlotSound
  <2>2. QED
    BY <1>11, <1>20, <2>1 DEF SlotsSound
<1>13. MapsSound(n)
  <2>1. \A i \in DOMAIN n.slots : n.slots[i].seen = 0
    <3>1. \A i \in DOMAIN k.slots : k.slots[i].seen = 0
      BY <1>0, <1>1 DEF MapsSound
    <3>2. \A i \in 1..(last - 1) : i \in DOMAIN k.slots
      BY <1>5
    <3>3. new.seen = 0
      BY <1>5, <1>8, <3>1 DEF old
    <3>4. QED
      BY <1>6, <1>20, <3>1, <3>2, <3>3 DEF new
  <2>2. \A i \in 1..(last - 1) : n.slots[i].refs = n.slots[i].count
    <3>1. \A i \in 1..(last - 1) : k.slots[i].refs = k.slots[i].count
      BY <1>0, <1>1 DEF MapsSound, last
    <3>2. QED
      BY <1>6, <3>1
  <2>3. LastOk(n)
    <3>1. new.refs + n.maps.refsLeft = new.count
      <4>1. n.maps.refsLeft = k.maps.refsLeft - 1
        BY DEF AddsReference
      <4>2. QED
        BY <1>8, <1>9, <4>1
    <3>2. n.slots[Len(n.slots)] = new
      BY <1>6 DEF new
    <3>3. QED
      BY <3>1, <3>2 DEF LastOk
  <2>4. n.slots # <<>> /\ k.maps.header /\ k.maps.entries = Len(file.pages)
    BY <1>0, <1>1, <1>4, <1>5, <1>6 DEF MapsSound
  <2>5. QED
    <3>1. n.maps.header /\ n.maps.entries = Len(file.pages) /\ n.maps.sectionIndex = last
      BY <1>4, <2>4 DEF AddsReference
    <3>2. QED
      BY <1>0, <1>6, <2>1, <2>2, <2>3, <2>4, <3>1 DEF MapsSound
<1>14. PagesSound(n)
  BY <1>2, FileFacts DEF PagesSound, DataPages
<1>15. PagesCounted(n)
  BY <1>1, <1>2 DEF Table, PagesCounted, PagesBehind, AddsReference
<1>16. HandedOk(n)
  BY <1>1, <1>3, HandedSame DEF Table, AddsReference
<1>17. EntrySound(n) /\ WalkSound(n) /\ DoneSound(n)
  BY <1>0, <1>1 DEF EntrySound, WalkSound, DoneSound, Blank, AddsReference
<1>18. Bounds(n)
  BY <1>1, <1>6 DEF Bounds, last, AddsReference
<1>19. QED
  BY <1>1, <1>12, <1>13, <1>14, <1>15, <1>16, <1>17, <1>18, SoundParts DEF Table, AddsReference

LEMMA MapsEndSound ==
  ASSUME file \in Files, NEW k \in NowType, NEW n \in NowType, Sound(k),
         k.stage = "Maps", k.maps.refsLeft = 0, k.maps.sectionIndex = Len(file.sections),
         n.stage = "Pages", n.maps = PagesAgain,
         n.slots = k.slots, n.entry = k.entry, n.peeked = k.peeked, n.pages = k.pages,
         n.handed = k.handed
  PROVE  Sound(n)
<1>1. Table(k) /\ MapsSound(k) /\ EntrySound(k) /\ Bounds(k) /\ k.pages = 0
  BY SoundParts
<1>2. n.maps.header /\ n.maps.entries = 0
  BY DEF PagesAgain, NewMaps
<1>3. Behind(k) = 0 /\ Taken(k) = 0 /\ Behind(n) = 0 /\ Taken(n) = 0
  BY <1>2, InMaps DEF Behind, Taken
<1>4. \A i \in DOMAIN file.pages : Due(k, i) = 0 /\ Due(n, i) = 0
  BY <1>3, NothingDue
<1>5. Table(n)
  BY <1>1, <1>3, <1>4, TableSame
<1>6. Len(k.slots) = Len(file.sections) /\ TableWhole(k)
  <2>1. k.maps.sectionIndex = Len(k.slots) /\ LastOk(k)
        /\ \A i \in 1..(Len(k.slots) - 1) : k.slots[i].refs = k.slots[i].count
    BY <1>1 DEF MapsSound
  <2>2. /\ Len(k.slots) \in Nat /\ DOMAIN k.slots = 1..Len(k.slots)
        /\ k.slots \in Seq(SlotType)
        /\ \A i \in DOMAIN k.slots : k.slots[i].refs \in Nat
    BY RecordFields, SlotFields
  <2>3. \A i \in DOMAIN k.slots : i = Len(k.slots) => k.slots[i].refs = k.slots[i].count
    BY <2>1, <2>2 DEF LastOk
  <2>4. \A i \in DOMAIN k.slots : i = Len(k.slots) \/ i \in 1..(Len(k.slots) - 1)
    BY <2>2
  <2>5. QED
    BY <2>1, <2>3, <2>4 DEF TableWhole
<1>7. MapsSound(n)
  BY <1>2, <1>6 DEF MapsSound, TableWhole
<1>8. EntrySound(n) /\ WalkSound(n) /\ DoneSound(n)
  BY <1>1 DEF EntrySound, WalkSound, DoneSound, Blank
<1>9. Bounds(n)
  BY <1>1, <1>2, FileFacts DEF Bounds
<1>10. QED
  BY <1>5, <1>7, <1>8, <1>9, SoundParts

LEMMA DataPageFacts ==
  ASSUME file \in Files
  PROVE  \A i \in DataPages : i \in Nat /\ i >= 1 /\ i <= Len(file.pages) /\ i \in DOMAIN file.pages
BY FileFacts DEF DataPages

\* A record of the page map that is no data page's.
LEMMA PassPageSound ==
  ASSUME file \in Files, NEW k \in NowType, NEW n \in NowType, Sound(k),
         k.stage = "Pages", n.stage = "Pages", k.maps.entries < Len(file.pages),
         Skipped(file.pages[k.maps.entries + 1]),
         n.maps.header = k.maps.header, n.maps.entries = k.maps.entries + 1,
         n.slots = k.slots, n.entry = k.entry, n.peeked = k.peeked, n.pages = k.pages,
         n.handed = k.handed
  PROVE  Sound(n)
<1>1. Table(k) /\ MapsSound(k) /\ EntrySound(k) /\ Bounds(k)
  BY SoundParts
<1>2. k.maps.entries \in Nat /\ Len(file.pages) \in Nat
  BY RecordFields, FileFacts
<1>3. /\ Behind(k) = k.maps.entries /\ Taken(k) = k.maps.entries
      /\ Behind(n) = k.maps.entries + 1 /\ Taken(n) = k.maps.entries + 1
  BY DEF Behind, Taken
<1>4. k.maps.entries + 1 \notin DataPages
  BY DEF DataPages
<1>5. \A i \in DataPages : (i <= Taken(n) <=> i <= Taken(k)) /\ (i <= Behind(n) <=> i <= Behind(k))
  BY <1>2, <1>3, <1>4, DataPageFacts
<1>6. Table(n)
  BY <1>1, <1>5, DueSame, TableSame
<1>7. MapsSound(n) /\ EntrySound(n) /\ WalkSound(n) /\ DoneSound(n) /\ Bounds(n)
  BY <1>1, <1>2 DEF MapsSound, TableWhole, EntrySound, WalkSound, DoneSound, Blank, Bounds
<1>8. QED
  BY <1>6, <1>7, SoundParts

\* A data page's record.
LEMMA OpenPageSound ==
  ASSUME file \in Files, NEW k \in NowType, NEW n \in NowType, Sound(k),
         k.stage = "Pages", n.stage = "Peek", k.maps.entries < Len(file.pages),
         ~Skipped(file.pages[k.maps.entries + 1]), file.pages[k.maps.entries + 1].fits,
         n.maps.header = k.maps.header, n.maps.entries = k.maps.entries + 1,
         n.slots = k.slots, n.entry = k.maps.entries + 1, n.peeked = 0, n.pages = k.pages,
         n.handed = k.handed
  PROVE  Sound(n)
<1>1. Table(k) /\ MapsSound(k) /\ Bounds(k)
  BY SoundParts
<1>2. k.maps.entries \in Nat /\ Len(file.pages) \in Nat
  BY RecordFields, FileFacts
<1>3. /\ Behind(k) = k.maps.entries /\ Taken(k) = k.maps.entries
      /\ Behind(n) = k.maps.entries /\ Taken(n) = k.maps.entries
  BY <1>2 DEF Behind, Taken
<1>4. Table(n)
  BY <1>1, <1>3, DueSame, TableSame
<1>5. n.entry \in DataPages
  BY <1>2, FileFacts DEF DataPages
<1>6. MapsSound(n) /\ EntrySound(n) /\ WalkSound(n) /\ DoneSound(n)
  BY <1>1, <1>5 DEF MapsSound, TableWhole, EntrySound, WalkSound, DoneSound
<1>7. Bounds(n)
  BY <1>1, <1>2, Sizes DEF Bounds
<1>8. QED
  BY <1>4, <1>6, <1>7, SoundParts

LEMMA PagesEndSound ==
  ASSUME file \in Files, NEW k \in NowType, NEW n \in NowType, Sound(k),
         k.stage = "Pages", n.stage = "Verify", k.maps.entries = Len(file.pages),
         n.maps = k.maps, n.slots = k.slots, n.entry = k.entry, n.peeked = k.peeked,
         n.pages = k.pages, n.handed = k.handed
  PROVE  Sound(n)
<1>1. Table(k) /\ MapsSound(k) /\ EntrySound(k) /\ Bounds(k)
  BY SoundParts
<1>2. Behind(k) = Behind(n) /\ Taken(k) = Taken(n)
  BY DEF Behind, Taken
<1>3. Table(n)
  BY <1>1, <1>2, DueSame, TableSame
<1>4. MapsSound(n) /\ EntrySound(n) /\ WalkSound(n) /\ DoneSound(n) /\ Bounds(n)
  BY <1>1 DEF MapsSound, TableWhole, EntrySound, WalkSound, DoneSound, Blank, Bounds
<1>5. QED
  BY <1>3, <1>4, SoundParts

LEMMA PeekPartSound ==
  ASSUME file \in Files, NEW k \in NowType, NEW n \in NowType, Sound(k),
         k.stage = "Peek", n.stage = "Peek", n.peeked < HeadBytes,
         n.maps = k.maps, n.slots = k.slots, n.entry = k.entry,
         n.pages = k.pages, n.handed = k.handed
  PROVE  Sound(n)
<1>1. Table(k) /\ MapsSound(k) /\ EntrySound(k) /\ Bounds(k)
  BY SoundParts
<1>2. Behind(k) = Behind(n) /\ Taken(k) = Taken(n)
  BY DEF Behind, Taken
<1>3. Table(n)
  BY <1>1, <1>2, DueSame, TableSame
<1>4. MapsSound(n) /\ EntrySound(n) /\ WalkSound(n) /\ DoneSound(n) /\ Bounds(n)
  BY <1>1 DEF MapsSound, TableWhole, EntrySound, WalkSound, DoneSound, Bounds
<1>5. QED
  BY <1>3, <1>4, SoundParts

\* The header of the page at hand, p, is taken: slot m has one more found.
TakesHeader(k, n, p, m) ==
  /\ k.stage = "Peek" /\ n.stage = "Walk"
  /\ n.maps = k.maps /\ n.entry = k.entry /\ n.peeked = 0
  /\ n.pages = k.pages /\ n.handed = k.handed
  /\ p = file.pages[k.entry]
  /\ m \in DOMAIN k.slots /\ k.slots[m].id = p.id
  /\ n.slots = [k.slots EXCEPT ![m] = Counted(@, RefAt(p))]
  /\ n.page = [id |-> p.id, number |-> p.number, start |-> p.start, given |-> 0]

LEMMA TakeHeaderSound ==
  ASSUME file \in Files, NEW k \in NowType, NEW n \in NowType, Sound(k),
         NEW p, NEW m, TakesHeader(k, n, p, m)
  PROVE  Sound(n)
<1> DEFINE old == k.slots[m]
           new == n.slots[m]
           e   == k.entry - 1
<1>1. Table(k) /\ MapsSound(k) /\ EntrySound(k) /\ Bounds(k)
  BY SoundParts
<1>2. k.stage = "Peek" /\ n.stage = "Walk" /\ n.entry = k.entry /\ n.maps = k.maps
      /\ p = file.pages[k.entry] /\ m \in DOMAIN k.slots /\ old.id = p.id
  BY DEF TakesHeader
<1>3. k.entry \in DataPages /\ p.fits /\ k.entry = k.maps.entries
  BY <1>1, <1>2 DEF EntrySound
<1>4. k.entry \in Nat /\ k.entry >= 1 /\ k.entry \in DOMAIN file.pages /\ e \in Nat
      /\ e + 1 = k.entry
  BY <1>3, DataPageFacts
<1>5. RefAt(p) \in Refs /\ p \in PageType
  BY <1>2, <1>4, FileFacts
<1>6. Behind(k) = e /\ Taken(k) = e /\ Behind(n) = e /\ Taken(n) = e + 1
  BY <1>2, <1>4 DEF Behind, Taken
<1>7. old \in SlotType /\ k.slots \in Seq(SlotType)
  BY <1>2, RecordFields
<1>8. /\ Len(n.slots) = Len(k.slots) /\ DOMAIN n.slots = DOMAIN k.slots
      /\ new = Counted(old, RefAt(p))
      /\ \A i \in DOMAIN k.slots : i # m => n.slots[i] = k.slots[i]
  <2>1. n.slots = [k.slots EXCEPT ![m] = Counted(old, RefAt(p))]
    BY DEF TakesHeader
  <2>2. QED
    BY <1>2, <1>7, <2>1
<1> HIDE DEF old, new, e
<1>9. /\ new.id = old.id /\ new.count = old.count /\ new.maxPage = old.maxPage
      /\ new.seen = old.seen + 1 /\ new.found = Mixed(old.found, RefAt(p))
      /\ new.refs = old.refs /\ new.listed = old.listed
  <2>1. new = Counted(old, RefAt(p))
    BY <1>8
  <2>2. QED
    BY <1>7, <2>1, CountedFacts
<1>10. \A i \in DOMAIN k.slots : n.slots[i].id = k.slots[i].id
  BY <1>8, <1>9 DEF old, new
<1>11. \A i \in DOMAIN k.slots : i # m => k.slots[i].id # p.id
  <2>1. \A i \in DOMAIN k.slots : \A j \in 1..(i - 1) : k.slots[j].id # k.slots[i].id
    BY <1>1 DEF Table, SlotsSound, SlotSound
  <2>2. DOMAIN k.slots = 1..Len(k.slots) /\ Len(k.slots) \in Nat
    BY RecordFields
  <2>3. ASSUME NEW i \in DOMAIN k.slots, i # m
        PROVE  k.slots[i].id # k.slots[m].id
    <3>1. i \in Nat \ {0} /\ m \in Nat \ {0}
      BY <1>2, <2>2
    <3>2. CASE i < m
      <4>1. i \in 1..(m - 1)
        BY <3>1, <3>2
      <4>2. QED
        BY <1>2, <2>1, <4>1
    <3>3. CASE m < i
      <4>1. m \in 1..(i - 1)
        BY <3>1, <3>3
      <4>2. QED
        BY <2>1, <4>1
    <3>4. QED
      BY <2>3, <3>1, <3>2, <3>3
  <2>4. QED
    BY <1>2, <2>3 DEF old
<1>12. ASSUME NEW i \in DOMAIN k.slots
       PROVE  SlotSound(n, i)
  <2>1. SlotSound(k, i)
    BY <1>1 DEF Table, SlotsSound
  <2>2. \A j \in 1..(i - 1) : j \in DOMAIN k.slots
    <3>1. DOMAIN k.slots = 1..Len(k.slots) /\ Len(k.slots) \in Nat
      BY RecordFields
    <3>2. QED
      BY <3>1
  <2>3. \A j \in 1..(i - 1) : n.slots[j].id # n.slots[i].id
    BY <1>10, <2>1, <2>2 DEF SlotSound
  <2>4. CASE i = m
    <3>1. ASSUME NEW r \in Refs
          PROVE  new.found[r] = Cardinality(Found(new.id, r, Taken(n)))
      <4>1. old.found[r] = Cardinality(Found(old.id, r, e))
        BY <1>6, <2>1, <2>4 DEF SlotSound, old
      <4>2. new.found[r] = old.found[r] + (IF r = RefAt(p) THEN 1 ELSE 0)
        <5>1. old.found \in [Refs -> Nat]
          BY <1>7, SlotFields
        <5>2. QED
          BY <1>5, <1>9, <5>1, MixedAt
      <4>3. Cardinality(Found(old.id, r, e + 1)) =
              Cardinality(Found(old.id, r, e)) +
                (IF e + 1 \in DataPages /\ file.pages[e + 1].id = old.id
                     /\ RefAt(file.pages[e + 1]) = r THEN 1 ELSE 0)
        BY <1>4, OneMoreFound
      <4>4. e + 1 \in DataPages /\ file.pages[e + 1] = p /\ p.id = old.id
        BY <1>2, <1>3, <1>4
      <4>5. QED
        BY <1>6, <1>9, <4>1, <4>2, <4>3, <4>4
    <3>2. /\ new.id = file.sections[i].id /\ new.count = file.sections[i].count
          /\ new.maxPage = file.sections[i].maxPage /\ new.refs <= file.sections[i].count
      BY <1>9, <2>1, <2>4 DEF SlotSound, old
    <3>3. new.seen # 0
      <4>1. old.seen \in Nat
        BY <1>7, SlotFields
      <4>2. QED
        BY <1>9, <4>1
    <3>4. \A r \in Refs : new.listed[r] = Cardinality(RefsRead(i, new.refs, r))
      BY <1>9, <2>1, <2>4 DEF SlotSound, old
    <3>5. QED
      BY <2>3, <2>4, <3>1, <3>2, <3>3, <3>4 DEF SlotSound, new
  <2>5. CASE i # m
    <3>1. n.slots[i] = k.slots[i] /\ k.slots[i].id # p.id
      BY <1>8, <1>11, <2>5
    <3>2. ASSUME NEW r \in Refs
          PROVE  Cardinality(Found(k.slots[i].id, r, Taken(n))) =
                   Cardinality(Found(k.slots[i].id, r, Taken(k)))
      <4>1. Cardinality(Found(k.slots[i].id, r, e + 1)) =
              Cardinality(Found(k.slots[i].id, r, e)) +
                (IF e + 1 \in DataPages /\ file.pages[e + 1].id = k.slots[i].id
                     /\ RefAt(file.pages[e + 1]) = r THEN 1 ELSE 0)
        BY <1>4, OneMoreFound
      <4>2. file.pages[e + 1].id # k.slots[i].id
        BY <1>2, <1>4, <3>1
      <4>3. Found(k.slots[i].id, r, e) \in SUBSET DataPages
        BY DEF Found
      <4>4. Cardinality(Found(k.slots[i].id, r, e)) \in Nat
        BY <4>3, PagesFinite, FS_CardinalityType
      <4>5. QED
        BY <1>6, <4>1, <4>2, <4>4
    <3>3. QED
      BY <2>1, <2>3, <3>1, <3>2 DEF SlotSound
  <2>6. QED
    BY <2>4, <2>5
<1>13. SlotsSound(n)
  BY <1>8, <1>12 DEF SlotsSound
<1>14. PagesSound(n)
  <2>1. ASSUME NEW i \in DataPages, i <= Taken(n)
        PROVE  PageSound(n, i)
    <3>1. CASE i <= Taken(k)
      <4>1. PageSound(k, i)
        BY <1>1, <3>1 DEF Table, PagesSound
      <4>2. QED
        BY <1>8, <1>10, <4>1 DEF PageSound
    <3>2. CASE ~(i <= Taken(k))
      <4>1. i = k.entry
        BY <1>4, <1>6, <2>1, <3>2, DataPageFacts
      <4>2. n.slots[m].id = file.pages[i].id
        BY <1>2, <1>10, <4>1 DEF old
      <4>3. QED
        BY <1>2, <1>3, <1>8, <4>1, <4>2 DEF PageSound
    <3>3. QED
      BY <3>1, <3>2
  <2>2. QED
    BY <2>1 DEF PagesSound
<1>15. PagesCounted(n)
  <2>1. n.pages = k.pages /\ PagesBehind(n) = PagesBehind(k)
    BY <1>6 DEF TakesHeader, PagesBehind
  <2>2. QED
    BY <1>1, <2>1 DEF Table, PagesCounted
<1>16. HandedOk(n)
  <2>1. ASSUME NEW i \in DOMAIN file.pages
        PROVE  Due(n, i) = Due(k, i)
    <3>1. n.page.given = 0
      BY DEF TakesHeader
    <3>2. CASE i = k.entry
      <4>1. ~(i <= e)
        BY <1>4, <3>2
      <4>2. QED
        BY <1>2, <1>6, <3>1, <3>2, <4>1 DEF Due
    <3>3. CASE i # k.entry
      BY <1>2, <1>6, <3>3 DEF Due
    <3>4. QED
      BY <3>2, <3>3
  <2>2. n.handed = k.handed
    BY DEF TakesHeader
  <2>3. QED
    BY <1>1, <2>1, <2>2, HandedSame DEF Table
<1>17. MapsSound(n)
  <2>1. k.maps.header /\ Len(k.slots) = Len(file.sections) /\ TableWhole(k)
    BY <1>1, <1>2 DEF MapsSound
  <2>2. \A i \in DOMAIN k.slots : n.slots[i].refs = n.slots[i].count
    BY <1>8, <1>9, <2>1 DEF TableWhole, old, new
  <2>3. QED
    BY <1>2, <1>8, <2>1, <2>2 DEF MapsSound, TableWhole
<1>18. EntrySound(n)
  BY <1>2, <1>3 DEF EntrySound
<1>19. WalkSound(n)
  <2>1. n.peeked = 0 /\ n.page.id = p.id /\ n.page.number = p.number /\ n.page.start = p.start
        /\ n.page.given = 0
    BY DEF TakesHeader
  <2>2. 0 <= p.parts
    BY <1>5 DEF PageType
  <2>3. n.slots[m].seen > 0
    <3>1. old.seen \in Nat
      BY <1>7, SlotFields
    <3>2. QED
      BY <1>9, <3>1 DEF new
  <2>4. n.slots[m].id = n.page.id
    BY <1>2, <1>10, <2>1 DEF old
  <2>5. QED
    BY <1>2, <1>8, <2>1, <2>2, <2>3, <2>4 DEF WalkSound
<1>20. Bounds(n) /\ DoneSound(n)
  <2>1. n.peeked = 0
    BY DEF TakesHeader
  <2>2. QED
    BY <1>1, <1>2, <1>8, <2>1, Sizes DEF Bounds, DoneSound
<1>21. QED
  BY <1>2, <1>13, <1>14, <1>15, <1>16, <1>17, <1>18, <1>19, <1>20, SoundParts DEF Table

\* The part of its page handed out next.
NextPart(k) == [id |-> k.page.id, start |-> k.page.start, part |-> k.page.given + 1]

GivesPart(k, n) ==
  /\ k.stage = "Walk" /\ n.stage = "Walk"
  /\ n.maps = k.maps /\ n.slots = k.slots /\ n.entry = k.entry /\ n.peeked = k.peeked
  /\ n.pages = k.pages
  /\ k.page.given < file.pages[k.entry].parts
  /\ n.page = [k.page EXCEPT !.given = @ + 1]
  /\ n.handed = [k.handed EXCEPT ![k.entry] = Append(@, NextPart(k))]

LEMMA OneMorePart ==
  ASSUME NEW i, NEW g \in Nat
  PROVE  Append(Parts(i, g), [id |-> file.pages[i].id, start |-> file.pages[i].start, part |-> g + 1])
           = Parts(i, g + 1)
<1> DEFINE P(m) == [id |-> file.pages[i].id, start |-> file.pages[i].start, part |-> m]
<1>1. Parts(i, g) = [m \in 1..g |-> P(m)] /\ Parts(i, g + 1) = [m \in 1..(g + 1) |-> P(m)]
  BY DEF Parts
<1> HIDE DEF P
<1>2. Append([m \in 1..g |-> P(m)], P(g + 1)) = [m \in 1..(g + 1) |-> P(m)]
  <2> DEFINE s == [m \in 1..g |-> P(m)]
             t == [m \in 1..(g + 1) |-> P(m)]
  <2>1. s \in Seq({P(m) : m \in 1..g}) /\ Len(s) = g
    OBVIOUS
  <2>2. Len(Append(s, P(g + 1))) = g + 1
    BY <2>1
  <2>3. \A m \in 1..(g + 1) : Append(s, P(g + 1))[m] = t[m]
    BY <2>1
  <2>4. Append(s, P(g + 1)) \in Seq({P(m) : m \in 1..(g + 1)}) /\ t \in Seq({P(m) : m \in 1..(g + 1)})
        /\ Len(t) = g + 1
    BY <2>1
  <2>5. QED
    BY <2>2, <2>3, <2>4
<1>3. QED
  BY <1>1, <1>2 DEF P

LEMMA GivePartSound ==
  ASSUME file \in Files, NEW k \in NowType, NEW n \in NowType, Sound(k), GivesPart(k, n)
  PROVE  Sound(n)
<1>1. Table(k) /\ MapsSound(k) /\ EntrySound(k) /\ WalkSound(k) /\ Bounds(k)
  BY SoundParts
<1>2. k.stage = "Walk" /\ n.stage = "Walk" /\ n.entry = k.entry /\ n.slots = k.slots
      /\ n.maps = k.maps /\ n.pages = k.pages /\ n.peeked = k.peeked
  BY DEF GivesPart
<1>3. k.entry \in DataPages /\ k.entry \in Nat /\ k.entry \in DOMAIN file.pages
      /\ k.page.given \in Nat
  BY <1>1, <1>2, DataPageFacts, RecordFields DEF EntrySound
<1>4. /\ n.page.id = k.page.id /\ n.page.number = k.page.number /\ n.page.start = k.page.start
      /\ n.page.given = k.page.given + 1
  <2>1. k.page \in WalkerType /\ n.page = [k.page EXCEPT !.given = k.page.given + 1]
    BY RecordFields DEF GivesPart
  <2>2. QED
    BY <2>1 DEF WalkerType
<1>5. Behind(n) = k.entry - 1 /\ Behind(k) = k.entry - 1 /\ Taken(n) = Taken(k)
  BY <1>2 DEF Behind, Taken
<1>6. SlotsSound(n)
  <2>1. ASSUME NEW i \in DOMAIN k.slots
        PROVE  SlotSound(n, i)
    <3>1. SlotSound(k, i)
      BY <1>1 DEF Table, SlotsSound
    <3>2. QED
      BY <1>2, <1>5, <3>1 DEF SlotSound
  <2>2. QED
    BY <1>2, <2>1 DEF SlotsSound
<1>7. PagesSound(n)
  BY <1>1, <1>2, <1>5 DEF Table, PagesSound, PageSound
<1>8. PagesCounted(n)
  BY <1>1, <1>2, <1>5 DEF Table, PagesCounted, PagesBehind
<1>9. HandedOk(n)
  <2>1. ~(k.entry <= k.entry - 1)
    BY <1>3
  <2>2. Due(k, k.entry) = k.page.given /\ Due(n, k.entry) = k.page.given + 1
    BY <1>2, <1>4, <1>5, <2>1 DEF Due
  <2>3. n.handed = [k.handed EXCEPT ![k.entry] = Append(k.handed[k.entry], NextPart(k))]
    BY DEF GivesPart
  <2>4. k.handed \in [DOMAIN file.pages -> Seq(PartType)]
    BY RecordFields
  <2>5. n.handed[k.entry] = Append(k.handed[k.entry], NextPart(k))
    BY <1>3, <2>3, <2>4
  <2>6. k.handed[k.entry] = Parts(k.entry, k.page.given)
    BY <1>1, <1>3, <2>2 DEF Table, HandedOk
  <2>7. NextPart(k) = [id |-> file.pages[k.entry].id, start |-> file.pages[k.entry].start,
                       part |-> k.page.given + 1]
    BY <1>1, <1>2 DEF WalkSound, NextPart
  <2>8. n.handed[k.entry] = Parts(k.entry, k.page.given + 1)
    BY <1>3, <2>5, <2>6, <2>7, OneMorePart
  <2>9. ASSUME NEW i \in DOMAIN file.pages, i # k.entry
        PROVE  n.handed[i] = Parts(i, Due(n, i))
    <3>1. n.handed[i] = k.handed[i]
      BY <2>3, <2>4, <2>9
    <3>2. Due(n, i) = Due(k, i)
      BY <1>2, <1>5, <2>9 DEF Due
    <3>3. QED
      BY <1>1, <3>1, <3>2 DEF Table, HandedOk
  <2>10. QED
    BY <2>2, <2>8, <2>9 DEF HandedOk
<1>10. WalkSound(n)
  <2>1. k.page.given + 1 <= file.pages[k.entry].parts
    <3>1. file.pages[k.entry].parts \in Nat
      BY <1>3, FileFacts DEF PageType
    <3>2. k.page.given < file.pages[k.entry].parts
      BY DEF GivesPart
    <3>3. QED
      BY <1>3, <3>1, <3>2
  <2>2. QED
    BY <1>1, <1>2, <1>4, <2>1 DEF WalkSound
<1>11. MapsSound(n) /\ EntrySound(n) /\ DoneSound(n) /\ Bounds(n)
  BY <1>1, <1>2 DEF MapsSound, TableWhole, EntrySound, DoneSound, Bounds
<1>12. QED
  BY <1>2, <1>6, <1>7, <1>8, <1>9, <1>10, <1>11, SoundParts DEF Table

LEMMA EndPageSound ==
  ASSUME file \in Files, NEW k \in NowType, NEW n \in NowType, Sound(k),
         k.stage = "Walk", n.stage = "Pages",
         k.page.given = file.pages[k.entry].parts,
         n.maps = k.maps, n.slots = k.slots, n.entry = 0, n.peeked = k.peeked,
         n.pages = k.pages + 1, n.handed = k.handed
  PROVE  Sound(n)
<1> DEFINE e == k.entry - 1
<1>1. Table(k) /\ MapsSound(k) /\ EntrySound(k) /\ WalkSound(k) /\ Bounds(k)
  BY SoundParts
<1>2. k.entry \in DataPages /\ k.entry \in Nat /\ e \in Nat /\ e + 1 = k.entry
      /\ file.pages[k.entry].fits /\ k.entry = k.maps.entries
  BY <1>1, DataPageFacts DEF EntrySound
<1>3. Behind(k) = e /\ Behind(n) = k.entry /\ Taken(k) = k.entry /\ Taken(n) = k.entry
  BY <1>2 DEF Behind, Taken
<1>4. SlotsSound(n)
  <2>1. ASSUME NEW i \in DOMAIN k.slots
        PROVE  SlotSound(n, i)
    <3>1. SlotSound(k, i)
      BY <1>1 DEF Table, SlotsSound
    <3>2. QED
      BY <1>3, <3>1 DEF SlotSound
  <2>2. QED
    BY <2>1 DEF SlotsSound
<1>5. PagesSound(n)
  BY <1>1, <1>3 DEF Table, PagesSound, PageSound
<1>6. PagesCounted(n)
  <2>1. Cardinality({i \in DataPages : i <= e + 1}) =
          Cardinality({i \in DataPages : i <= e}) + (IF e + 1 \in DataPages THEN 1 ELSE 0)
    BY <1>2, OneMorePage
  <2>2. PagesBehind(n) = {i \in DataPages : i <= e + 1} /\ PagesBehind(k) = {i \in DataPages : i <= e}
    BY <1>2, <1>3 DEF PagesBehind
  <2>3. QED
    BY <1>1, <1>2, <2>1, <2>2 DEF Table, PagesCounted
<1>7. HandedOk(n)
  <2>1. ASSUME NEW i \in DOMAIN file.pages
        PROVE  Due(n, i) = Due(k, i)
    <3>1. CASE i = k.entry
      <4>1. ~(i <= e)
        BY <1>2, <3>1
      <4>2. i <= k.entry
        BY <1>2, <3>1
      <4>3. QED
        BY <1>2, <1>3, <3>1, <4>1, <4>2 DEF Due
    <3>2. CASE i # k.entry
      <4>1. i \in Nat
        BY FileFacts
      <4>2. i <= e <=> i <= k.entry
        BY <1>2, <3>2, <4>1
      <4>3. QED
        BY <1>3, <3>2, <4>2 DEF Due
    <3>3. QED
      BY <3>1, <3>2
  <2>2. QED
    BY <1>1, <2>1, HandedSame DEF Table
<1>8. MapsSound(n) /\ EntrySound(n) /\ WalkSound(n) /\ DoneSound(n) /\ Bounds(n)
  BY <1>1 DEF MapsSound, TableWhole, EntrySound, WalkSound, DoneSound, Blank, Bounds
<1>9. QED
  BY <1>4, <1>5, <1>6, <1>7, <1>8, SoundParts DEF Table

LEMMA VerifySound ==
  ASSUME file \in Files, NEW k \in NowType, NEW n \in NowType, Sound(k),
         k.stage = "Verify", n.stage = "Done",
         \A i \in DOMAIN k.slots : Matches(k.slots[i]),
         n.maps = k.maps, n.slots = k.slots, n.entry = k.entry, n.peeked = k.peeked,
         n.pages = k.pages, n.handed = k.handed
  PROVE  Sound(n)
<1>1. Table(k) /\ MapsSound(k) /\ EntrySound(k) /\ Bounds(k)
  BY SoundParts
<1>2. Behind(k) = Behind(n) /\ Taken(k) = Taken(n)
  BY DEF Behind, Taken
<1>3. Table(n)
  BY <1>1, <1>2, DueSame, TableSame
<1>4. MapsSound(n) /\ EntrySound(n) /\ WalkSound(n) /\ DoneSound(n) /\ Bounds(n)
  BY <1>1 DEF MapsSound, TableWhole, EntrySound, WalkSound, DoneSound, Blank, Bounds
<1>5. QED
  BY <1>3, <1>4, SoundParts

\* What a checkpoint leaves out of a walk is nothing it needs.
LEMMA ResumeSound ==
  ASSUME file \in Files, NEW k \in NowType, NEW n \in NowType, Sound(k),
         n.stage = k.stage, n.slots = k.slots, n.entry = k.entry, n.peeked = k.peeked,
         n.pages = k.pages, n.handed = k.handed,
         n.maps = IF k.stage \in {"Verify", "Done"} THEN PagesAgain ELSE k.maps,
         n.page = IF k.stage = "Walk" THEN k.page ELSE NoPage
  PROVE  Sound(n)
<1>1. Table(k) /\ MapsSound(k) /\ EntrySound(k) /\ WalkSound(k) /\ Bounds(k) /\ DoneSound(k)
      /\ (k.stage = "Maps" => k.pages = 0)
  BY SoundParts
<1>2. Behind(k) = Behind(n) /\ Taken(k) = Taken(n)
  BY DEF Behind, Taken
<1>3. Table(n)
  BY <1>1, <1>2, DueSame, TableSame
<1>4. PagesAgain.header /\ PagesAgain.entries = 0
  BY DEF PagesAgain, NewMaps
<1>5. MapsSound(n)
  BY <1>1, <1>4 DEF MapsSound, TableWhole, LastOk
<1>6. EntrySound(n)
  BY <1>1 DEF EntrySound, Blank
<1>7. WalkSound(n) /\ DoneSound(n)
  BY <1>1 DEF WalkSound, DoneSound
<1>8. Bounds(n)
  BY <1>1, <1>4, FileFacts DEF Bounds
<1>9. QED
  BY <1>1, <1>3, <1>5, <1>6, <1>7, <1>8, SoundParts

----------------------------------------------------------------------------
(* From the walk's records to its variables. *)

LEMMA HandedThere ==
  ASSUME file' = file, NEW n, n = Now', HandedOk(n)
  PROVE  HandedOk(Now)'
<1>1. DataPages' = DataPages
  BY DEF DataPages, Skipped
<1>2. \A i : Parts(i, Due(n, i)) = Parts(i, Due(Now, i))'
  BY <1>1 DEF Parts, Due, Behind
<1>3. QED
  BY <1>2 DEF HandedOk

LEMMA SoundThere ==
  ASSUME file' = file, NEW n, n = Now', Sound(n)
  PROVE  Sound(Now)'
<1>1. /\ Bounds(n) /\ MapsSound(n) /\ EntrySound(n) /\ WalkSound(n)
      /\ Table(n) /\ (n.stage = "Maps" => n.pages = 0) /\ DoneSound(n)
  BY SoundParts
<1>2. DataPages' = DataPages
  BY DEF DataPages, Skipped
<1>3. Behind(Now)' = Behind(n) /\ Taken(Now)' = Taken(n)
  BY DEF Behind, Taken
<1>4. Bounds(Now)' /\ (Now.stage = "Maps" => Now.pages = 0)' /\ DoneSound(Now)'
  BY <1>1 DEF Bounds, DoneSound, Matches
<1>5. MapsSound(Now)'
  BY <1>1 DEF MapsSound, LastOk, TableWhole
<1>6. EntrySound(Now)' /\ WalkSound(Now)'
  BY <1>1, <1>2 DEF EntrySound, WalkSound, Blank
<1>7. SlotsSound(Now)'
  <2>1. ASSUME NEW i \in DOMAIN n.slots
        PROVE  SlotSound(Now, i)'
    <3>1. SlotSound(n, i)
      BY <1>1 DEF Table, SlotsSound
    <3>2. \A r \in Refs : Found(Now.slots[i].id, r, Taken(Now))' = Found(n.slots[i].id, r, Taken(n))
      BY <1>2, <1>3 DEF Found, RefAt
    <3>3. \A r \in Refs : RefsRead(i, Now.slots[i].refs, r)' = RefsRead(i, n.slots[i].refs, r)
      BY DEF RefsRead
    <3>4. QED
      BY <3>1, <3>2, <3>3 DEF SlotSound
  <2>2. QED
    BY <2>1 DEF SlotsSound
<1>8. PagesSound(Now)'
  BY <1>1, <1>2, <1>3 DEF Table, PagesSound, PageSound
<1>9. PagesCounted(Now)'
  BY <1>1, <1>2, <1>3 DEF Table, PagesCounted, PagesBehind
<1>10. HandedOk(Now)'
  BY <1>1, HandedThere DEF Table
<1>11. QED
  BY <1>4, <1>5, <1>6, <1>7, <1>8, <1>9, <1>10, Zenon
  DEF Sound, Bounds, DoneSound, SlotsSound, PagesSound, PagesCounted, PagesBehind

\* The saved state does not move.
LEMMA KeptThere ==
  ASSUME file' = file, NEW k, k = kept', Sound(k)
  PROVE  Sound(kept)'
<1>1. /\ Bounds(k) /\ MapsSound(k) /\ EntrySound(k) /\ WalkSound(k)
      /\ Table(k) /\ (k.stage = "Maps" => k.pages = 0) /\ DoneSound(k)
  BY SoundParts
<1>2. DataPages' = DataPages
  BY DEF DataPages, Skipped
<1>3. Behind(kept)' = Behind(k) /\ Taken(kept)' = Taken(k)
  BY DEF Behind, Taken
<1>4. Bounds(kept)' /\ (kept.stage = "Maps" => kept.pages = 0)' /\ DoneSound(kept)'
  BY <1>1 DEF Bounds, DoneSound, Matches
<1>5. MapsSound(kept)'
  BY <1>1 DEF MapsSound, LastOk, TableWhole
<1>6. EntrySound(kept)' /\ WalkSound(kept)'
  BY <1>1, <1>2 DEF EntrySound, WalkSound, Blank
<1>7. SlotsSound(kept)'
  <2>1. ASSUME NEW i \in DOMAIN k.slots
        PROVE  SlotSound(kept, i)'
    <3>1. SlotSound(k, i)
      BY <1>1 DEF Table, SlotsSound
    <3>2. \A r \in Refs : Found(kept.slots[i].id, r, Taken(kept))' = Found(k.slots[i].id, r, Taken(k))
      BY <1>2, <1>3 DEF Found, RefAt
    <3>3. \A r \in Refs : RefsRead(i, kept.slots[i].refs, r)' = RefsRead(i, k.slots[i].refs, r)
      BY DEF RefsRead
    <3>4. QED
      BY <3>1, <3>2, <3>3 DEF SlotSound
  <2>2. QED
    BY <2>1 DEF SlotsSound
<1>8. PagesSound(kept)'
  BY <1>1, <1>2, <1>3 DEF Table, PagesSound, PageSound
<1>9. PagesCounted(kept)'
  BY <1>1, <1>2, <1>3 DEF Table, PagesCounted, PagesBehind
<1>10. HandedOk(kept)'
  <2>1. \A i : Parts(i, Due(k, i)) = Parts(i, Due(kept, i))'
    BY <1>2 DEF Parts, Due, Behind
  <2>2. QED
    BY <1>1, <2>1 DEF Table, HandedOk
<1>11. QED
  BY <1>4, <1>5, <1>6, <1>7, <1>8, <1>9, <1>10, Zenon
  DEF Sound, Bounds, DoneSound, SlotsSound, PagesSound, PagesCounted, PagesBehind

----------------------------------------------------------------------------
(* Each call keeps the walk sound. *)

\* What every call starts from, and what it must come to.
Going == Typed /\ Sound(Now) /\ ~failure /\ file' = file

StaysSound ==
  /\ Typed'
  /\ ~failure' => Sound(Now)'
  /\ HandedOk(Now)'
  /\ failure' => stage' # "Done"

\* The walk before and after a call.
LEMMA Records ==
  ASSUME Going, Typed', NEW k, k = Now, NEW n, n = Now'
  PROVE  /\ file \in Files /\ k \in NowType /\ n \in NowType /\ Sound(k)
         /\ k.stage = stage /\ k.maps = maps /\ k.slots = slots /\ k.entry = entry
         /\ k.peeked = peeked /\ k.page = page /\ k.pages = pages /\ k.handed = handed
         /\ n.stage = stage' /\ n.maps = maps' /\ n.slots = slots' /\ n.entry = entry'
         /\ n.peeked = peeked' /\ n.page = page' /\ n.pages = pages' /\ n.handed = handed'
<1>1. file \in Files /\ Sound(k)
  BY DEF Going, Typed
<1>2. k \in NowType
  BY NowTyped DEF Going
<1>3. n \in NowType
  <2>1. (Now \in NowType)'
    BY NowTyped, PTL
  <2>2. NowType' = NowType
    BY DEF Going, NowType
  <2>3. QED
    BY <2>1, <2>2
<1>4. QED
  BY <1>1, <1>2, <1>3 DEF Now

LEMMA SoundStays ==
  ASSUME Going, Typed', failure' = failure, NEW n, n = Now', Sound(n)
  PROVE  StaysSound
<1>1. Sound(Now)'
  BY SoundThere DEF Going
<1>2. HandedOk(Now)'
  BY <1>1, Zenon DEF Sound
<1>3. ~failure'
  BY DEF Going
<1>4. QED
  BY <1>1, <1>2, <1>3 DEF StaysSound

\* A call that fails has handed nothing out.
LEMMA FailureStays ==
  ASSUME Going, Typed', failure' = TRUE, stage' = stage, stage # "Done",
         UNCHANGED <<entry, page, handed>>,
         stage = "Maps" \/ maps' = maps
  PROVE  StaysSound
<1>1. PICK k : k = Now
  OBVIOUS
<1>2. PICK n : n = Now'
  OBVIOUS
<1>3. /\ file \in Files /\ Sound(k) /\ k.stage = n.stage /\ k.entry = n.entry
      /\ k.page = n.page /\ k.handed = n.handed /\ (k.stage = "Maps" \/ k.maps = n.maps)
  BY <1>1, <1>2, Records
<1>4. Behind(k) = Behind(n)
  BY <1>3 DEF Behind
<1>5. HandedOk(k)
  BY <1>3, SoundParts DEF Table
<1>6. HandedOk(n)
  BY <1>3, <1>4, <1>5, DueSame, HandedSame
<1>7. HandedOk(Now)'
  BY <1>2, <1>6, HandedThere DEF Going
<1>8. QED
  BY <1>7 DEF StaysSound

LEMMA MapsSteps ==
  ASSUME Going, Maps
  PROVE  StaysSound
<1>1. Typed'
  BY TypedMaps DEF Going
<1>2. PICK k : k = Now
  OBVIOUS
<1>3. PICK n : n = Now'
  OBVIOUS
<1>4. /\ file \in Files /\ k \in NowType /\ n \in NowType /\ Sound(k)
      /\ k.stage = stage /\ k.maps = maps /\ k.slots = slots /\ k.entry = entry
      /\ k.peeked = peeked /\ k.pages = pages /\ k.handed = handed
      /\ n.stage = stage' /\ n.maps = maps' /\ n.slots = slots' /\ n.entry = entry'
      /\ n.peeked = peeked' /\ n.pages = pages' /\ n.handed = handed'
  BY <1>1, <1>2, <1>3, Records
<1>5. Bounds(k) /\ MapsSound(k)
  BY <1>4, SoundParts
<1>6. maps \in MapsType /\ maps.entries \in Nat /\ maps.sectionIndex \in Nat /\ maps.refsLeft \in Nat
      /\ Len(file.pages) \in Nat
  BY <1>4, FileFacts DEF Going, Typed, MapsType
<1>7. ASSUME stage = "Maps", stage' = "Maps", Bounds(n), k.slots = <<>>, maps.refsLeft = 0,
             UNCHANGED <<slots, entry, peeked, pages, failure, handed>>,
             maps'.sectionIndex = maps.sectionIndex, maps'.refsLeft = maps.refsLeft
      PROVE  StaysSound
  <2>1. Sound(n)
    BY <1>4, <1>7, MapReadSound
  <2>2. QED
    BY <1>1, <1>3, <1>7, <2>1, SoundStays
<1>8. CASE MapHeader
  <2>1. maps' = [maps EXCEPT !.header = TRUE] /\ stage = "Maps" /\ ~maps.header
        /\ UNCHANGED <<stage, slots, entry, peeked, pages, failure, handed>>
    BY <1>8 DEF MapHeader
  <2>2. k.slots = <<>> /\ maps.refsLeft = 0
    BY <1>4, <1>5, <1>6, <2>1 DEF MapsSound
  <2>3. /\ maps'.entries = maps.entries /\ maps'.sectionIndex = maps.sectionIndex
        /\ maps'.refsLeft = maps.refsLeft
    BY <1>6, <2>1 DEF MapsType
  <2>4. Bounds(n)
    BY <1>4, <1>5, <2>1, <2>3 DEF Bounds
  <2>5. QED
    BY <1>7, <2>1, <2>2, <2>3, <2>4
<1>9. CASE MapPage
  <2>1. maps' = [maps EXCEPT !.entries = maps.entries + 1] /\ stage = "Maps"
        /\ maps.entries < Len(file.pages)
        /\ UNCHANGED <<stage, slots, entry, peeked, pages, failure, handed>>
    BY <1>9 DEF MapPage, PageRecord
  <2>2. k.slots = <<>> /\ maps.refsLeft = 0
    BY <1>4, <1>5, <1>6, <2>1 DEF MapsSound
  <2>3. /\ maps'.entries = maps.entries + 1 /\ maps'.sectionIndex = maps.sectionIndex
        /\ maps'.refsLeft = maps.refsLeft
    BY <1>6, <2>1 DEF MapsType
  <2>4. Bounds(n)
    BY <1>4, <1>5, <1>6, <2>1, <2>3 DEF Bounds
  <2>5. QED
    BY <1>7, <2>1, <2>2, <2>3, <2>4
<1>10. CASE MapSection
  <2> DEFINE s == file.sections[maps.sectionIndex + 1]
  <2>1. /\ stage = "Maps" /\ maps.header /\ maps.entries = Len(file.pages)
        /\ maps.refsLeft = 0 /\ maps.sectionIndex < Len(file.sections)
        /\ maps' = [maps EXCEPT !.sectionIndex = maps.sectionIndex + 1, !.refsLeft = s.count]
        /\ UNCHANGED <<stage, entry, peeked, page, pages, handed>>
    BY <1>10 DEF MapSection, InSections
  <2>2. \/ Admits(s) /\ slots' = Append(slots, SlotOf(s)) /\ failure' = failure
        \/ ~Admits(s) /\ failure' = TRUE
    BY <1>10 DEF MapSection, Fail
  <2>3. CASE Admits(s) /\ slots' = Append(slots, SlotOf(s)) /\ failure' = failure
    <3>1. /\ maps'.header = maps.header /\ maps'.entries = maps.entries
          /\ maps'.sectionIndex = maps.sectionIndex + 1 /\ maps'.refsLeft = s.count
      BY <1>6, <2>1 DEF MapsType
    <3>2. Len(slots) < MaxSections
      BY <1>4, <1>5, <2>3, Sizes, RecordFields DEF Admits, TableFull, Bounds
    <3>3. \A i \in DOMAIN slots : slots[i].id # s.id
      BY <2>3 DEF Admits
    <3>4. PICK t : t = s
      OBVIOUS
    <3>5. AddsSection(k, n, t)
      BY <1>4, <2>1, <2>3, <3>1, <3>2, <3>3, <3>4 DEF AddsSection
    <3>6. Sound(n)
      BY <1>4, <3>5, AddSectionSound
    <3>7. QED
      BY <1>1, <1>3, <2>3, <3>6, SoundStays
  <2>4. CASE ~Admits(s) /\ failure' = TRUE
    BY <1>1, <2>1, <2>4, FailureStays
  <2>5. QED
    BY <2>2, <2>3, <2>4
<1>11. CASE MapReference
  <2>1. PICK s : s = file.sections[maps.sectionIndex]
    OBVIOUS
  <2>2. PICK r : r = s.refs[s.count - maps.refsLeft + 1]
    OBVIOUS
  <2>3. /\ stage = "Maps" /\ maps.refsLeft > 0
        /\ slots' = [slots EXCEPT ![Len(slots)] = Listed(@, r)]
        /\ maps' = [maps EXCEPT !.refsLeft = maps.refsLeft - 1]
        /\ UNCHANGED <<stage, entry, peeked, page, pages, failure, handed>>
    BY <1>11, <2>1, <2>2 DEF MapReference, Listed
  <2>4. /\ maps'.header = maps.header /\ maps'.entries = maps.entries
        /\ maps'.sectionIndex = maps.sectionIndex /\ maps'.refsLeft = maps.refsLeft - 1
    BY <1>6, <2>3 DEF MapsType
  <2>5. AddsReference(k, n, s, r)
    BY <1>4, <2>1, <2>2, <2>3, <2>4 DEF AddsReference
  <2>6. Sound(n)
    BY <1>4, <2>5, AddReferenceSound
  <2>7. QED
    BY <1>1, <1>3, <2>3, <2>6, SoundStays
<1>12. CASE MapFinished
  <2>1. /\ stage = "Maps" /\ maps.refsLeft = 0 /\ maps.sectionIndex = Len(file.sections)
        /\ maps' = PagesAgain /\ stage' = "Pages"
        /\ UNCHANGED <<slots, entry, peeked, page, pages, failure, handed>>
    BY <1>12 DEF MapFinished
  <2>2. Sound(n)
    BY <1>4, <2>1, MapsEndSound
  <2>3. QED
    BY <1>1, <1>3, <2>1, <2>2, SoundStays
<1>13. CASE MapFails
  BY <1>1, <1>13, FailureStays DEF MapFails, Fail
<1>14. QED
  BY <1>8, <1>9, <1>10, <1>11, <1>12, <1>13 DEF Maps

\* A page map entry whose page is past the source's end ends the walk, with
\* nothing due of it.
LEMMA BrokenPageStays ==
  ASSUME Going, Typed', failure' = TRUE, stage = "Pages", stage' = "Pages",
         maps.entries < Len(file.pages), ~file.pages[maps.entries + 1].fits,
         maps'.entries = maps.entries + 1, UNCHANGED <<entry, page, handed>>
  PROVE  StaysSound
<1>1. PICK k : k = Now
  OBVIOUS
<1>2. PICK n : n = Now'
  OBVIOUS
<1>3. /\ file \in Files /\ k \in NowType /\ Sound(k)
      /\ k.stage = "Pages" /\ n.stage = "Pages" /\ n.handed = k.handed
      /\ n.maps.entries = k.maps.entries + 1 /\ ~file.pages[k.maps.entries + 1].fits
  BY <1>1, <1>2, Records
<1>4. k.maps.entries \in Nat
  BY <1>3, RecordFields
<1>5. Behind(k) = k.maps.entries /\ Behind(n) = k.maps.entries + 1
  BY <1>3 DEF Behind
<1>6. HandedOk(k)
  BY <1>3, SoundParts DEF Table
<1>7. ASSUME NEW i \in DOMAIN file.pages
      PROVE  Due(n, i) = Due(k, i)
  <2>1. i \in Nat
    BY <1>3, FileFacts
  <2>2. CASE i = k.maps.entries + 1
    BY <1>3, <2>2 DEF Due
  <2>3. CASE i # k.maps.entries + 1
    <3>1. i <= Behind(n) <=> i <= Behind(k)
      BY <1>4, <1>5, <2>1, <2>3
    <3>2. QED
      BY <1>3, <3>1 DEF Due
  <2>4. QED
    BY <2>2, <2>3
<1>8. HandedOk(n)
  BY <1>3, <1>6, <1>7, HandedSame
<1>9. HandedOk(Now)'
  BY <1>2, <1>8, HandedThere DEF Going
<1>10. QED
  BY <1>9 DEF StaysSound

LEMMA PagesSteps ==
  ASSUME Going, Pages \/ Verify
  PROVE  StaysSound
<1>1. Typed'
  BY TypedPages DEF Going
<1>2. PICK k : k = Now
  OBVIOUS
<1>3. PICK n : n = Now'
  OBVIOUS
<1>4. /\ file \in Files /\ k \in NowType /\ n \in NowType /\ Sound(k)
      /\ k.stage = stage /\ k.maps = maps /\ k.slots = slots /\ k.entry = entry
      /\ k.peeked = peeked /\ k.page = page /\ k.pages = pages /\ k.handed = handed
      /\ n.stage = stage' /\ n.maps = maps' /\ n.slots = slots' /\ n.entry = entry'
      /\ n.peeked = peeked' /\ n.page = page' /\ n.pages = pages' /\ n.handed = handed'
  BY <1>1, <1>2, <1>3, Records
<1>5. maps \in MapsType /\ Len(file.pages) \in Nat
  BY <1>4, FileFacts DEF Going, Typed
<1>6. CASE PageFound
  <2> DEFINE p == file.pages[maps.entries + 1]
  <2>1. /\ stage = "Pages" /\ maps.header /\ maps.entries < Len(file.pages)
        /\ maps' = [maps EXCEPT !.entries = maps.entries + 1]
        /\ UNCHANGED <<slots, page, pages, handed>>
    BY <1>6 DEF PageFound, PageRecord, Passed
  <2>2. maps'.header = maps.header /\ maps'.entries = maps.entries + 1
    BY <1>5, <2>1 DEF MapsType
  <2>3. CASE Skipped(p) /\ UNCHANGED <<stage, entry, peeked, failure>>
    <3>1. Sound(n)
      BY <1>4, <2>1, <2>2, <2>3, PassPageSound
    <3>2. QED
      BY <1>1, <1>3, <2>3, <3>1, SoundStays
  <2>4. CASE /\ ~Skipped(p) /\ p.fits /\ entry' = maps.entries + 1 /\ peeked' = 0
             /\ stage' = "Peek" /\ failure' = failure
    <3>1. Sound(n)
      BY <1>4, <2>1, <2>2, <2>4, OpenPageSound
    <3>2. QED
      BY <1>1, <1>3, <2>4, <3>1, SoundStays
  <2>5. CASE ~p.fits /\ failure' = TRUE /\ UNCHANGED <<stage, entry, peeked>>
    BY <1>1, <2>1, <2>2, <2>5, BrokenPageStays
  <2>6. QED
    BY <1>6, <2>3, <2>4, <2>5 DEF PageFound, Fail
<1>7. CASE PagesFinished
  <2>1. /\ stage = "Pages" /\ stage' = "Verify" /\ maps.entries = Len(file.pages)
        /\ UNCHANGED <<maps, slots, entry, peeked, page, pages, failure, handed>>
    BY <1>7 DEF PagesFinished, InSections
  <2>2. Sound(n)
    BY <1>4, <2>1, PagesEndSound
  <2>3. QED
    BY <1>1, <1>3, <2>1, <2>2, SoundStays
<1>8. CASE PageData
  <2>1. /\ stage = "Walk" /\ page.given < file.pages[entry].parts
        /\ page' = [page EXCEPT !.given = @ + 1]
        /\ handed' = [handed EXCEPT ![entry] =
             Append(@, [id |-> page.id, start |-> page.start, part |-> page.given + 1])]
        /\ UNCHANGED <<stage, maps, slots, entry, peeked, pages, failure>>
    BY <1>8 DEF PageData
  <2>2. GivesPart(k, n)
    BY <1>4, <2>1 DEF GivesPart, NextPart
  <2>3. Sound(n)
    BY <1>4, <2>2, GivePartSound
  <2>4. QED
    BY <1>1, <1>3, <2>1, <2>3, SoundStays
<1>9. CASE PageEnds
  <2>1. /\ stage = "Walk" /\ page.given = file.pages[entry].parts
        /\ pages' = pages + 1 /\ entry' = 0 /\ stage' = "Pages"
        /\ UNCHANGED <<maps, slots, peeked, page, failure, handed>>
    BY <1>9 DEF PageEnds
  <2>2. Sound(n)
    BY <1>4, <2>1, EndPageSound
  <2>3. QED
    BY <1>1, <1>3, <2>1, <2>2, SoundStays
<1>10. CASE PageFails
  BY <1>1, <1>10, FailureStays DEF PageFails, Fail
<1>11. CASE Verify
  <2>1. stage = "Verify" /\ UNCHANGED <<maps, slots, entry, peeked, page, pages, handed>>
    BY <1>11 DEF Verify
  <2>2. CASE (\A i \in DOMAIN slots : Matches(slots[i])) /\ stage' = "Done" /\ failure' = failure
    <3>1. Sound(n)
      BY <1>4, <2>1, <2>2, VerifySound
    <3>2. QED
      BY <1>1, <1>3, <2>2, <3>1, SoundStays
  <2>3. CASE failure' = TRUE /\ stage' = stage
    BY <1>1, <2>1, <2>3, FailureStays
  <2>4. QED
    BY <1>11, <2>2, <2>3 DEF Verify, Fail
<1>12. QED
  BY <1>6, <1>7, <1>8, <1>9, <1>10, <1>11 DEF Pages

LEMMA PeekSteps ==
  ASSUME Going, NEW n0 \in Nat, PeekPart(n0) \/ PeekWhole(n0)
  PROVE  StaysSound
<1>1. EntrySound(Now)
  BY Zenon DEF Going, Sound
<1>2. Typed'
  BY <1>1, TypedPeek DEF Going
<1>3. PICK k : k = Now
  OBVIOUS
<1>4. PICK n : n = Now'
  OBVIOUS
<1>5. /\ file \in Files /\ k \in NowType /\ n \in NowType /\ Sound(k)
      /\ k.stage = stage /\ k.maps = maps /\ k.slots = slots /\ k.entry = entry
      /\ k.peeked = peeked /\ k.page = page /\ k.pages = pages /\ k.handed = handed
      /\ n.stage = stage' /\ n.maps = maps' /\ n.slots = slots' /\ n.entry = entry'
      /\ n.peeked = peeked' /\ n.page = page' /\ n.pages = pages' /\ n.handed = handed'
  BY <1>2, <1>3, <1>4, Records
<1>6. CASE PeekPart(n0)
  <2>1. stage = "Peek" /\ peeked' < HeadBytes
        /\ UNCHANGED <<stage, maps, slots, entry, page, pages, failure, handed>>
    BY <1>6 DEF PeekPart
  <2>2. Sound(n)
    BY <1>5, <2>1, PeekPartSound
  <2>3. QED
    BY <1>2, <1>4, <2>1, <2>2, SoundStays
<1>7. CASE PeekWhole(n0)
  <2>1. PICK p : p = file.pages[entry]
    OBVIOUS
  <2>2. stage = "Peek" /\ peeked' = 0 /\ UNCHANGED <<maps, entry, pages, handed>>
    BY <1>7 DEF PeekWhole
  <2>3. CASE failure' = TRUE /\ UNCHANGED <<stage, page>>
    BY <1>2, <2>2, <2>3, FailureStays
  <2>4. CASE \E i \in DOMAIN slots :
               /\ slots[i].id = p.id
               /\ slots' = [slots EXCEPT ![i] = Counted(@, RefAt(p))]
               /\ page' = [id |-> p.id, number |-> p.number, start |-> p.start, given |-> 0]
               /\ stage' = "Walk" /\ failure' = failure
    <3>1. PICK m \in DOMAIN slots :
               /\ slots[m].id = p.id
               /\ slots' = [slots EXCEPT ![m] = Counted(@, RefAt(p))]
               /\ page' = [id |-> p.id, number |-> p.number, start |-> p.start, given |-> 0]
               /\ stage' = "Walk" /\ failure' = failure
      BY <2>4
    <3>2. TakesHeader(k, n, p, m)
      BY <1>5, <2>1, <2>2, <3>1 DEF TakesHeader
    <3>3. Sound(n)
      BY <1>5, <3>2, TakeHeaderSound
    <3>4. QED
      BY <1>2, <1>4, <3>1, <3>3, SoundStays
  <2>5. QED
    BY <1>7, <2>1, <2>3, <2>4 DEF PeekWhole, Fail
<1>8. QED
  BY <1>6, <1>7

----------------------------------------------------------------------------
(* The invariant. *)

LEMMA WalkSteps ==
  ASSUME Going, Walk
  PROVE  StaysSound
<1>1. CASE Maps
  BY <1>1, MapsSteps
<1>2. CASE Pages \/ Verify
  BY <1>2, PagesSteps
<1>3. CASE Peek
  <2>1. PICK scratch \in Scratches :
          PeekPart(Least(scratch, HeadBytes - peeked)) \/ PeekWhole(Least(scratch, HeadBytes - peeked))
    BY <1>3 DEF Peek
  <2>2. Least(scratch, HeadBytes - peeked) \in Nat
    BY Sizes DEF Going, Typed, Least
  <2>3. PICK m \in Nat : m = Least(scratch, HeadBytes - peeked)
    BY <2>2
  <2>4. PeekPart(m) \/ PeekWhole(m)
    BY <2>1, <2>3
  <2>5. QED
    BY <2>4, PeekSteps
<1>4. QED
  BY <1>1, <1>2, <1>3 DEF Walk

LEMMA InitSound == Init => WalkInv
<1> SUFFICES ASSUME Init PROVE WalkInv
  OBVIOUS
<1>1. /\ file \in Files /\ stage = "Maps" /\ maps = NewMaps /\ slots = <<>> /\ entry = 0
      /\ peeked = 0 /\ page = NoPage /\ pages = 0 /\ failure = FALSE /\ restarts = 0 /\ kept = Now
      /\ handed = [i \in DOMAIN file.pages |-> <<>>]
  BY DEF Init
<1>2. /\ NewMaps.header = FALSE /\ NewMaps.entries = 0 /\ NewMaps.sectionIndex = 0
      /\ NewMaps.refsLeft = 0
  BY DEF NewMaps
<1>3. Typed
  <2>1. handed \in [DOMAIN file.pages -> Seq(PartType)]
    BY <1>1
  <2>2. maps \in MapsType /\ page \in WalkerType
    BY <1>1 DEF NewMaps, MapsType, NoPage, WalkerType
  <2>3. slots \in Seq(SlotType) /\ Len(slots) = 0
    BY <1>1
  <2>4. 0 <= MaxSections /\ 0 <= Len(file.pages) /\ 0 < HeadBytes
    BY <1>1, FileFacts, Sizes
  <2>5. stage \in Stages /\ failure \in BOOLEAN /\ entry \in Nat /\ peeked \in Nat /\ pages \in Nat
    BY <1>1 DEF Stages
  <2>6. QED
    BY <1>1, <2>1, <2>2, <2>3, <2>4, <2>5 DEF Typed
<1>4. Now \in NowType
  BY <1>3, NowTyped
<1>5. TypeOK
  BY <1>1, <1>3, <1>4, Sizes DEF TypeOK, Typed
<1>6. PICK k : k = Now
  OBVIOUS
<1>7. k.stage = "Maps" /\ k.maps = NewMaps /\ k.slots = <<>> /\ k.entry = 0 /\ k.peeked = 0
      /\ k.pages = 0 /\ k.handed = handed /\ k \in NowType
  BY <1>1, <1>4, <1>6 DEF Now
<1>8. Behind(k) = 0 /\ Taken(k) = 0
  BY <1>7, InMaps
<1>9. HandedOk(k)
  <2>1. ASSUME NEW i \in DOMAIN file.pages
        PROVE  k.handed[i] = Parts(i, Due(k, i))
    <3>1. Due(k, i) = 0
      BY <1>1, <1>7, <1>8, NothingDue
    <3>2. Parts(i, 0) = <<>>
      BY DEF Parts
    <3>3. QED
      BY <1>1, <1>7, <3>1, <3>2
  <2>2. QED
    BY <2>1 DEF HandedOk
<1>10. SlotsSound(k)
  BY <1>7 DEF SlotsSound
<1>11. PagesSound(k)
  BY <1>1, <1>8, DataPageFacts DEF PagesSound
<1>12. PagesCounted(k)
  <2>1. PagesBehind(k) = {}
    BY <1>1, <1>8, DataPageFacts DEF PagesBehind
  <2>2. QED
    BY <1>7, <2>1, FS_EmptySet DEF PagesCounted
<1>13. Bounds(k)
  BY <1>1, <1>2, <1>7, FileFacts, Sizes DEF Bounds
<1>14. MapsSound(k) /\ EntrySound(k) /\ WalkSound(k) /\ DoneSound(k)
  BY <1>2, <1>7 DEF MapsSound, LastOk, EntrySound, Blank, WalkSound, DoneSound
<1>15. Sound(k)
  BY <1>7, <1>9, <1>10, <1>11, <1>12, <1>13, <1>14, SoundParts DEF Table
<1>16. QED
  BY <1>1, <1>5, <1>6, <1>9, <1>15 DEF WalkInv, InMapOrder

LEMMA RestartSteps ==
  ASSUME WalkInv, Restart
  PROVE  /\ Typed'
         /\ Sound(Now)'
         /\ ~failure'
<1>1. /\ stage' = kept.stage /\ maps' = KeptMaps /\ slots' = kept.slots
      /\ entry' = kept.entry /\ peeked' = kept.peeked /\ page' = KeptPage
      /\ pages' = kept.pages /\ handed' = kept.handed
      /\ failure' = FALSE /\ file' = file /\ Consistent(kept)
  BY DEF Restart
<1>2. PICK k : k = kept
  OBVIOUS
<1>3. k \in NowType /\ Sound(k) /\ file \in Files
  BY <1>2 DEF WalkInv, TypeOK
<1>4. Bounds(k) /\ EntrySound(k)
  BY <1>3, SoundParts
<1>5. KeptMaps \in MapsType /\ KeptPage \in WalkerType
  <2>1. PagesAgain \in MapsType /\ NoPage \in WalkerType
    BY DEF PagesAgain, NewMaps, MapsType, NoPage, WalkerType
  <2>2. QED
    BY <1>2, <1>3, <2>1, RecordFields DEF KeptMaps, KeptPage
<1>6. entry' <= Len(file.pages)
  <2>1. k.entry = 0 \/ k.entry \in DataPages
    BY <1>4 DEF EntrySound, Blank
  <2>2. QED
    BY <1>1, <1>2, <1>3, <2>1, DataPageFacts, FileFacts
<1>7. Typed'
  <2>1. /\ k.stage \in Stages /\ k.slots \in Seq(SlotType) /\ k.entry \in Nat /\ k.peeked \in Nat
        /\ k.pages \in Nat /\ k.handed \in [DOMAIN file.pages -> Seq(PartType)]
    BY <1>3, RecordFields
  <2>2. Len(k.slots) <= MaxSections /\ k.peeked < HeadBytes
    BY <1>4 DEF Bounds
  <2>3. QED
    BY <1>1, <1>2, <1>3, <1>5, <1>6, <2>1, <2>2 DEF Typed
<1>8. PICK n : n = Now'
  OBVIOUS
<1>9. n \in NowType
  <2>1. (Now \in NowType)'
    BY <1>7, NowTyped, PTL
  <2>2. NowType' = NowType
    BY <1>1 DEF NowType
  <2>3. QED
    BY <1>8, <2>1, <2>2
<1>10. /\ n.stage = k.stage /\ n.slots = k.slots /\ n.entry = k.entry /\ n.peeked = k.peeked
       /\ n.pages = k.pages /\ n.handed = k.handed
       /\ n.maps = IF k.stage \in {"Verify", "Done"} THEN PagesAgain ELSE k.maps
       /\ n.page = IF k.stage = "Walk" THEN k.page ELSE NoPage
  BY <1>1, <1>2, <1>8 DEF Now, KeptMaps, KeptPage
<1>11. Sound(n)
  BY <1>3, <1>9, <1>10, ResumeSound
<1>12. Sound(Now)'
  BY <1>1, <1>8, <1>11, SoundThere
<1>13. QED
  BY <1>1, <1>7, <1>12

LEMMA TypeFromFields ==
  ASSUME Typed', file' = file, kept' \in NowType, restarts' \in 0..MaxRestarts
  PROVE  TypeOK'
<1>1. (Now \in NowType)'
  BY NowTyped, PTL
<1>2. NowType' = NowType
  BY DEF NowType
<1>3. QED
  BY <1>1, <1>2 DEF TypeOK, Typed

LEMMA NextInv == WalkInv /\ [Next]_vars => WalkInv'
<1> SUFFICES ASSUME WalkInv, [Next]_vars PROVE WalkInv'
  OBVIOUS
<1>1. /\ Typed /\ kept \in NowType /\ restarts \in 0..MaxRestarts /\ Sound(kept)
      /\ ~failure => Sound(Now)
      /\ failure => stage # "Done"
      /\ HandedOk(Now)
  BY Fields DEF WalkInv, TypeOK, InMapOrder
<1>2. CASE Walk
  <2>1. Going /\ UNCHANGED <<file, kept, restarts>>
    BY <1>1, <1>2 DEF Walk, Going
  <2>2. StaysSound
    BY <1>2, <2>1, WalkSteps
  <2>3. TypeOK'
    BY <1>1, <2>1, <2>2, TypeFromFields DEF StaysSound
  <2>4. PICK k : k = kept
    OBVIOUS
  <2>5. Sound(kept)'
    BY <1>1, <2>1, <2>4, KeptThere
  <2>6. QED
    BY <2>2, <2>3, <2>5 DEF StaysSound, WalkInv, InMapOrder
<1>3. CASE Save
  <2>1. /\ ~failure /\ kept' = Now /\ file' = file /\ restarts' = restarts
        /\ UNCHANGED walkVars /\ handed' = handed
    BY <1>3 DEF Save
  <2>2. Typed'
    BY <1>1, <2>1 DEF Typed, walkVars
  <2>3. Now \in NowType
    BY <1>1, NowTyped
  <2>4. TypeOK'
    BY <1>1, <2>1, <2>2, <2>3, TypeFromFields
  <2>5. PICK k : k = Now
    OBVIOUS
  <2>6. Now' = Now
    BY <2>1 DEF Now, walkVars
  <2>7. Sound(k) /\ k = Now' /\ k = kept'
    BY <1>1, <2>1, <2>5, <2>6
  <2>8. Sound(kept)' /\ Sound(Now)'
    BY <2>1, <2>7, KeptThere, SoundThere
  <2>9. HandedOk(Now)'
    BY <2>8, Zenon DEF Sound
  <2>10. QED
    BY <1>1, <2>1, <2>4, <2>8, <2>9 DEF WalkInv, InMapOrder, walkVars
<1>4. CASE Restart
  <2>1. Typed' /\ Sound(Now)' /\ ~failure'
    BY <1>4, RestartSteps
  <2>2. file' = file /\ kept' = kept /\ restarts' \in 0..MaxRestarts
    BY <1>1, <1>4, Sizes DEF Restart
  <2>3. TypeOK'
    BY <1>1, <2>1, <2>2, TypeFromFields
  <2>4. PICK k : k = kept
    OBVIOUS
  <2>5. Sound(kept)'
    BY <1>1, <2>2, <2>4, KeptThere
  <2>6. HandedOk(Now)'
    BY <2>1, Zenon DEF Sound
  <2>7. QED
    BY <2>1, <2>3, <2>5, <2>6 DEF WalkInv, InMapOrder
<1>5. CASE UNCHANGED vars
  <2>1. /\ file' = file /\ restarts' = restarts /\ kept' = kept
        /\ UNCHANGED walkVars /\ handed' = handed
    BY <1>5 DEF vars
  <2>2. Typed'
    BY <1>1, <2>1 DEF Typed, walkVars
  <2>3. TypeOK'
    BY <1>1, <2>1, <2>2, TypeFromFields
  <2>4. PICK k : k = kept
    OBVIOUS
  <2>5. Sound(kept)'
    BY <1>1, <2>1, <2>4, KeptThere
  <2>6. PICK n : n = Now'
    OBVIOUS
  <2>7. n = Now
    BY <2>1, <2>6 DEF Now, walkVars
  <2>8. HandedOk(Now)'
    BY <1>1, <2>1, <2>6, <2>7, HandedThere
  <2>9. ~failure => Sound(Now)'
    BY <1>1, <2>1, <2>6, <2>7, SoundThere
  <2>10. QED
    BY <1>1, <2>1, <2>3, <2>5, <2>8, <2>9 DEF WalkInv, InMapOrder, walkVars
<1>6. QED
  BY <1>2, <1>3, <1>4, <1>5 DEF Next

LEMMA InvariantHolds == Spec => []WalkInv
<1>1. QED
  BY InitSound, NextInv, PTL DEF Spec

----------------------------------------------------------------------------
(* What the invariant gives. *)

\* Types, for every file and every way of reading it; the table of sections
\* stays within its fixed size.
THEOREM TypeCorrect == Spec => []TypeOK
<1>1. WalkInv => TypeOK
  BY DEF WalkInv
<1>2. QED
  BY <1>1, InvariantHolds, PTL

\* The pages come out tagged, in the page map's order, each whole and once,
\* wherever the walk is stopped and resumed.
THEOREM InOrder == Spec => []InMapOrder
<1>1. WalkInv => InMapOrder
  BY DEF WalkInv
<1>2. QED
  BY <1>1, InvariantHolds, PTL

LEMMA SoundRestorable ==
  ASSUME file \in Files, NEW k \in NowType, Sound(k),
         \A i \in DOMAIN k.slots : k.slots[i].seen <= k.slots[i].refs
  PROVE  Consistent(k)
<1>1. Table(k) /\ MapsSound(k) /\ EntrySound(k) /\ WalkSound(k) /\ Bounds(k) /\ DoneSound(k)
      /\ (k.stage = "Maps" => k.pages = 0)
  BY SoundParts
<1>2. SlotsOk(k)
  <2>1. ASSUME NEW i \in DOMAIN k.slots
        PROVE  /\ k.slots[i].refs <= k.slots[i].count
               /\ k.slots[i].seen = 0 => k.slots[i].found = NoDigest
               /\ k.slots[i].refs = 0 => k.slots[i].listed = NoDigest
               /\ \A j \in 1..(i - 1) : k.slots[j].id # k.slots[i].id
    <3>1. SlotSound(k, i)
      BY <1>1 DEF Table, SlotsSound
    <3>2. k.slots[i].listed \in [Refs -> Nat]
      BY RecordFields, SlotFields
    <3>3. ASSUME k.slots[i].refs = 0
          PROVE  k.slots[i].listed = NoDigest
      <4>1. \A r \in Refs : k.slots[i].listed[r] = 0
        BY <3>1, <3>3, NoneRead DEF SlotSound
      <4>2. QED
        BY <3>2, <4>1 DEF NoDigest
    <3>4. QED
      BY <3>1, <3>3 DEF SlotSound
  <2>2. QED
    BY <1>1, <2>1 DEF SlotsOk, Bounds
<1>3. k.stage \in Stages
  BY RecordFields
<1>4. k.stage \in {"Peek", "Walk"} => EntryOk(k)
  BY <1>1 DEF EntrySound, EntryOk, DataPages
<1>5. CASE k.stage = "Maps"
  BY <1>1, <1>2, <1>5 DEF Consistent, MapsSound, EntrySound
<1>6. CASE k.stage = "Pages"
  BY <1>1, <1>2, <1>6 DEF Consistent, MapsSound, EntrySound
<1>7. CASE k.stage = "Peek"
  BY <1>1, <1>2, <1>4, <1>7 DEF Consistent, MapsSound, Bounds
<1>8. CASE k.stage = "Walk"
  BY <1>1, <1>2, <1>4, <1>8 DEF Consistent, MapsSound, WalkSound
<1>9. CASE k.stage = "Verify"
  BY <1>1, <1>2, <1>9 DEF Consistent, MapsSound, EntrySound
<1>10. CASE k.stage = "Done"
  BY <1>1, <1>2, <1>10 DEF Consistent, MapsSound, EntrySound, DoneSound
<1>11. QED
  BY <1>3, <1>5, <1>6, <1>7, <1>8, <1>9, <1>10 DEF Stages

\* Restore refuses no state the walk reaches in which no section has more
\* pages than it lists.
THEOREM RestoreAccepts == Spec => []RestorableListed
<1>1. ASSUME WalkInv, ~failure, \A i \in DOMAIN slots : slots[i].seen <= slots[i].refs
      PROVE  Consistent(Now)
  <2>1. PICK k : k = Now
    OBVIOUS
  <2>2. file \in Files /\ k \in NowType /\ Sound(k) /\ k.slots = slots
    BY <1>1, <2>1 DEF WalkInv, TypeOK, Now
  <2>3. Consistent(k)
    BY <1>1, <2>2, SoundRestorable
  <2>4. QED
    BY <2>1, <2>3
<1>2. WalkInv => RestorableListed
  BY <1>1 DEF RestorableListed
<1>3. QED
  BY <1>2, InvariantHolds, PTL

LEMMA SoundAccounts ==
  ASSUME WalkInv, stage = "Done"
  PROVE  Accounted
<1>1. PICK k : k = Now
  OBVIOUS
<1>2. file \in Files /\ k \in NowType /\ Sound(k) /\ k.stage = "Done" /\ k.slots = slots
      /\ k.pages = pages /\ k.handed = handed
  BY <1>1 DEF WalkInv, TypeOK, Now
<1>3. Table(k) /\ MapsSound(k) /\ DoneSound(k)
  BY <1>2, SoundParts
<1>4. Behind(k) = Len(file.pages) /\ Taken(k) = Len(file.pages)
  BY <1>2 DEF Behind, Taken
<1>5. /\ \A i \in DataPages : i \in DOMAIN file.pages /\ i <= Len(file.pages)
      /\ Len(k.slots) = Len(file.sections) /\ DOMAIN k.slots = DOMAIN file.sections
      /\ TableWhole(k)
  <2>1. Len(k.slots) = Len(file.sections) /\ TableWhole(k)
    BY <1>2, <1>3 DEF MapsSound
  <2>2. QED
    BY <1>2, <2>1, DataPageFacts, RecordFields, FileFacts
<1>6. \A m \in DOMAIN k.slots :
        /\ SlotSound(k, m)
        /\ k.slots[m].found = k.slots[m].listed /\ k.slots[m].refs = k.slots[m].count
  BY <1>2, <1>3, <1>5 DEF Table, SlotsSound, DoneSound, Matches, TableWhole
<1>7. pages = Cardinality(DataPages)
  <2>1. PagesBehind(k) = DataPages
    BY <1>4, <1>5 DEF PagesBehind
  <2>2. QED
    BY <1>2, <1>3, <2>1 DEF Table, PagesCounted
<1>8. ASSUME NEW i \in DataPages
      PROVE  /\ Len(handed[i]) = file.pages[i].parts
             /\ \E s \in DOMAIN file.sections :
                  /\ file.sections[s].id = file.pages[i].id
                  /\ \E j \in DOMAIN file.sections[s].refs :
                       file.sections[s].refs[j] = RefAt(file.pages[i])
  <2>1. i \in DOMAIN file.pages /\ file.pages[i] \in PageType /\ RefAt(file.pages[i]) \in Refs
    BY <1>2, <1>5, FileFacts
  <2>2. PageSound(k, i)
    BY <1>3, <1>4, <1>5 DEF Table, PagesSound
  <2>3. Len(handed[i]) = file.pages[i].parts
    <3>1. Due(k, i) = file.pages[i].parts
      BY <1>4, <1>5, <2>2 DEF Due, PageSound
    <3>2. handed[i] = Parts(i, file.pages[i].parts)
      BY <1>2, <1>3, <2>1, <3>1 DEF Table, HandedOk
    <3>3. file.pages[i].parts \in Nat
      BY <2>1 DEF PageType
    <3>4. QED
      BY <3>2, <3>3 DEF Parts
  <2>4. PICK m \in DOMAIN k.slots : k.slots[m].id = file.pages[i].id
    BY <2>2 DEF PageSound
  <2> DEFINE r == RefAt(file.pages[i])
             found == Found(k.slots[m].id, r, Len(file.pages))
             read  == RefsRead(m, k.slots[m].refs, r)
  <2>5. Cardinality(read) = Cardinality(found)
    BY <1>4, <1>6, <2>1 DEF SlotSound
  <2>6. IsFiniteSet(found) /\ i \in found
    <3>1. found \in SUBSET DataPages
      BY DEF Found
    <3>2. i \in found
      BY <1>5, <2>4 DEF Found
    <3>3. QED
      BY <1>2, <3>1, <3>2, PagesFinite
  <2>7. k.slots[m].refs \in Nat /\ k.slots[m].count = file.sections[m].count
        /\ k.slots[m].id = file.sections[m].id
    BY <1>2, <1>6, RecordFields, SlotFields DEF SlotSound
  <2>8. IsFiniteSet(read)
    BY <2>7, RefsReadFinite
  <2> HIDE DEF found, read
  <2>9. read # {}
    BY <2>5, <2>6, <2>8, FS_EmptySet
  <2>10. PICK j \in 1..k.slots[m].refs : file.sections[m].refs[j] = r
    BY <2>9 DEF read, RefsRead
  <2>11. m \in DOMAIN file.sections /\ j \in DOMAIN file.sections[m].refs
    BY <1>2, <1>5, <1>6, <2>7, FileFacts
  <2>12. QED
    BY <2>3, <2>4, <2>7, <2>10, <2>11
<1>9. ASSUME NEW s \in DOMAIN file.sections, NEW j \in DOMAIN file.sections[s].refs
      PROVE  Cardinality(Found(file.sections[s].id, file.sections[s].refs[j], Len(file.pages))) = 1
  <2> DEFINE r == file.sections[s].refs[j]
             read == RefsRead(s, k.slots[s].refs, r)
  <2>1. s \in DOMAIN k.slots /\ r \in Refs /\ DOMAIN file.sections[s].refs = 1..file.sections[s].count
    BY <1>2, <1>5, RefsAreRefs, FileFacts
  <2>2. k.slots[s].refs = file.sections[s].count /\ k.slots[s].id = file.sections[s].id
    BY <1>6, <2>1 DEF SlotSound
  <2>3. Cardinality(read) = Cardinality(Found(file.sections[s].id, r, Len(file.pages)))
    BY <1>4, <1>6, <2>1, <2>2 DEF SlotSound
  <2>4. \A i \in 1..file.sections[s].count : file.sections[s].refs[i] = r => i = j
    BY <1>2, <2>1, RisingRefs
  <2>5. read = {j}
    BY <2>1, <2>2, <2>4 DEF RefsRead
  <2>6. QED
    BY <2>3, <2>5, FS_Singleton
<1>10. QED
  BY <1>7, <1>8, <1>9 DEF Accounted

\* "Finished" means that the pages found are the pages listed: one page for
\* every reference, a reference for every page.
THEOREM AllAccounted == Spec => []Accounted
<1>1. WalkInv => Accounted
  <2>1. ASSUME WalkInv, stage # "Done" PROVE Accounted
    BY <2>1 DEF Accounted
  <2>2. QED
    BY <2>1, SoundAccounts
<1>2. QED
  BY <1>1, InvariantHolds, PTL
=============================================================================
