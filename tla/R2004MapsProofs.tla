-------------------------- MODULE R2004MapsProofs --------------------------
(***************************************************************************)
(* Proofs about R2004Maps for every file, every way of reading it and      *)
(* every restart: types, reads inside the checked page, that what a walk   *)
(* saves is accepted when it is restored, and that a walk commits what a   *)
(* reading of the whole file has, ending as that reading ends.             *)
(***************************************************************************)
EXTENDS R2004MapReading, WellFoundedInduction, TLAPS

----------------------------------------------------------------------------
(* The inductive invariant, of the walk and of a walk that was saved. *)

\* Nothing of a section map has been read.
Unread(w) == w.index = 0 /\ w.sections = 0 /\ w.refs = 0

\* The page the walk is at, and what it has of it.
Located(w) ==
  /\ w.have <= SizeOf(w.open) /\ w.carried <= CarryBytes
  /\ w.address >= HeaderBytes
  /\ w.kind = "PageMap" => w.at = file.pageMap /\ w.size = 0 /\ Unread(w)
  /\ w.kind = "SectionMap" => w.selfSeen /\ w.at = w.mapAt /\ w.size = w.mapSize /\ w.size > 0

\* Where a walk can be that has not failed.
WalkOk(w) ==
  IF w.stage = "Header" THEN w = [NewWalk EXCEPT !.filled = w.filled]
  ELSE /\ w.filled = HeaderBytes
       /\ Located(w)
       /\ w.stage = "SysHeader" => w.done < SysBytes /\ Quiet(w) /\ Unread(w)
       /\ w.stage = "Check" =>
            KeptSysOk(w) /\ w.done <= PageAt(w.at).comp /\ Quiet(w) /\ Unread(w)
       /\ w.stage = "Decode" =>
            /\ KeptSysOk(w) /\ RecordsOk(w)
            /\ w.done <= PageAt(w.at).comp
            /\ w.lz.consumed + w.carried = w.done
            /\ w.summed = 0
       /\ w.stage = "Done" => w.pagesOnly \/ w.kind = "SectionMap"

IInv ==
  /\ file \in Files
  /\ walk \in WalkType
  /\ IF walk.failure = "none" THEN WalkOk(walk) ELSE walk.stage # "Done"
  /\ kept.walk \in WalkType /\ kept.walk.failure = "none" /\ WalkOk(kept.walk)
  /\ restarts \in 0..MaxRestarts

----------------------------------------------------------------------------
(* Types. *)

LEMMA WalkFields ==
  ASSUME NEW w \in WalkType
  PROVE  /\ w.filled \in 0..HeaderBytes /\ w.filled \in Nat /\ w.stage \in Stages
         /\ w.kind \in Kinds /\ w.at \in Nat /\ w.size \in Nat /\ w.done \in Nat
         /\ w.summed \in Nat /\ w.lz \in LzType /\ w.carried \in Nat /\ w.open \in Openings
         /\ w.have \in Nat /\ w.nth \in Nat /\ w.address \in Nat /\ w.entries \in Nat
         /\ w.selfSeen \in BOOLEAN /\ w.mapAt \in Nat /\ w.mapSize \in Nat
         /\ w.sections \in Nat /\ w.refs \in Nat /\ w.index \in Nat /\ w.id \in Nat
         /\ w.maxPage \in Nat /\ w.lastStart \in Nat /\ w.firstRef \in BOOLEAN
         /\ w.pagesOnly \in BOOLEAN /\ w.failure \in Errors
BY SizesAssumption DEF WalkType

LEMMA Sizes ==
  /\ MagicBytes \in Nat \ {0} /\ HeaderBytes \in Nat /\ HeaderBytes > MagicBytes
  /\ SysBytes \in Nat \ {0} /\ CarryBytes \in Nat \ {0} /\ ChunkBytes \in Nat \ {0}
  /\ Align \in Nat \ {0} /\ MaxRestarts \in Nat
  /\ \A open \in Openings : SizeOf(open) \in Nat
  /\ SizeOf("Gap") > SizeOf("Entry") /\ SizeOf("None") = 0
BY SizesAssumption DEF Openings, SizeOf

LEMMA NewWalkTyped == NewWalk \in WalkType /\ NewWalk.failure = "none" /\ NewWalk.stage = "Header"
BY Sizes DEF NewWalk, NewLz, WalkType, LzType, Stages, Kinds, Openings, Errors

LEMMA EnterFacts ==
  ASSUME NEW w \in WalkType, NEW kind \in Kinds, NEW at \in Nat, NEW size \in Nat
  PROVE  LET v == Enter(w, kind, at, size)
         IN /\ v \in WalkType
            /\ v.stage = "SysHeader" /\ v.kind = kind /\ v.at = at /\ v.size = size
            /\ v.done = 0 /\ v.carried = 0 /\ v.open = "None" /\ v.have = 0
            /\ v.filled = w.filled /\ v.address = w.address /\ v.selfSeen = w.selfSeen
            /\ v.mapAt = w.mapAt /\ v.mapSize = w.mapSize /\ v.index = w.index
            /\ v.sections = w.sections /\ v.refs = w.refs /\ v.failure = w.failure
BY DEF Enter, WalkType, Stages, Openings

LEMMA OpenFacts ==
  ASSUME NEW w \in WalkType, NEW open \in Openings
  PROVE  LET v == Open(w, open)
         IN /\ v \in WalkType
            /\ v.open = open /\ v.have = 0 /\ v.stage = w.stage /\ v.kind = w.kind
            /\ v.at = w.at /\ v.size = w.size /\ v.done = w.done /\ v.summed = w.summed
            /\ v.lz = w.lz /\ v.carried = w.carried /\ v.filled = w.filled
            /\ v.address = w.address /\ v.selfSeen = w.selfSeen
            /\ v.mapAt = w.mapAt /\ v.mapSize = w.mapSize /\ v.index = w.index
            /\ v.maxPage = w.maxPage
            /\ v.sections = w.sections /\ v.refs = w.refs /\ v.failure = w.failure
<1>1. w.nth + 1 \in Nat
  BY WalkFields
<1>2. Open(w, open) \in WalkType
  BY <1>1 DEF Open, WalkType, Openings
<1>3. QED
  BY <1>2 DEF Open, WalkType

LEMMA FailedTyped ==
  ASSUME NEW w \in WalkType, NEW e \in Errors
  PROVE  [w EXCEPT !.failure = e] \in WalkType /\ [w EXCEPT !.failure = e].failure = e
BY DEF WalkType

----------------------------------------------------------------------------
(* The file. *)

LEMMA FileFacts ==
  ASSUME file \in Files
  PROVE  /\ file.length \in Nat /\ file.pageMap \in Nat /\ file.pageMapId \in Nat
         /\ file.sectionMapId \in Nat /\ file.pageMap >= HeaderBytes
         /\ file.magic \in {"none", "InvalidMagic", "UnsupportedLayout"}
         /\ file.header \in {"none", "R2004Field", "R2004HeaderCrc"}
         /\ \A p \in file.pages : p \in PageType
BY FilesAssumption

LEMMA PageFacts ==
  ASSUME file \in Files, NEW at
  PROVE  /\ PageAt(at).comp \in Nat /\ PageAt(at).decomp \in Nat /\ PageAt(at).yields \in Nat
         /\ PageAt(at).records \in Seq(RecordType)
<1>1. CASE \E p \in file.pages : p.at = at
  <2>1. PageAt(at) \in file.pages
    BY <1>1 DEF PageAt
  <2>2. PageAt(at) \in PageType
    BY <2>1, FileFacts
  <2>3. QED
    BY <2>2 DEF PageType
<1>2. CASE ~ \E p \in file.pages : p.at = at
  BY <1>2 DEF PageAt, NoPage
<1>3. QED
  BY <1>1, <1>2

LEMMA RecordFacts ==
  ASSUME file \in Files, NEW at, NEW n \in Nat
  PROVE  /\ RecordAt(at, n).ok \in BOOLEAN /\ RecordAt(at, n).number \in Int
         /\ RecordAt(at, n).size \in Nat /\ RecordAt(at, n).count \in Nat
         /\ RecordAt(at, n).id \in Nat /\ RecordAt(at, n).maxPage \in Nat
         /\ RecordAt(at, n).start \in Nat
<1> DEFINE rs == PageAt(at).records
<1>1. rs \in Seq(RecordType)
  BY PageFacts
<1> HIDE DEF rs
<1>2. RecordAt(at, n) = IF n + 1 \in DOMAIN rs THEN rs[n + 1] ELSE Zeros
  BY DEF RecordAt, rs
<1>3. Zeros \in RecordType
  BY DEF Zeros, RecordType
<1>4. RecordAt(at, n) \in RecordType
  BY <1>1, <1>2, <1>3
<1>5. QED
  BY <1>4 DEF RecordType

\* No action changes the file, nor what is known of a walk by it.
LEMMA PageSame ==
  ASSUME file' = file
  PROVE  /\ \A at : PageAt(at)' = PageAt(at)
         /\ \A at, n : RecordAt(at, n)' = RecordAt(at, n)
<1>1. \A at : PageAt(at)' = PageAt(at)
  BY SMT DEF PageAt
<1>2. QED
  BY <1>1 DEF RecordAt

LEMMA WalkOkSame ==
  ASSUME file' = file, NEW w
  PROVE  WalkOk(w)' <=> WalkOk(w)
<1>1. KeptSysOk(w)' <=> KeptSysOk(w)
  BY PageSame DEF KeptSysOk
<1>2. RecordsOk(w)' <=> RecordsOk(w)
  BY PageSame DEF RecordsOk
<1>3. Located(w)' <=> Located(w)
  BY DEF Located
<1>4. PageAt(w.at)' = PageAt(w.at)
  BY PageSame
<1>5. QED
  BY <1>1, <1>2, <1>3, <1>4 DEF WalkOk

----------------------------------------------------------------------------
(* Reads. *)

LEMMA ReadFacts ==
  ASSUME IInv, walk.failure = "none"
  PROVE  /\ Read.offset \in Nat /\ Read.len \in Nat
         /\ walk.stage = "Header" => Read.len = Target - walk.filled
         /\ walk.stage = "SysHeader" => Read.len = SysBytes - walk.done
         /\ walk.stage \in {"Check", "Decode"} => Left \in Nat /\ Read.len <= Left
         /\ walk.stage = "Decode" => Read.len <= CarryBytes
         /\ walk.stage \in {"Check", "Decode"} =>
              \/ Read.offset = 0 /\ Read.len = 0
              \/ Read.offset = walk.at + SysBytes + walk.done
<1>1. /\ walk.filled \in 0..HeaderBytes /\ walk.filled \in Nat /\ walk.stage \in Stages
      /\ walk.at \in Nat /\ walk.done \in Nat /\ file \in Files /\ WalkOk(walk)
  BY WalkFields DEF IInv
<1>2. Page.comp \in Nat
  BY <1>1, PageFacts DEF Page
<1>3. CASE walk.stage = "Header"
  <2>1. Target \in Nat /\ walk.filled <= Target
    BY <1>1, Sizes DEF Target
  <2>2. Read = Span(walk.filled, Target - walk.filled)
    BY <1>3 DEF Read
  <2>3. QED
    BY <1>1, <1>3, <2>1, <2>2 DEF Span
<1>4. CASE walk.stage = "SysHeader"
  <2>1. walk.done < SysBytes
    BY <1>1, <1>4 DEF WalkOk
  <2>2. Read = Span(walk.at + walk.done, SysBytes - walk.done)
    BY <1>4 DEF Read
  <2>3. QED
    BY <1>1, <1>4, <2>1, <2>2, Sizes DEF Span
<1>5. CASE walk.stage \in {"Check", "Decode"}
  <2>1. Left \in Nat
    BY <1>1, <1>2, <1>5 DEF WalkOk, Left, Page
  <2>2. \/ /\ walk.stage = "Check"
           /\ Read = Span(walk.at + SysBytes + walk.done, Least(Left, ChunkBytes))
        \/ /\ walk.stage = "Decode"
           /\ Read = Span(walk.at + SysBytes + walk.done, Least(Left, CarryBytes))
        \/ walk.stage = "Decode" /\ Read = NoRead
    BY <1>5 DEF Read
  <2>3. QED
    BY <1>1, <1>5, <2>1, <2>2, Sizes DEF Span, NoRead, Least
<1>6. CASE walk.stage = "Done"
  BY <1>6 DEF Read, NoRead, Span
<1>7. QED
  BY <1>1, <1>3, <1>4, <1>5, <1>6 DEF Stages

LEMMA FedCount ==
  ASSUME IInv, walk.failure = "none", Read.len > 0, ~Truncated, NEW scratch \in Scratches
  PROVE  LET n == Least(scratch, Least(Read.len, file.length - Read.offset))
         IN n \in Nat \ {0} /\ n <= Read.len
<1>1. Read.offset < file.length /\ file.length \in Nat /\ Read.offset \in Nat /\ Read.len \in Nat
  BY FileFacts, ReadFacts DEF Truncated, IInv
<1>2. scratch \in Nat \ {0}
  BY SizesAssumption
<1>3. QED
  BY <1>1, <1>2 DEF Least

----------------------------------------------------------------------------
(* The steps.  Each leaves a walk that has failed or is where it can be.   *)

StepOk(v) ==
  /\ v \in WalkType
  /\ IF v.failure = "none" THEN WalkOk(v) ELSE v.stage # "Done"

Going == IInv /\ walk.failure = "none"

LEMMA GoingFacts ==
  ASSUME Going
  PROVE  walk \in WalkType /\ WalkOk(walk) /\ file \in Files /\ walk.failure = "none"
BY DEF Going, IInv

LEMMA FailOk ==
  ASSUME Going, walk.stage # "Done", NEW e \in Errors \ {"none"}, Fail(e)
  PROVE  StepOk(walk')
<1>1. walk' = [walk EXCEPT !.failure = e]
  BY DEF Fail, Then
<1>2. walk'.stage = walk.stage
  BY <1>1, GoingFacts DEF WalkType
<1>3. QED
  BY <1>1, <1>2, FailedTyped, GoingFacts DEF StepOk

LEMMA HeaderWalk ==
  ASSUME NEW w \in WalkType, w.failure = "none", NEW a, NEW b
  PROVE  [[w EXCEPT !.filled = a] EXCEPT !.filled = b, !.failure = "none"] = [w EXCEPT !.filled = b]
BY DEF WalkType

LEMMA FeedHeaderOk ==
  ASSUME Going, NEW n \in Nat \ {0}, n <= Read.len, FeedHeader(n)
  PROVE  StepOk(walk')
<1> DEFINE fault == HeaderFault(walk.filled + n)
<1>1. /\ walk.stage = "Header" /\ walk' = [walk EXCEPT !.filled = @ + n, !.failure = fault]
  BY DEF FeedHeader, Then
<1>2. walk = [NewWalk EXCEPT !.filled = walk.filled] /\ walk \in WalkType
  BY <1>1, GoingFacts DEF WalkOk
<1>3. walk.filled + n \in 0..HeaderBytes
  <2>1. Read.len = Target - walk.filled /\ walk.filled \in Nat /\ Read.len \in Nat
    BY <1>1, <1>2, ReadFacts, WalkFields DEF Going
  <2>2. Target \in Nat /\ Target <= HeaderBytes
    BY Sizes DEF Target
  <2>3. QED
    BY <2>1, <2>2, Sizes
<1>4. fault \in Errors
  BY FileFacts, GoingFacts DEF HeaderFault, Errors
<1> HIDE DEF fault
<1>5. walk' \in WalkType /\ walk'.failure = fault /\ walk'.stage = "Header"
  BY <1>1, <1>2, <1>3, <1>4 DEF WalkType
<1>6. fault = "none" => walk' = [NewWalk EXCEPT !.filled = walk'.filled]
  <2>1. SUFFICES ASSUME fault = "none" PROVE walk' = [NewWalk EXCEPT !.filled = walk'.filled]
    OBVIOUS
  <2> DEFINE a == walk.filled
             b == walk.filled + n
  <2>2. walk' = [[NewWalk EXCEPT !.filled = a] EXCEPT !.filled = b, !.failure = "none"]
    BY <1>1, <1>2, <2>1
  <2>3. walk' = [NewWalk EXCEPT !.filled = b]
    BY <2>2, NewWalkTyped, HeaderWalk
  <2>4. walk'.filled = b
    BY <2>3, NewWalkTyped DEF WalkType
  <2>5. QED
    BY <2>3, <2>4
<1>7. QED
  BY <1>5, <1>6 DEF StepOk, WalkOk

\* A page of either map is entered with nothing of it read.
LEMMA EnterOk ==
  ASSUME file \in Files, NEW w \in WalkType, w.failure = "none", w.filled = HeaderBytes,
         w.address >= HeaderBytes, Unread(w),
         NEW kind \in Kinds, NEW at \in Nat, NEW size \in Nat,
         kind = "PageMap" => at = file.pageMap /\ size = 0,
         kind = "SectionMap" => w.selfSeen /\ at = w.mapAt /\ size = w.mapSize /\ size > 0
  PROVE  StepOk(Enter(w, kind, at, size))
<1> DEFINE v == Enter(w, kind, at, size)
<1>1. /\ v \in WalkType
      /\ v.stage = "SysHeader" /\ v.kind = kind /\ v.at = at /\ v.size = size
      /\ v.done = 0 /\ v.carried = 0 /\ v.open = "None" /\ v.have = 0
      /\ v.filled = w.filled /\ v.address = w.address /\ v.selfSeen = w.selfSeen
      /\ v.mapAt = w.mapAt /\ v.mapSize = w.mapSize /\ v.index = w.index
      /\ v.sections = w.sections /\ v.refs = w.refs /\ v.failure = w.failure
  BY EnterFacts
<1> HIDE DEF v
<1>2. Unread(v) /\ Quiet(v)
  BY <1>1 DEF Unread, Quiet
<1>3. Located(v)
  BY <1>1, <1>2, Sizes DEF Located
<1>4. WalkOk(v)
  BY <1>1, <1>2, <1>3, Sizes DEF WalkOk
<1>5. StepOk(v)
  BY <1>1, <1>4 DEF StepOk
<1>6. QED
  BY <1>5 DEF v

LEMMA PumpHeaderOk ==
  ASSUME Going, PumpHeader
  PROVE  StepOk(walk')
<1>1. /\ walk.stage = "Header" /\ walk.filled = HeaderBytes
      /\ walk' = Enter(walk, "PageMap", file.pageMap, 0)
  BY DEF PumpHeader, Then
<1>2. walk = [NewWalk EXCEPT !.filled = walk.filled] /\ walk \in WalkType
  BY <1>1, GoingFacts DEF WalkOk
<1>3. walk.address = HeaderBytes /\ Unread(walk)
  BY <1>2 DEF NewWalk, Unread
<1>4. file \in Files /\ file.pageMap \in Nat /\ walk.failure = "none"
  BY FileFacts, GoingFacts
<1>5. "PageMap" \in Kinds /\ 0 \in Nat /\ HeaderBytes >= HeaderBytes
  BY Sizes DEF Kinds
<1>6. QED
  BY <1>1, <1>2, <1>3, <1>4, <1>5, EnterOk

LEMMA FeedSysHeaderOk ==
  ASSUME Going, NEW n \in Nat \ {0}, n <= Read.len, FeedSysHeader(n)
  PROVE  StepOk(walk')
<1>1. walk.stage = "SysHeader"
  BY DEF FeedSysHeader
<1>2. /\ walk \in WalkType /\ walk.failure = "none" /\ walk.filled = HeaderBytes
      /\ Located(walk) /\ walk.done < SysBytes /\ Quiet(walk) /\ Unread(walk)
  BY <1>1, GoingFacts DEF WalkOk
<1>3. walk.done \in Nat
  BY <1>2, WalkFields
<1>4. CASE walk.done + n < SysBytes /\ Then([walk EXCEPT !.done = @ + n], <<>>)
  <2>1. walk' = [walk EXCEPT !.done = @ + n]
    BY <1>4 DEF Then
  <2>2. walk.done + n \in Nat
    BY <1>3
  <2>3. walk' \in WalkType
    BY <1>2, <2>1, <2>2 DEF WalkType
  <2>4. Located(walk') /\ Quiet(walk') /\ Unread(walk')
    BY <1>2, <2>1 DEF Located, Quiet, Unread, WalkType
  <2>5. walk'.stage = "SysHeader" /\ walk'.filled = HeaderBytes /\ walk'.done < SysBytes
    BY <1>1, <1>2, <1>4, <2>1 DEF WalkType
  <2>6. QED
    BY <2>3, <2>4, <2>5 DEF StepOk, WalkOk
<1>5. CASE SystemHeader /\ Then([walk EXCEPT !.done = 0, !.summed = 0, !.stage = "Check"], <<>>)
  <2>1. walk' = [walk EXCEPT !.done = 0, !.summed = 0, !.stage = "Check"]
    BY <1>5 DEF Then
  <2>2. walk' \in WalkType
    BY <1>2, <2>1 DEF WalkType, Stages
  <2>3. Located(walk') /\ Quiet(walk') /\ Unread(walk')
    BY <1>2, <2>1 DEF Located, Quiet, Unread, WalkType
  <2>4. /\ walk'.stage = "Check" /\ walk'.filled = HeaderBytes /\ walk'.done = 0
        /\ walk'.at = walk.at /\ walk'.kind = walk.kind /\ walk'.size = walk.size
    BY <1>2, <2>1 DEF WalkType
  <2>5. KeptSysOk(walk')
    BY <1>2, <1>5, <2>4 DEF KeptSysOk, SystemHeader, Page, Fits, WalkType, Kinds
  <2>6. PageAt(walk'.at).comp \in Nat
    BY PageFacts, GoingFacts
  <2>7. QED
    BY <2>2, <2>3, <2>4, <2>5, <2>6 DEF StepOk, WalkOk
<1>6. CASE Fail("SystemPage")
  BY <1>1, <1>6, FailOk DEF Errors
<1>7. QED
  BY <1>4, <1>5, <1>6 DEF FeedSysHeader

LEMMA FeedCheckOk ==
  ASSUME Going, NEW n \in Nat \ {0}, n <= Read.len, FeedCheck(n)
  PROVE  StepOk(walk')
<1>1. /\ walk.stage = "Check"
      /\ walk' = [walk EXCEPT !.done = @ + n, !.summed = @ + n]
  BY DEF FeedCheck, Then
<1>2. /\ walk \in WalkType /\ walk.failure = "none" /\ walk.filled = HeaderBytes
      /\ Located(walk) /\ KeptSysOk(walk) /\ Quiet(walk) /\ Unread(walk)
  BY <1>1, GoingFacts DEF WalkOk
<1>3. walk.done \in Nat /\ walk.summed \in Nat /\ walk.done + n \in Nat /\ walk.summed + n \in Nat
  BY <1>2, WalkFields
<1>4. walk.done + n <= PageAt(walk.at).comp
  <2>1. Read.len <= Left /\ Left \in Nat /\ Read.len \in Nat
    BY <1>1, ReadFacts DEF Going
  <2>2. PageAt(walk.at).comp \in Nat
    BY PageFacts, GoingFacts
  <2>3. QED
    BY <1>3, <2>1, <2>2 DEF Left, Page
<1>5. walk' \in WalkType
  BY <1>1, <1>2, <1>3 DEF WalkType
<1>6. Located(walk') /\ Quiet(walk') /\ Unread(walk')
  BY <1>1, <1>2 DEF Located, Quiet, Unread, WalkType
<1>7. /\ walk'.stage = "Check" /\ walk'.filled = HeaderBytes /\ walk'.done = walk.done + n
      /\ walk'.at = walk.at /\ walk'.kind = walk.kind /\ walk'.size = walk.size
  BY <1>1, <1>2 DEF WalkType
<1>8. KeptSysOk(walk')
  BY <1>2, <1>7 DEF KeptSysOk
<1>9. QED
  BY <1>4, <1>5, <1>6, <1>7, <1>8 DEF StepOk, WalkOk

LEMMA PumpCheckedOk ==
  ASSUME Going, PumpChecked
  PROVE  StepOk(walk')
<1> DEFINE open == IF walk.kind = "PageMap" THEN "Entry" ELSE "Count"
<1>1. walk.stage = "Check"
  BY DEF PumpChecked
<1>2. /\ walk \in WalkType /\ walk.failure = "none" /\ walk.filled = HeaderBytes
      /\ Located(walk) /\ KeptSysOk(walk) /\ Quiet(walk) /\ Unread(walk)
  BY <1>1, GoingFacts DEF WalkOk
<1>3. CASE Fail("SystemPageChecksum")
  BY <1>1, <1>3, FailOk DEF Errors
<1>4. CASE walk' = [walk EXCEPT !.stage = "Decode", !.done = 0, !.summed = 0, !.carried = 0,
                               !.lz = NewLz, !.have = 0, !.open = open]
  <2>1. open \in Openings
    BY DEF Openings
  <2>2. NewLz \in LzType /\ NewLz.consumed = 0
    BY DEF NewLz, LzType
  <2>3. walk' \in WalkType
    <3> DEFINE half == [walk EXCEPT !.stage = "Decode", !.done = 0, !.summed = 0, !.carried = 0]
    <3>1. half \in WalkType
      BY <1>2 DEF WalkType, Stages
    <3>2. walk' = [half EXCEPT !.lz = NewLz, !.have = 0, !.open = open]
      BY <1>4
    <3> HIDE DEF open, half
    <3>3. QED
      BY <2>1, <2>2, <3>1, <3>2 DEF WalkType
  <2>4. /\ walk'.stage = "Decode" /\ walk'.filled = HeaderBytes /\ walk'.done = 0
        /\ walk'.at = walk.at /\ walk'.kind = walk.kind /\ walk'.size = walk.size
        /\ walk'.summed = 0 /\ walk'.carried = 0 /\ walk'.have = 0
        /\ walk'.open = open /\ walk'.lz = NewLz
        /\ walk'.address = walk.address /\ walk'.selfSeen = walk.selfSeen
        /\ walk'.mapAt = walk.mapAt /\ walk'.mapSize = walk.mapSize
        /\ walk'.index = walk.index /\ walk'.sections = walk.sections /\ walk'.refs = walk.refs
    BY <1>2, <1>4 DEF WalkType
  <2>5. Unread(walk')
    BY <1>2, <2>4 DEF Unread
  <2>6. Located(walk')
    <3>1. walk'.have <= SizeOf(walk'.open) /\ walk'.carried <= CarryBytes
      BY <2>1, <2>4, Sizes
    <3>2. QED
      BY <1>2, <2>4, <2>5, <3>1 DEF Located
  <2>7. KeptSysOk(walk')
    BY <1>2, <2>4 DEF KeptSysOk
  <2>8. RecordsOk(walk')
    BY <1>2, <2>4, <2>5 DEF RecordsOk, Unread, WalkType, Kinds
  <2>9. PageAt(walk'.at).comp \in Nat
    BY PageFacts, GoingFacts
  <2>10. QED
    BY <2>2, <2>3, <2>4, <2>6, <2>7, <2>8, <2>9 DEF StepOk, WalkOk
<1>5. QED
  BY <1>3, <1>4 DEF PumpChecked, Then

----------------------------------------------------------------------------
(* Decoding.  w is the walk with what the decoder has put out.              *)

Decoding(w) ==
  /\ w \in WalkType /\ w.failure = "none" /\ w.stage = "Decode"
  /\ WalkOk(w)
  /\ w.at = walk.at /\ w.kind = walk.kind /\ walk.stage = "Decode"

LEMMA DecodingFacts ==
  ASSUME NEW w, Decoding(w)
  PROVE  /\ w \in WalkType /\ w.failure = "none" /\ w.stage = "Decode" /\ w.filled = HeaderBytes
         /\ Located(w) /\ KeptSysOk(w) /\ RecordsOk(w) /\ w.done <= PageAt(w.at).comp
         /\ w.lz.consumed + w.carried = w.done /\ w.summed = 0
BY DEF Decoding, WalkOk

\* The next record is opened, with nothing of it read.
LEMMA OpenOk ==
  ASSUME NEW w, Decoding(w), NEW v \in WalkType, NEW open \in Openings,
         v.stage = "Decode", v.failure = "none", v.filled = w.filled, v.at = w.at,
         v.kind = w.kind, v.size = w.size, v.done = w.done, v.summed = w.summed, v.lz = w.lz,
         v.carried = w.carried, v.address >= HeaderBytes,
         w.kind = "PageMap" => open = "Entry" /\ Unread(v),
         w.kind = "SectionMap" =>
           /\ v.selfSeen = w.selfSeen /\ v.mapAt = w.mapAt /\ v.mapSize = w.mapSize
           /\ \/ open = "Section" /\ v.refs = 0 /\ v.sections > 0
              \/ open = "Ref" /\ v.refs > 0 /\ v.index > 0 /\ v.maxPage > 0
              \/ open = "None" /\ v.refs = 0 /\ v.sections = 0
  PROVE  StepOk(Open(v, open))
<1> DEFINE u == Open(v, open)
<1>1. /\ u \in WalkType
      /\ u.open = open /\ u.have = 0 /\ u.stage = v.stage /\ u.kind = v.kind
      /\ u.at = v.at /\ u.size = v.size /\ u.done = v.done /\ u.summed = v.summed
      /\ u.lz = v.lz /\ u.carried = v.carried /\ u.filled = v.filled
      /\ u.address = v.address /\ u.selfSeen = v.selfSeen
      /\ u.mapAt = v.mapAt /\ u.mapSize = v.mapSize /\ u.index = v.index
      /\ u.maxPage = v.maxPage
      /\ u.sections = v.sections /\ u.refs = v.refs /\ u.failure = v.failure
  BY OpenFacts
<1> HIDE DEF u
<1>2. /\ w \in WalkType /\ w.filled = HeaderBytes
      /\ Located(w) /\ KeptSysOk(w) /\ w.done <= PageAt(w.at).comp
      /\ w.lz.consumed + w.carried = w.done /\ w.summed = 0
  BY DecodingFacts
<1>3. w.kind \in Kinds /\ SizeOf(open) \in Nat
  BY <1>2, WalkFields, Sizes
<1>4. Located(u)
  BY <1>1, <1>2, <1>3 DEF Located, Unread
<1>5. KeptSysOk(u)
  BY <1>1, <1>2 DEF KeptSysOk
<1>6. RecordsOk(u)
  BY <1>1, <1>3 DEF RecordsOk, Kinds
<1>7. WalkOk(u)
  BY <1>1, <1>2, <1>4, <1>5, <1>6 DEF WalkOk
<1>8. StepOk(u)
  BY <1>1, <1>7 DEF StepOk
<1>9. QED
  BY <1>8 DEF u

LEMMA EnteredFacts ==
  ASSUME NEW w \in WalkType, NEW r, r.size \in Nat
  PROVE  LET v == Entered(w, r)
         IN /\ v \in WalkType
            /\ v.address = w.address + r.size
            /\ v.stage = w.stage /\ v.kind = w.kind /\ v.filled = w.filled
            /\ v.at = w.at /\ v.size = w.size /\ v.done = w.done /\ v.summed = w.summed
            /\ v.lz = w.lz /\ v.carried = w.carried /\ v.index = w.index
            /\ v.sections = w.sections /\ v.refs = w.refs /\ v.failure = w.failure
<1> DEFINE u == IF r.number = file.sectionMapId
                THEN [w EXCEPT !.mapAt = w.address, !.mapSize = r.size] ELSE w
           seen == u.selfSeen \/ r.number = file.pageMapId
           v == [u EXCEPT !.address = @ + r.size, !.entries = @ + 1, !.selfSeen = seen]
<1>1. /\ u \in WalkType
      /\ u.address = w.address /\ u.entries = w.entries /\ u.selfSeen = w.selfSeen
      /\ u.stage = w.stage /\ u.kind = w.kind /\ u.filled = w.filled
      /\ u.at = w.at /\ u.size = w.size /\ u.done = w.done /\ u.summed = w.summed
      /\ u.lz = w.lz /\ u.carried = w.carried /\ u.index = w.index
      /\ u.sections = w.sections /\ u.refs = w.refs /\ u.failure = w.failure
  BY DEF WalkType
<1>2. Entered(w, r) = v
  BY DEF Entered
<1> HIDE DEF u
<1>3. u.address + r.size \in Nat /\ u.entries + 1 \in Nat /\ seen \in BOOLEAN
  BY <1>1, WalkFields
<1> HIDE DEF seen
<1>4. v \in WalkType
  BY <1>1, <1>3 DEF WalkType
<1>5. /\ v.address = u.address + r.size
      /\ v.stage = u.stage /\ v.kind = u.kind /\ v.filled = u.filled
      /\ v.at = u.at /\ v.size = u.size /\ v.done = u.done /\ v.summed = u.summed
      /\ v.lz = u.lz /\ v.carried = u.carried /\ v.index = u.index
      /\ v.sections = u.sections /\ v.refs = u.refs /\ v.failure = u.failure
  BY <1>1 DEF WalkType
<1> HIDE DEF v
<1>6. QED
  BY <1>1, <1>2, <1>4, <1>5

LEMMA PageRecordOk ==
  ASSUME Going, NEW w, Decoding(w), w.kind = "PageMap", w.have = SizeOf(w.open), PageRecord(w)
  PROVE  StepOk(walk')
<1> DEFINE r == Whole(w)
<1>1. /\ w \in WalkType /\ w.failure = "none" /\ w.stage = "Decode" /\ w.filled = HeaderBytes
      /\ Located(w) /\ KeptSysOk(w) /\ RecordsOk(w) /\ w.done <= PageAt(w.at).comp
      /\ w.lz.consumed + w.carried = w.done /\ w.summed = 0
  BY DecodingFacts
<1>2. r.number \in Int /\ r.size \in Nat
  BY <1>1, RecordFacts, GoingFacts, WalkFields DEF Whole
<1>3. r = RecordAt(w.at, w.nth)
  BY DEF Whole
<1> HIDE DEF r
<1>4. CASE r.number < 0 /\ w.open = "Entry" /\ Then([w EXCEPT !.open = "Gap"], <<>>)
  <2> DEFINE v == [w EXCEPT !.open = "Gap"]
  <2>1. walk' = v
    BY <1>4 DEF Then
  <2>2. v \in WalkType
    BY <1>1 DEF WalkType, Openings
  <2>3. /\ v.open = "Gap" /\ v.have = w.have /\ v.stage = w.stage /\ v.kind = w.kind
        /\ v.at = w.at /\ v.size = w.size /\ v.done = w.done /\ v.summed = w.summed
        /\ v.lz = w.lz /\ v.carried = w.carried /\ v.filled = w.filled /\ v.nth = w.nth
        /\ v.address = w.address /\ v.index = w.index
        /\ v.sections = w.sections /\ v.refs = w.refs
    BY <1>1 DEF WalkType
  <2> HIDE DEF v
  <2>4. Located(v)
    <3>1. v.have <= SizeOf("Gap")
      BY <1>4, <2>3, Sizes DEF Openings
    <3>2. QED
      BY <1>1, <2>3, <3>1 DEF Located, Unread
  <2>5. KeptSysOk(v)
    BY <1>1, <2>3 DEF KeptSysOk
  <2>6. RecordsOk(v)
    BY <1>3, <1>4, <2>3 DEF RecordsOk
  <2>7. QED
    BY <1>1, <2>1, <2>2, <2>3, <2>4, <2>5, <2>6 DEF StepOk, WalkOk
<1>5. CASE Fail("PageEntry") \/ Fail("PageMapSelf")
  BY <1>5, FailOk DEF Errors, Decoding
<1>6. CASE walk' = Open(Entered(w, r), "Entry")
  <2> DEFINE v == Entered(w, r)
  <2>1. /\ v \in WalkType
        /\ v.address = w.address + r.size
        /\ v.stage = w.stage /\ v.kind = w.kind /\ v.filled = w.filled
        /\ v.at = w.at /\ v.size = w.size /\ v.done = w.done /\ v.summed = w.summed
        /\ v.lz = w.lz /\ v.carried = w.carried /\ v.index = w.index
        /\ v.sections = w.sections /\ v.refs = w.refs /\ v.failure = w.failure
    BY <1>1, <1>2, EnteredFacts
  <2> HIDE DEF v
  <2>2. v.address >= HeaderBytes
    <3>1. w.address \in Nat /\ w.address >= HeaderBytes
      BY <1>1, WalkFields DEF Located
    <3>2. QED
      BY <1>2, <2>1, <3>1, Sizes
  <2>3. Unread(v)
    BY <1>1, <2>1 DEF Located, Unread
  <2>4. "Entry" \in Openings
    BY DEF Openings
  <2>5. StepOk(Open(v, "Entry"))
    BY <1>1, <2>1, <2>2, <2>3, <2>4, OpenOk
  <2>6. QED
    BY <1>6, <2>5 DEF v
<1>7. QED
  BY <1>4, <1>5, <1>6 DEF PageRecord, Then, r

\* `next_record`, with the counts it decides by.
LEMMA NextRecordOk ==
  ASSUME NEW w, Decoding(w), NEW v \in WalkType, w.kind = "SectionMap",
         v.stage = "Decode", v.failure = "none", v.filled = w.filled, v.at = w.at,
         v.kind = w.kind, v.size = w.size, v.done = w.done, v.summed = w.summed, v.lz = w.lz,
         v.carried = w.carried, v.address = w.address,
         v.selfSeen = w.selfSeen, v.mapAt = w.mapAt, v.mapSize = w.mapSize,
         v.refs > 0 => v.index > 0 /\ v.maxPage > 0
  PROVE  StepOk(NextRecord(v))
<1> DEFINE open == IF v.refs > 0 THEN "Ref" ELSE IF v.sections > 0 THEN "Section" ELSE "None"
<1>1. v.refs \in Nat /\ v.sections \in Nat
  BY WalkFields
<1>2. open \in Openings
  BY DEF Openings
<1>3. v.address >= HeaderBytes
  BY DecodingFacts DEF Located
<1>4. /\ \/ open = "Section" /\ v.refs = 0 /\ v.sections > 0
         \/ open = "Ref" /\ v.refs > 0 /\ v.index > 0 /\ v.maxPage > 0
         \/ open = "None" /\ v.refs = 0 /\ v.sections = 0
  BY <1>1
<1>5. NextRecord(v) = Open(v, open)
  BY DEF NextRecord
<1> HIDE DEF open
<1>6. QED
  BY <1>2, <1>3, <1>4, <1>5, OpenOk

LEMMA SectionRecordOk ==
  ASSUME Going, NEW w, Decoding(w), w.kind = "SectionMap", SectionRecord(w)
  PROVE  StepOk(walk')
<1> DEFINE r == Whole(w)
<1>1. /\ w \in WalkType /\ w.failure = "none" /\ w.stage = "Decode" /\ RecordsOk(w)
  BY DecodingFacts
<1>2. r.count \in Nat /\ r.id \in Nat /\ r.maxPage \in Nat /\ r.start \in Nat
  BY <1>1, RecordFacts, GoingFacts, WalkFields DEF Whole
<1> HIDE DEF r
<1>3. w.sections \in Nat /\ w.refs \in Nat /\ w.index \in Nat /\ w.index + 1 \in Nat
  BY <1>1, WalkFields
<1>4. CASE Fail("SectionMapHeader") \/ Fail("SectionEntry")
  BY <1>4, FailOk DEF Errors, Decoding
<1>5. CASE w.open = "Count" /\ walk' = NextRecord([w EXCEPT !.sections = r.count])
  <2> DEFINE v == [w EXCEPT !.sections = r.count]
  <2>1. v \in WalkType
    BY <1>1, <1>2 DEF WalkType
  <2>2. /\ v.stage = w.stage /\ v.failure = w.failure /\ v.filled = w.filled /\ v.at = w.at
        /\ v.kind = w.kind /\ v.size = w.size /\ v.done = w.done /\ v.summed = w.summed
        /\ v.lz = w.lz /\ v.carried = w.carried /\ v.address = w.address
        /\ v.selfSeen = w.selfSeen /\ v.mapAt = w.mapAt /\ v.mapSize = w.mapSize
        /\ v.refs = w.refs
    BY <1>1 DEF WalkType
  <2>3. w.refs = 0
    BY <1>1, <1>5 DEF RecordsOk
  <2> HIDE DEF v
  <2>4. StepOk(NextRecord(v))
    BY <1>1, <2>1, <2>2, <2>3, NextRecordOk
  <2>5. QED
    BY <1>5, <2>4 DEF v
<1>6. CASE /\ w.open = "Section" /\ r.maxPage # 0
           /\ walk' = NextRecord([w EXCEPT !.index = @ + 1, !.id = r.id, !.maxPage = r.maxPage,
                                           !.refs = r.count, !.firstRef = TRUE,
                                           !.sections = @ - 1])
  <2> DEFINE half == [w EXCEPT !.index = @ + 1, !.id = r.id, !.maxPage = r.maxPage]
             v == [half EXCEPT !.refs = r.count, !.firstRef = TRUE, !.sections = @ - 1]
  <2>1. w.sections - 1 \in Nat
    BY <1>1, <1>3, <1>6 DEF RecordsOk
  <2>2. half \in WalkType /\ half.sections = w.sections
    BY <1>1, <1>2, <1>3 DEF WalkType
  <2>3. /\ half.stage = w.stage /\ half.failure = w.failure /\ half.filled = w.filled
        /\ half.at = w.at /\ half.kind = w.kind /\ half.size = w.size /\ half.done = w.done
        /\ half.summed = w.summed /\ half.lz = w.lz /\ half.carried = w.carried
        /\ half.address = w.address /\ half.selfSeen = w.selfSeen /\ half.mapAt = w.mapAt
        /\ half.mapSize = w.mapSize /\ half.index = w.index + 1 /\ half.maxPage = r.maxPage
    BY <1>1 DEF WalkType
  <2>4. walk' = NextRecord(v)
    BY <1>6
  <2> HIDE DEF half
  <2>5. v \in WalkType
    BY <1>2, <2>1, <2>2 DEF WalkType
  <2>6. /\ v.stage = half.stage /\ v.failure = half.failure /\ v.filled = half.filled
        /\ v.at = half.at /\ v.kind = half.kind /\ v.size = half.size /\ v.done = half.done
        /\ v.summed = half.summed /\ v.lz = half.lz /\ v.carried = half.carried
        /\ v.address = half.address /\ v.selfSeen = half.selfSeen /\ v.mapAt = half.mapAt
        /\ v.mapSize = half.mapSize /\ v.index = half.index /\ v.maxPage = half.maxPage
    BY <2>2 DEF WalkType
  <2> HIDE DEF v
  <2>7. v.index > 0 /\ v.maxPage > 0
    BY <1>2, <1>3, <1>6, <2>3, <2>6
  <2>8. StepOk(NextRecord(v))
    BY <1>1, <2>3, <2>5, <2>6, <2>7, NextRecordOk
  <2>9. QED
    BY <2>4, <2>8
<1>7. CASE /\ w.open = "Ref"
           /\ walk' = NextRecord([w EXCEPT !.lastStart = r.start, !.firstRef = FALSE, !.refs = @ - 1])
  <2> DEFINE v == [w EXCEPT !.lastStart = r.start, !.firstRef = FALSE, !.refs = @ - 1]
  <2>1. w.refs - 1 \in Nat /\ w.index > 0 /\ w.maxPage > 0
    BY <1>1, <1>3, <1>7 DEF RecordsOk
  <2>2. v \in WalkType
    BY <1>1, <1>2, <2>1 DEF WalkType
  <2>3. /\ v.stage = w.stage /\ v.failure = w.failure /\ v.filled = w.filled /\ v.at = w.at
        /\ v.kind = w.kind /\ v.size = w.size /\ v.done = w.done /\ v.summed = w.summed
        /\ v.lz = w.lz /\ v.carried = w.carried /\ v.address = w.address
        /\ v.selfSeen = w.selfSeen /\ v.mapAt = w.mapAt /\ v.mapSize = w.mapSize
        /\ v.index = w.index /\ v.maxPage = w.maxPage
    BY <1>1 DEF WalkType
  <2> HIDE DEF v
  <2>4. StepOk(NextRecord(v))
    BY <1>1, <2>1, <2>2, <2>3, NextRecordOk
  <2>5. QED
    BY <1>7, <2>4 DEF v
<1>8. CASE CountRecord(w)
  BY <1>4, <1>5, <1>8 DEF CountRecord, Then, r
<1>9. CASE Description(w)
  BY <1>4, <1>6, <1>9 DEF Description, Then, r
<1>10. CASE Reference(w)
  BY <1>4, <1>7, <1>10 DEF Reference, Then, r
<1>11. QED
  BY <1>8, <1>9, <1>10 DEF SectionRecord

LEMMA FinishPageOk ==
  ASSUME Going, NEW w, Decoding(w), FinishPage(w)
  PROVE  StepOk(walk')
<1> DEFINE quiet == [w EXCEPT !.carried = 0]
           over == [quiet EXCEPT !.stage = "Done"]
<1>1. /\ w \in WalkType /\ w.failure = "none" /\ w.filled = HeaderBytes /\ Located(w)
  BY DecodingFacts
<1>2. w.kind \in Kinds /\ w.mapAt \in Nat /\ w.mapSize \in Nat /\ file \in Files
  BY <1>1, WalkFields, GoingFacts
<1>3. CASE Fail("MapLength") \/ Fail("PageMapSelf") \/ Fail("SectionMapMissing")
  BY <1>3, FailOk DEF Errors, Decoding
<1>4. quiet \in WalkType
  BY <1>1 DEF WalkType
<1>5. /\ quiet.carried = 0 /\ quiet.have = w.have /\ quiet.open = w.open /\ quiet.kind = w.kind
      /\ quiet.at = w.at /\ quiet.size = w.size /\ quiet.filled = w.filled
      /\ quiet.address = w.address /\ quiet.selfSeen = w.selfSeen /\ quiet.mapAt = w.mapAt
      /\ quiet.mapSize = w.mapSize /\ quiet.index = w.index /\ quiet.sections = w.sections
      /\ quiet.refs = w.refs /\ quiet.failure = w.failure /\ quiet.pagesOnly = w.pagesOnly
  BY <1>1 DEF WalkType
<1>6. CASE (w.kind = "SectionMap" \/ w.pagesOnly) /\ walk' = over
  <2> HIDE DEF quiet
  <2>1. over \in WalkType
    BY <1>4 DEF WalkType, Stages
  <2>2. /\ over.carried = 0 /\ over.have = w.have /\ over.open = w.open /\ over.kind = w.kind
        /\ over.at = w.at /\ over.size = w.size /\ over.filled = w.filled
        /\ over.address = w.address /\ over.selfSeen = w.selfSeen /\ over.mapAt = w.mapAt
        /\ over.mapSize = w.mapSize /\ over.index = w.index /\ over.sections = w.sections
        /\ over.refs = w.refs /\ over.pagesOnly = w.pagesOnly /\ over.stage = "Done"
        /\ over.failure = w.failure
    BY <1>4, <1>5 DEF WalkType
  <2> HIDE DEF over
  <2>3. Located(over)
    BY <1>1, <2>2, Sizes DEF Located, Unread
  <2>4. QED
    BY <1>1, <1>6, <2>1, <2>2, <2>3 DEF StepOk, WalkOk
<1>7. CASE /\ w.kind = "PageMap" /\ w.selfSeen /\ w.mapSize > 0
           /\ walk' = Enter(quiet, "SectionMap", w.mapAt, w.mapSize)
  <2> HIDE DEF quiet
  <2>1. quiet.address >= HeaderBytes /\ Unread(quiet)
    BY <1>1, <1>5, <1>7 DEF Located, Unread
  <2>2. "SectionMap" \in Kinds
    BY DEF Kinds
  <2>3. StepOk(Enter(quiet, "SectionMap", w.mapAt, w.mapSize))
    BY <1>1, <1>2, <1>4, <1>5, <1>7, <2>1, <2>2, EnterOk
  <2>4. QED
    BY <1>7, <2>3
<1>8. QED
  BY <1>3, <1>6, <1>7 DEF FinishPage, Then

LEMMA DecodedOk ==
  ASSUME Going, NEW w, Decoding(w), Decoded(w)
  PROVE  StepOk(walk')
<1>1. w.kind \in Kinds
  BY DecodingFacts, WalkFields
<1>2. CASE w.have = SizeOf(w.open) /\ w.kind = "PageMap" /\ PageRecord(w)
  BY <1>2, PageRecordOk
<1>3. CASE w.kind = "SectionMap" /\ SectionRecord(w)
  BY <1>3, SectionRecordOk
<1>4. CASE FinishPage(w)
  BY <1>4, FinishPageOk
<1>5. CASE Fail("Lz77")
  BY <1>5, FailOk DEF Errors, Decoding
<1>6. CASE Then(w, <<>>)
  BY <1>6 DEF Then, StepOk, Decoding
<1>7. QED
  BY <1>1, <1>2, <1>3, <1>4, <1>5, <1>6 DEF Decoded, Kinds

\* The walk after a call c of the decoder.
AfterCall(given, taken, c) ==
  [walk EXCEPT !.done = @ + taken, !.carried = given - c.consumed, !.have = @ + c.produced,
               !.lz = [consumed |-> @.consumed + c.consumed,
                       produced |-> @.produced + c.produced, mode |-> c.mode]]

Called(v, a, b, d, lz) == [v EXCEPT !.done = a, !.carried = b, !.have = d, !.lz = lz]

LEMMA CalledTyped ==
  ASSUME NEW v \in WalkType, NEW a \in Nat, NEW b \in Nat, NEW d \in Nat, NEW lz \in LzType
  PROVE  Called(v, a, b, d, lz) \in WalkType
BY DEF Called, WalkType

LEMMA CalledOk ==
  ASSUME Going, walk.stage = "Decode", NEW given \in Nat, NEW taken \in Nat,
         given <= CarryBytes, walk.done + taken <= PageAt(walk.at).comp,
         walk.lz.consumed + given = walk.done + taken,
         NEW c \in LzCalls(given, SizeOf(walk.open) - walk.have),
         NEW w, w = AfterCall(given, taken, c)
  PROVE  /\ Decoding(w)
         /\ c.consumed \in Nat /\ c.consumed <= given /\ c.produced \in Nat
         /\ c.produced <= SizeOf(walk.open) - walk.have
         /\ w.lz.consumed = walk.lz.consumed + c.consumed
         /\ w.lz.produced = walk.lz.produced + c.produced /\ w.lz.mode = c.mode
         /\ w.have = walk.have + c.produced
         /\ w.at = walk.at /\ w.kind = walk.kind /\ w.size = walk.size /\ w.open = walk.open
         /\ w.nth = walk.nth /\ w.address = walk.address /\ w.selfSeen = walk.selfSeen
         /\ w.mapAt = walk.mapAt /\ w.mapSize = walk.mapSize /\ w.index = walk.index
         /\ w.sections = walk.sections /\ w.refs = walk.refs /\ w.id = walk.id
         /\ w.maxPage = walk.maxPage /\ w.firstRef = walk.firstRef
         /\ w.lastStart = walk.lastStart /\ w.pagesOnly = walk.pagesOnly
<1> DEFINE room == SizeOf(walk.open) - walk.have
           lz == [consumed |-> walk.lz.consumed + c.consumed,
                  produced |-> walk.lz.produced + c.produced, mode |-> c.mode]
           done == walk.done + taken
           left == given - c.consumed
           have == walk.have + c.produced
<1>1. /\ walk \in WalkType /\ walk.failure = "none" /\ walk.filled = HeaderBytes
      /\ Located(walk) /\ KeptSysOk(walk) /\ RecordsOk(walk) /\ walk.summed = 0
  BY GoingFacts DEF WalkOk
<1>2. walk.lz \in LzType /\ walk.have \in Nat /\ walk.done \in Nat /\ walk.open \in Openings
  BY <1>1, WalkFields
<1>3. room \in Nat /\ SizeOf(walk.open) \in Nat
  BY <1>1, <1>2, Sizes DEF Located
<1>4. /\ c.consumed \in Nat /\ c.consumed <= given /\ c.produced \in Nat /\ c.produced <= room
      /\ c.mode \in {"reading", "copying", "done"}
  BY <1>3 DEF LzCalls
<1>5. walk.lz.consumed \in Nat /\ walk.lz.produced \in Nat
  BY <1>2 DEF LzType
<1>6. lz \in LzType /\ lz.consumed = walk.lz.consumed + c.consumed
      /\ lz.produced = walk.lz.produced + c.produced /\ lz.mode = c.mode
  BY <1>4, <1>5 DEF LzType
<1>7. w = Called(walk, done, left, have, lz)
  BY <1>1 DEF AfterCall, Called, WalkType
<1> HIDE DEF lz
<1>8. /\ done \in Nat /\ left \in Nat /\ have \in Nat
      /\ left <= CarryBytes /\ have <= SizeOf(walk.open)
  BY <1>2, <1>3, <1>4, Sizes
<1> HIDE DEF done, left, have
<1>9. /\ w \in WalkType
      /\ w.done = done /\ w.carried = left /\ w.have = have /\ w.lz = lz /\ w.stage = walk.stage
      /\ w.failure = walk.failure /\ w.filled = walk.filled /\ w.at = walk.at
      /\ w.kind = walk.kind /\ w.size = walk.size /\ w.open = walk.open /\ w.nth = walk.nth
      /\ w.summed = walk.summed /\ w.address = walk.address
      /\ w.selfSeen = walk.selfSeen /\ w.mapAt = walk.mapAt /\ w.mapSize = walk.mapSize
      /\ w.index = walk.index /\ w.sections = walk.sections /\ w.refs = walk.refs
      /\ w.id = walk.id /\ w.maxPage = walk.maxPage /\ w.firstRef = walk.firstRef
      /\ w.lastStart = walk.lastStart /\ w.pagesOnly = walk.pagesOnly
  <2>1. walk \in WalkType /\ done \in Nat /\ left \in Nat /\ have \in Nat /\ lz \in LzType
    BY <1>1, <1>6, <1>8
  <2>2. w \in WalkType
    BY <1>7, <2>1, CalledTyped
  <2>3. QED
    BY <1>1, <1>7, <2>2 DEF Called, WalkType
<1>10. Located(w)
  BY <1>1, <1>8, <1>9 DEF Located, Unread
<1>11. KeptSysOk(w) /\ RecordsOk(w)
  BY <1>1, <1>9 DEF KeptSysOk, RecordsOk
<1>12. w.lz.consumed + w.carried = w.done
  BY <1>2, <1>4, <1>5, <1>6, <1>9 DEF done, left
<1>13. Decoding(w)
  BY <1>1, <1>9, <1>10, <1>11, <1>12 DEF Decoding, WalkOk, done
<1>14. QED
  BY <1>4, <1>6, <1>9, <1>13 DEF have

LEMMA DecodeOk ==
  ASSUME Going, walk.stage = "Decode", NEW given \in Nat, NEW taken \in Nat,
         given <= CarryBytes, walk.done + taken <= PageAt(walk.at).comp,
         walk.lz.consumed + given = walk.done + taken,
         Decode(given, taken)
  PROVE  StepOk(walk')
<1>1. CASE Fail("MapLength") \/ Fail("Lz77")
  BY <1>1, FailOk DEF Errors
<1>2. ASSUME NEW c \in LzCalls(given, SizeOf(walk.open) - walk.have),
             Decoded(AfterCall(given, taken, c))
      PROVE  StepOk(walk')
  <2> DEFINE w == AfterCall(given, taken, c)
  <2>1. w = AfterCall(given, taken, c) /\ Decoded(w)
    BY <1>2
  <2> HIDE DEF w
  <2>2. Decoding(w)
    BY <2>1, CalledOk
  <2>3. QED
    BY <2>1, <2>2, DecodedOk
<1>3. QED
  BY <1>1, <1>2 DEF Decode, AfterCall

LEMMA FeedDecodeOk ==
  ASSUME Going, NEW n \in Nat \ {0}, n <= Read.len, FeedDecode(n)
  PROVE  StepOk(walk')
<1>1. walk.stage = "Decode" /\ walk.carried = 0 /\ Decode(n, n)
  BY DEF FeedDecode, NeedsInput
<1>2. /\ walk \in WalkType /\ walk.lz.consumed + walk.carried = walk.done
  BY <1>1, GoingFacts DEF WalkOk
<1>3. walk.done \in Nat /\ walk.lz.consumed \in Nat /\ PageAt(walk.at).comp \in Nat
  BY <1>2, WalkFields, PageFacts, GoingFacts DEF LzType
<1>4. n <= CarryBytes /\ n <= Left
  BY <1>1, ReadFacts, Sizes DEF Going
<1>5. walk.done + n <= PageAt(walk.at).comp
  BY <1>3, <1>4 DEF Left, Page
<1>6. QED
  BY <1>1, <1>2, <1>3, <1>4, <1>5, DecodeOk

LEMMA PumpDecodeOk ==
  ASSUME Going, PumpDecode
  PROVE  StepOk(walk')
<1>1. walk.stage = "Decode" /\ Decode(walk.carried, 0)
  BY DEF PumpDecode
<1>2. /\ walk \in WalkType /\ walk.lz.consumed + walk.carried = walk.done /\ Located(walk)
      /\ walk.done <= PageAt(walk.at).comp
  BY <1>1, GoingFacts DEF WalkOk
<1>3. walk.done \in Nat /\ walk.carried \in Nat /\ walk.carried <= CarryBytes
  BY <1>2, WalkFields DEF Located
<1>4. QED
  BY <1>1, <1>2, <1>3, DecodeOk

----------------------------------------------------------------------------
(* The invariant. *)

\* The walk of a call, with everything else as it was.
LEMMA StepKeeps ==
  ASSUME IInv, StepOk(walk'), file' = file, kept' = kept, restarts' = restarts
  PROVE  IInv'
<1>1. IF walk'.failure = "none" THEN WalkOk(walk)' ELSE walk'.stage # "Done"
  BY WalkOkSame DEF StepOk
<1>2. WalkOk(kept.walk)'
  BY WalkOkSame DEF IInv
<1>3. QED
  BY <1>1, <1>2 DEF IInv, StepOk

Frame == file' = file /\ kept' = kept /\ restarts' = restarts

LEMMA ThenFrame ==
  /\ \A w, new : Then(w, new) => Frame
  /\ \A e : Fail(e) => Frame
BY DEF Then, Fail, Frame

LEMMA RecordFrame ==
  ASSUME NEW w, PageRecord(w) \/ SectionRecord(w) \/ FinishPage(w)
  PROVE  Frame
<1>1. CASE PageRecord(w)
  BY <1>1, ThenFrame DEF PageRecord
<1>2. CASE SectionRecord(w)
  BY <1>2, ThenFrame DEF SectionRecord, CountRecord, Description, Reference
<1>3. CASE FinishPage(w)
  BY <1>3, ThenFrame DEF FinishPage
<1>4. QED
  BY <1>1, <1>2, <1>3

LEMMA DecodeFrame ==
  ASSUME NEW given, NEW taken, Decode(given, taken)
  PROVE  Frame
<1>1. \A w : Decoded(w) => Frame
  BY ThenFrame, RecordFrame DEF Decoded
<1>2. QED
  BY <1>1, ThenFrame DEF Decode

LEMMA WalkKeeps ==
  ASSUME IInv, Walk
  PROVE  IInv'
<1>1. Going
  BY DEF Walk, Going
<1>2. CASE Pump
  <2>1. StepOk(walk')
    BY <1>1, <1>2, PumpHeaderOk, PumpCheckedOk, PumpDecodeOk DEF Pump
  <2>2. Frame
    BY <1>2, ThenFrame, DecodeFrame DEF Pump, PumpHeader, PumpChecked, PumpDecode
  <2>3. QED
    BY <2>1, <2>2, StepKeeps DEF Frame
<1>3. ASSUME NEW scratch \in Scratches, Read.len > 0, ~Truncated,
             Feed(Least(scratch, Least(Read.len, file.length - Read.offset)))
      PROVE  IInv'
  <2> DEFINE n == Least(scratch, Least(Read.len, file.length - Read.offset))
  <2>1. n \in Nat \ {0} /\ n <= Read.len /\ Feed(n)
    BY <1>1, <1>3, FedCount DEF Going
  <2> HIDE DEF n
  <2>2. StepOk(walk')
    BY <1>1, <2>1, FeedHeaderOk, FeedSysHeaderOk, FeedCheckOk, FeedDecodeOk DEF Feed
  <2>3. Frame
    BY <2>1, ThenFrame, DecodeFrame DEF Feed, FeedHeader, FeedSysHeader, FeedCheck, FeedDecode
  <2>4. QED
    BY <2>2, <2>3, StepKeeps DEF Frame
<1>4. QED
  BY <1>2, <1>3 DEF Walk

LEMMA AgainKeeps ==
  ASSUME IInv, Again
  PROVE  IInv'
<1> DEFINE v == [NewWalk EXCEPT !.filled = walk.filled, !.pagesOnly = TRUE]
<1>1. /\ walk.stage = "Done" /\ walk' = Enter(v, "PageMap", file.pageMap, 0)
      /\ file' = file /\ kept' = kept /\ restarts' = restarts
  BY DEF Again
<1>2. walk \in WalkType /\ walk.filled \in 0..HeaderBytes /\ file \in Files
  BY WalkFields DEF IInv
<1>3. v \in WalkType
  BY <1>2, NewWalkTyped DEF WalkType
<1>4. /\ v.filled = walk.filled /\ v.failure = "none" /\ v.address = HeaderBytes
      /\ v.index = 0 /\ v.sections = 0 /\ v.refs = 0
  BY DEF NewWalk
<1> HIDE DEF v
<1>5. IInv'
  <2>1. walk.filled = HeaderBytes
    BY <1>1 DEF IInv, WalkOk
  <2>2. file.pageMap \in Nat /\ "PageMap" \in Kinds /\ 0 \in Nat /\ v.address >= HeaderBytes
    BY <1>2, <1>4, FileFacts, Sizes DEF Kinds
  <2>3. StepOk(walk')
    BY <1>1, <1>2, <1>3, <1>4, <2>1, <2>2, EnterOk DEF Unread
  <2>4. QED
    BY <1>1, <2>3, StepKeeps
<1>6. QED
  BY <1>5

LEMMA SaveKeeps ==
  ASSUME IInv, Save
  PROVE  IInv'
<1>1. /\ walk' = walk /\ file' = file /\ restarts' = restarts /\ kept'.walk = walk
      /\ walk.failure = "none"
  BY DEF Save
<1>2. WalkOk(walk)
  BY <1>1 DEF IInv
<1>3. WalkOk(walk)' /\ WalkOk(kept.walk)'
  BY <1>1, <1>2, WalkOkSame
<1>4. QED
  BY <1>1, <1>3 DEF IInv

LEMMA RestartKeeps ==
  ASSUME IInv, Restart
  PROVE  IInv'
<1> DEFINE k == kept.walk
           v == Restored(k)
<1>1. /\ file' = file /\ kept' = kept /\ restarts' = restarts + 1 /\ restarts < MaxRestarts
      /\ walk' = v
  BY DEF Restart
<1>2. k \in WalkType /\ k.failure = "none" /\ WalkOk(k) /\ file \in Files
  BY DEF IInv
<1> HIDE DEF k
<1>3. StepOk(v)
  <2>1. CASE k.stage = "Decode"
    BY <1>2, <2>1 DEF Restored, StepOk
  <2>2. CASE k.stage # "Decode"
    <3>1. v = [k EXCEPT !.lz = NewLz]
      BY <2>2 DEF Restored
    <3>2. v \in WalkType
      BY <1>2, <3>1 DEF WalkType, LzType, NewLz
    <3>3. /\ v.done = k.done /\ v.carried = k.carried
          /\ v.have = k.have /\ v.stage = k.stage
          /\ v.failure = k.failure /\ v.filled = k.filled /\ v.at = k.at
          /\ v.kind = k.kind /\ v.size = k.size /\ v.open = k.open
          /\ v.address = k.address
          /\ v.selfSeen = k.selfSeen /\ v.mapAt = k.mapAt /\ v.mapSize = k.mapSize
          /\ v.index = k.index /\ v.sections = k.sections /\ v.refs = k.refs
          /\ v.pagesOnly = k.pagesOnly
      BY <1>2, <3>1 DEF WalkType
    <3>4. CASE k.stage = "Header"
      <4>1. k = [NewWalk EXCEPT !.filled = k.filled]
        BY <1>2, <3>4 DEF WalkOk
      <4>2. k.lz = NewLz
        BY <4>1 DEF NewWalk
      <4>3. v = k
        BY <1>2, <3>1, <4>2 DEF WalkType
      <4>4. QED
        BY <1>2, <4>3 DEF StepOk
    <3>5. CASE k.stage # "Header"
      <4> HIDE DEF v
      <4>1. Located(v) <=> Located(k)
        BY <3>3 DEF Located, Unread
      <4>2. (KeptSysOk(v) <=> KeptSysOk(k)) /\ (Quiet(v) <=> Quiet(k)) /\ (Unread(v) <=> Unread(k))
        BY <3>3 DEF KeptSysOk, Quiet, Unread
      <4>3. WalkOk(v)
        BY <1>2, <2>2, <3>3, <3>5, <4>1, <4>2 DEF WalkOk
      <4>4. QED
        BY <1>2, <3>2, <3>3, <4>3 DEF StepOk
    <3>6. QED
      BY <3>4, <3>5
  <2>3. QED
    BY <2>1, <2>2
<1> HIDE DEF v
<1>4. IF walk'.failure = "none" THEN WalkOk(walk)' ELSE walk'.stage # "Done"
  BY <1>1, <1>3, WalkOkSame DEF StepOk
<1>5. WalkOk(kept.walk)'
  BY <1>1, WalkOkSame DEF IInv
<1>6. restarts' \in 0..MaxRestarts
  BY <1>1, Sizes DEF IInv
<1>7. QED
  BY <1>1, <1>3, <1>4, <1>5, <1>6 DEF IInv, StepOk

LEMMA InitIInv == Init => IInv
<1> SUFFICES ASSUME Init PROVE IInv
  OBVIOUS
<1>1. walk = NewWalk /\ kept.walk = NewWalk /\ file \in Files /\ restarts = 0
  BY DEF Init
<1>2. NewWalk = [NewWalk EXCEPT !.filled = NewWalk.filled]
  BY NewWalkTyped DEF WalkType
<1>3. WalkOk(NewWalk)
  BY <1>2, NewWalkTyped DEF WalkOk
<1>4. QED
  BY <1>1, <1>3, NewWalkTyped, Sizes DEF IInv

LEMMA NextKeeps == IInv /\ [Next]_vars => IInv'
<1> SUFFICES ASSUME IInv, [Next]_vars PROVE IInv'
  OBVIOUS
<1>1. CASE Walk
  BY <1>1, WalkKeeps
<1>2. CASE Again
  BY <1>2, AgainKeeps
<1>3. CASE Save
  BY <1>3, SaveKeeps
<1>4. CASE Restart
  BY <1>4, RestartKeeps
<1>5. CASE UNCHANGED vars
  <2>1. walk' = walk /\ file' = file /\ kept' = kept /\ restarts' = restarts
    BY <1>5 DEF vars
  <2>2. StepOk(walk')
    BY <2>1 DEF IInv, StepOk
  <2>3. QED
    BY <2>1, <2>2, StepKeeps
<1>6. QED
  BY <1>1, <1>2, <1>3, <1>4, <1>5 DEF Next

LEMMA Invariant == Spec => []IInv
BY InitIInv, NextKeeps, PTL DEF Spec

----------------------------------------------------------------------------
(* What the runs check, for every value of the constants. *)

\* The walker and what it saved have their types: no count of records still
\* to come goes below zero, nor does the length of a read.
THEOREM TypeCorrect == Spec => []TypeOK
<1>1. IInv => TypeOK
  BY ReadFacts DEF IInv, TypeOK
<1>2. QED
  BY <1>1, Invariant, PTL

\* What a walk saves is accepted when it is restored, as long as the page it
\* is at starts in the source.
THEOREM RestorableHolds == Spec => []RestorableInSource
<1>1. IInv => RestorableInSource
  <2> SUFFICES ASSUME IInv, walk.failure = "none", ~walk.pagesOnly,
                      walk.at + SysBytes <= file.length
               PROVE  Consistent(walk)
    BY DEF RestorableInSource
  <2>1. walk \in WalkType /\ WalkOk(walk)
    BY DEF IInv
  <2>2. walk.kind \in Kinds /\ walk.stage \in Stages
    BY <2>1, WalkFields
  <2>3. CASE walk.stage = "Header"
    BY <2>1, <2>3 DEF WalkOk, Consistent
  <2>4. CASE walk.stage # "Header"
    <3>1. KeptPageOk(walk)
      BY <2>1, <2>2, <2>4 DEF WalkOk, Located, KeptPageOk, Kinds
    <3>2. QED
      BY <2>1, <2>2, <2>4, <3>1 DEF WalkOk, Consistent, Stages
  <2>5. QED
    BY <2>3, <2>4
<1>2. QED
  BY <1>1, Invariant, PTL

\* Behind a system page's header no read leaves the source, the page or its
\* entry in the page map.
THEOREM ReadsConfined == Spec => []ReadsInPage
<1>1. IInv => ReadsInPage
  <2> DEFINE end == Read.offset + Read.len
             comp == PageAt(walk.at).comp
  <2> SUFFICES ASSUME IInv, walk.failure = "none", walk.stage \in {"Check", "Decode"}
               PROVE  /\ end <= file.length
                      /\ Read.len > 0 => Read.offset >= walk.at + SysBytes
                                         /\ end <= walk.at + SysBytes + comp
                      /\ walk.kind = "SectionMap" => end <= walk.mapAt + walk.mapSize
    BY DEF ReadsInPage, Page
  <2>1. /\ walk \in WalkType /\ Located(walk) /\ KeptSysOk(walk) /\ walk.done <= comp
        /\ file \in Files
    BY DEF IInv, WalkOk
  <2>2. /\ walk.at \in Nat /\ walk.done \in Nat /\ walk.mapAt \in Nat /\ walk.mapSize \in Nat
        /\ comp \in Nat /\ file.length \in Nat /\ SysBytes \in Nat
    BY <2>1, WalkFields, PageFacts, FileFacts, Sizes
  <2>3. /\ Read.offset \in Nat /\ Read.len \in Nat /\ Read.len <= comp - walk.done
        /\ \/ Read.offset = 0 /\ Read.len = 0
           \/ Read.offset = walk.at + SysBytes + walk.done
    BY ReadFacts DEF Left, Page
  <2>4. walk.at + SysBytes + comp <= file.length
    BY <2>1 DEF KeptSysOk
  <2>5. walk.kind = "SectionMap" => walk.at = walk.mapAt /\ SysBytes + comp <= walk.mapSize
    BY <2>1 DEF KeptSysOk, Located
  <2>6. CASE Read.offset = 0 /\ Read.len = 0
    BY <2>2, <2>5, <2>6
  <2>7. CASE Read.offset = walk.at + SysBytes + walk.done
    <3> HIDE DEF comp
    <3>1. QED
      BY <2>2, <2>3, <2>4, <2>5, <2>7
  <2>8. QED
    BY <2>3, <2>6, <2>7
<1>2. QED
  BY <1>1, Invariant, PTL

----------------------------------------------------------------------------
(* Naturals. *)

LEMMA Below ==
  ASSUME NEW i \in Nat, NEW j \in Nat, i < j
  PROVE  <<i, j>> \in OpToRel(<, Nat)
BY Zenon DEF OpToRel

LEMMA LeastMember ==
  ASSUME NEW T \in SUBSET Nat, T # {}
  PROVE  \E e \in T : \A f \in T : e <= f
<1> DEFINE R == OpToRel(<, Nat)
<1>1. IsWellFoundedOn(R, Nat)
  BY NatLessThanWellFounded
<1>2. \A i, j \in Nat : i < j => <<i, j>> \in R
  BY Below
<1> HIDE DEF R
<1>3. PICK e \in T : \A f \in T : ~(<<f, e>> \in R)
  BY <1>1, WFMin
<1>4. ASSUME NEW f \in T, ~(e <= f) PROVE FALSE
  <2>1. e \in Nat /\ f \in Nat /\ f < e
    BY <1>4
  <2>2. QED
    BY <1>2, <1>3, <2>1
<1>5. QED
  BY <1>4

LEMMA SetInduction ==
  ASSUME NEW T \in SUBSET Nat, 0 \in T, \A n \in T : n + 1 \in T
  PROVE  T = Nat
<1> SUFFICES ASSUME Nat \ T # {} PROVE FALSE
  OBVIOUS
<1>1. PICK e \in Nat \ T : \A f \in Nat \ T : e <= f
  BY LeastMember
<1>2. e - 1 \in Nat /\ e - 1 + 1 = e /\ ~(e <= e - 1)
  BY <1>1
<1>3. QED
  BY <1>1, <1>2

LEMMA LeastIs ==
  ASSUME NEW S \in SUBSET Nat, NEW e \in S, \A f \in S : e <= f
  PROVE  Min(S) = e
<1> DEFINE m == Min(S)
<1>1. m \in S /\ \A f \in S : m <= f
  BY Zenon DEF Min
<1> HIDE DEF m
<1>2. m <= e /\ e <= m /\ m \in Nat /\ e \in Nat
  BY <1>1
<1>3. m = e
  BY <1>2
<1>4. QED
  BY <1>3 DEF m

LEMMA GreatestIs ==
  ASSUME NEW S \in SUBSET Nat, NEW e \in S, \A f \in S : f <= e
  PROVE  Max(S) = e
<1> DEFINE m == Max(S)
<1>1. e \in S /\ \A f \in S : e >= f
  BY DEF Max
<1>2. m \in S /\ \A f \in S : m >= f
  BY <1>1, Zenon DEF Max
<1> HIDE DEF m
<1>3. m >= e /\ e >= m /\ m \in Nat /\ e \in Nat
  BY <1>1, <1>2
<1>4. m = e
  BY <1>3
<1>5. QED
  BY <1>4 DEF m

LEMMA GreatestMember ==
  ASSUME NEW n \in Nat, NEW S \in SUBSET (0..n), S # {}
  PROVE  Max(S) \in S /\ \A i \in S : i <= Max(S)
<1> DEFINE B == {b \in 0..n : \A i \in S : i <= b}
<1>1. n \in B /\ B \in SUBSET Nat
  OBVIOUS
<1>2. PICK b \in B : \A c \in B : b <= c
  BY <1>1, LeastMember
<1>3. b \in S
  <2> SUFFICES ASSUME b \notin S PROVE FALSE
    OBVIOUS
  <2>1. b \in 0..n /\ \A i \in S : i <= b /\ i \in 0..n
    BY <1>2
  <2>2. \A i \in S : i # b
    OBVIOUS
  <2>3. \A i \in S : i <= b - 1
    BY <2>1, <2>2
  <2>4. b - 1 \in 0..n
    <3>1. PICK i \in S : TRUE
      OBVIOUS
    <3>2. QED
      BY <2>1, <2>3, <3>1
  <2>5. b - 1 \in B
    BY <2>3, <2>4
  <2>6. QED
    BY <1>2, <2>1, <2>5
<1>4. b \in Nat /\ S \in SUBSET Nat /\ \A y \in S : y <= b
  BY <1>2
<1> HIDE DEF B
<1>5. Max(S) = b
  BY <1>3, <1>4, GreatestIs
<1>6. QED
  BY <1>3, <1>4, <1>5

\* The recursion has a solution, so `Iterated` is one.
LEMMA IteratedFacts ==
  ASSUME NEW first, NEW step
  PROVE  /\ Iterated(first, step)[0] = first
         /\ \A n \in Nat : Iterated(first, step)[n + 1] = step[n][Iterated(first, step)[n]]
<1> DEFINE Upto(n, f) == f = [m \in 0..n |-> IF m = 0 THEN first ELSE step[m - 1][f[m - 1]]]
<1>1. ASSUME NEW n \in Nat, NEW f, Upto(n, f)
      PROVE  f[0] = first /\ \A m \in 1..n : f[m] = step[m - 1][f[m - 1]]
  <2>1. \A m \in 0..n : f[m] = IF m = 0 THEN first ELSE step[m - 1][f[m - 1]]
    BY <1>1, Zenon
  <2>2. 0 \in 0..n /\ \A m \in 1..n : m \in 0..n /\ m # 0
    OBVIOUS
  <2> HIDE DEF Upto
  <2>3. QED
    BY <2>1, <2>2, Zenon
<1>2. ASSUME NEW n \in Nat, NEW k \in Nat, NEW f, NEW g, Upto(n, f), Upto(k, g), n <= k
      PROVE  \A m \in 0..n : f[m] = g[m]
  <2> DEFINE T == {m \in Nat : m <= n => f[m] = g[m]}
  <2>1. 0 \in T
    BY <1>1, <1>2
  <2>2. ASSUME NEW m \in T PROVE m + 1 \in T
    <3>1. SUFFICES ASSUME m + 1 <= n PROVE f[m + 1] = g[m + 1]
      BY <2>2
    <3>2. m + 1 \in 1..n /\ m + 1 \in 1..k /\ (m + 1) - 1 = m /\ m <= n
      BY <1>2, <2>2, <3>1
    <3>3. f[m] = g[m]
      BY <2>2, <3>2
    <3>4. f[m + 1] = step[m][f[m]] /\ g[m + 1] = step[m][g[m]]
      BY <1>1, <1>2, <3>2
    <3>5. QED
      BY <3>3, <3>4
  <2> HIDE DEF T
  <2>3. T = Nat
    <3>1. T \in SUBSET Nat
      BY DEF T
    <3>2. QED
      BY <2>1, <2>2, <3>1, SetInduction
  <2>4. QED
    BY <2>3 DEF T
<1>3. \A n \in Nat : \E f : Upto(n, f)
  <2> DEFINE T == {n \in Nat : \E f : Upto(n, f)}
  <2>1. 0 \in T
    <3> DEFINE g == [m \in 0..0 |-> first]
    <3>1. Upto(0, g)
      OBVIOUS
    <3>2. QED
      BY <3>1
  <2>2. ASSUME NEW n \in T PROVE n + 1 \in T
    <3>1. PICK f : Upto(n, f)
      BY <2>2
    <3> DEFINE g == [m \in 0..(n + 1) |-> IF m = n + 1 THEN step[n][f[n]] ELSE f[m]]
    <3>2. n \in Nat /\ f[0] = first /\ \A m \in 1..n : f[m] = step[m - 1][f[m - 1]]
      BY <1>1, <2>2, <3>1
    <3>3. ASSUME NEW m \in 0..(n + 1)
          PROVE  g[m] = IF m = 0 THEN first ELSE step[m - 1][g[m - 1]]
      <4>1. CASE m = 0
        BY <3>2, <4>1
      <4>2. CASE m \in 1..n
        <5>1. m - 1 \in 0..(n + 1) /\ m - 1 # n + 1 /\ m # n + 1 /\ m # 0
          BY <3>2, <4>2
        <5>2. QED
          BY <3>2, <4>2, <5>1
      <4>3. CASE m = n + 1
        <5>1. m - 1 = n /\ n \in 0..(n + 1) /\ n # n + 1 /\ m # 0
          BY <3>2, <4>3
        <5>2. g[n] = f[n] /\ g[m] = step[n][f[n]]
          BY <4>3, <5>1
        <5>3. QED
          BY <5>1, <5>2
      <4>4. QED
        BY <3>2, <4>1, <4>2, <4>3
    <3>4. Upto(n + 1, g)
      BY <3>3
    <3> HIDE DEF Upto, g
    <3>5. QED
      BY <3>2, <3>4
  <2> HIDE DEF T
  <2>3. T = Nat
    <3>1. T \in SUBSET Nat
      BY DEF T
    <3>2. QED
      BY <2>1, <2>2, <3>1, SetInduction
  <2>4. QED
    BY <2>3 DEF T
<1> DEFINE part(n) == CHOOSE f : Upto(n, f)
           all == [n \in Nat |-> part(n)[n]]
<1>4. \A n \in Nat : Upto(n, part(n))
  BY <1>3
<1> HIDE DEF Upto, part
<1>5. \A n \in Nat : n # 0 => part(n)[n - 1] = part(n - 1)[n - 1]
  <2>1. SUFFICES ASSUME NEW n \in Nat, n # 0
                 PROVE  part(n)[n - 1] = part(n - 1)[n - 1]
    OBVIOUS
  <2>2. n - 1 \in Nat /\ n - 1 \in 0..(n - 1) /\ n - 1 <= n
    BY <2>1
  <2>3. QED
    BY <1>2, <1>4, <2>2
<1>6. all = [n \in Nat |-> IF n = 0 THEN first ELSE step[n - 1][all[n - 1]]]
  <2>1. \A n \in Nat : part(n)[n] = IF n = 0 THEN first ELSE step[n - 1][all[n - 1]]
    <3>1. SUFFICES ASSUME NEW n \in Nat
                   PROVE  part(n)[n] = IF n = 0 THEN first ELSE step[n - 1][all[n - 1]]
      OBVIOUS
    <3>2. CASE n = 0
      BY <1>1, <1>4, <3>2
    <3>3. CASE n # 0
      <4>1. n - 1 \in Nat /\ n \in 1..n
        BY <3>3
      <4>2. part(n)[n] = step[n - 1][part(n)[n - 1]]
        BY <1>1, <1>4, <4>1
      <4>3. QED
        BY <1>5, <3>3, <4>1, <4>2
    <3>4. QED
      BY <3>2, <3>3
  <2>2. QED
    BY <2>1
<1> DEFINE whole == Iterated(first, step)
<1>7. whole = [n \in Nat |-> IF n = 0 THEN first ELSE step[n - 1][whole[n - 1]]]
  BY <1>6 DEF Iterated
<1> HIDE DEF whole
<1>8. whole[0] = first
  BY <1>7
<1>9. \A n \in Nat : n + 1 \in Nat /\ n + 1 # 0 /\ (n + 1) - 1 = n
  OBVIOUS
<1>10. \A n \in Nat : whole[n + 1] = step[n][whole[n]]
  BY <1>7, <1>9
<1>11. QED
  BY <1>8, <1>10 DEF whole

\* A sum grows by what is added, and never falls.
LEMMA SumFacts ==
  ASSUME NEW first \in Nat, NEW f, \A n \in Nat : f[n] \in Nat
  PROVE  LET sum == SumFrom(first, f)
         IN /\ sum[0] = first
            /\ \A n \in Nat : sum[n] \in Nat /\ sum[n + 1] = sum[n] + f[n]
            /\ \A m, n \in Nat : m <= n => sum[m] <= sum[n]
<1> DEFINE sum == SumFrom(first, f)
           step == [n \in Nat |-> [x \in Nat |-> x + f[n]]]
<1>1. sum = Iterated(first, step)
  BY DEF SumFrom
<1>2. \A n \in Nat, x \in Nat : step[n][x] = x + f[n]
  OBVIOUS
<1> HIDE DEF sum, step
<1>7. sum[0] = first /\ \A n \in Nat : sum[n + 1] = step[n][sum[n]]
  <2>1. /\ Iterated(first, step)[0] = first
        /\ \A n \in Nat : Iterated(first, step)[n + 1] = step[n][Iterated(first, step)[n]]
    BY IteratedFacts
  <2>2. QED
    BY <1>1, <2>1, Zenon
<1>3. \A n \in Nat : sum[n] \in Nat
  <2> DEFINE T == {n \in Nat : sum[n] \in Nat}
  <2>1. 0 \in T
    BY <1>7
  <2>2. ASSUME NEW n \in T PROVE n + 1 \in T
    <3>1. n \in Nat /\ sum[n] \in Nat /\ sum[n + 1] = sum[n] + f[n] /\ f[n] \in Nat
      BY <1>2, <1>7, <2>2
    <3>2. QED
      BY <3>1
  <2>3. T = Nat
    <3>1. T \in SUBSET Nat
      OBVIOUS
    <3> HIDE DEF T
    <3>2. QED
      BY <2>1, <2>2, <3>1, SetInduction
  <2>4. QED
    BY <2>3
<1>4. \A n \in Nat : sum[n + 1] = sum[n] + f[n]
  BY <1>2, <1>3, <1>7
<1>5. ASSUME NEW m \in Nat, NEW n \in Nat, m <= n PROVE sum[m] <= sum[n]
  <2> DEFINE T == {d \in Nat : sum[m] <= sum[m + d]}
  <2>1. 0 \in T
    BY <1>3
  <2>2. ASSUME NEW d \in T PROVE d + 1 \in T
    <3>1. d \in Nat /\ m + d \in Nat /\ sum[m] <= sum[m + d] /\ m + (d + 1) = (m + d) + 1
      BY <2>2
    <3>2. /\ sum[(m + d) + 1] = sum[m + d] + f[m + d]
          /\ sum[m] \in Nat /\ sum[m + d] \in Nat /\ f[m + d] \in Nat
      BY <1>3, <1>4, <3>1
    <3>3. QED
      BY <3>1, <3>2
  <2>3. T = Nat
    <3>1. T \in SUBSET Nat
      OBVIOUS
    <3> HIDE DEF T
    <3>2. QED
      BY <2>1, <2>2, <3>1, SetInduction
  <2>4. n - m \in Nat /\ m + (n - m) = n
    BY <1>5
  <2>5. n - m \in T
    BY <2>3, <2>4
  <2>6. QED
    BY <2>4, <2>5
<1>6. QED
  BY <1>3, <1>4, <1>5, <1>7 DEF sum

----------------------------------------------------------------------------
(* Sequences. *)

IsSeq(s) == \E S : s \in Seq(S)

LEMMA SeqWider ==
  ASSUME NEW S, NEW T, NEW s \in Seq(S)
  PROVE  s \in Seq(S \cup T) /\ s \in Seq(T \cup S)
<1>1. Len(s) \in Nat /\ DOMAIN s = 1..Len(s) /\ s \in [1..Len(s) -> S]
  OBVIOUS
<1>2. s \in [1..Len(s) -> S \cup T] /\ s \in [1..Len(s) -> T \cup S]
  BY <1>1
<1>3. QED
  BY <1>1, <1>2

LEMMA TwoSeqs ==
  ASSUME NEW a, NEW b, IsSeq(a), IsSeq(b)
  PROVE  \E S : a \in Seq(S) /\ b \in Seq(S)
<1>1. PICK S : a \in Seq(S)
  BY DEF IsSeq
<1>2. PICK T : b \in Seq(T)
  BY DEF IsSeq
<1>3. a \in Seq(S \cup T) /\ b \in Seq(S \cup T)
  BY <1>1, <1>2, SeqWider
<1>4. QED
  BY <1>3

LEMMA ConcatIsSeq ==
  ASSUME NEW a, NEW b, IsSeq(a), IsSeq(b)
  PROVE  IsSeq(a \o b)
<1>1. PICK S : a \in Seq(S) /\ b \in Seq(S)
  BY TwoSeqs
<1>2. a \o b \in Seq(S)
  BY <1>1
<1>3. QED
  BY <1>2 DEF IsSeq

LEMMA EmptyFacts ==
  ASSUME NEW a, IsSeq(a)
  PROVE  <<>> \o a = a /\ a \o <<>> = a
<1>1. PICK S : a \in Seq(S)
  BY DEF IsSeq
<1>2. QED
  BY <1>1

LEMMA SingleIsSeq ==
  ASSUME NEW x
  PROVE  IsSeq(<<x>>) /\ IsSeq(<<>>)
<1>1. <<x>> \in Seq({x}) /\ <<>> \in Seq({x})
  OBVIOUS
<1>2. QED
  BY <1>1 DEF IsSeq

LEMMA ConcatAssociative ==
  ASSUME NEW a, NEW b, NEW c, IsSeq(a), IsSeq(b), IsSeq(c)
  PROVE  (a \o b) \o c = a \o (b \o c)
<1>1. PICK S : a \in Seq(S) /\ b \in Seq(S)
  BY TwoSeqs
<1>2. PICK T : c \in Seq(T)
  BY DEF IsSeq
<1> DEFINE U == S \cup T
<1>3. a \in Seq(U) /\ b \in Seq(U) /\ c \in Seq(U)
  BY <1>1, <1>2, SeqWider
<1> HIDE DEF U
<1> DEFINE l == (a \o b) \o c
           r == a \o (b \o c)
<1>4. /\ Len(a) \in Nat /\ Len(b) \in Nat /\ Len(c) \in Nat
      /\ a \o b \in Seq(U) /\ b \o c \in Seq(U)
      /\ Len(a \o b) = Len(a) + Len(b) /\ Len(b \o c) = Len(b) + Len(c)
  BY <1>3
<1>5. l \in Seq(U) /\ r \in Seq(U) /\ Len(l) = Len(a) + Len(b) + Len(c) /\ Len(r) = Len(l)
  BY <1>3, <1>4
<1>6. ASSUME NEW i \in 1..Len(l) PROVE l[i] = r[i]
  BY <1>3, <1>4, <1>5, <1>6
<1> HIDE DEF l, r
<1>7. l = r
  BY <1>5, <1>6
<1>8. QED
  BY <1>7 DEF l, r

\* Without its last.
LEMMA FrontIs ==
  ASSUME NEW a, NEW x, IsSeq(a)
  PROVE  SubSeq(a \o <<x>>, 1, Len(a \o <<x>>) - 1) = a
<1>1. PICK S : a \in Seq(S) /\ <<x>> \in Seq(S)
  BY TwoSeqs, SingleIsSeq
<1> DEFINE s == a \o <<x>>
           f == SubSeq(s, 1, Len(s) - 1)
<1>2. s \in Seq(S) /\ Len(s) = Len(a) + 1 /\ Len(a) \in Nat /\ \A i \in 1..Len(a) : s[i] = a[i]
  BY <1>1
<1> HIDE DEF s
<1>3. f \in Seq(S) /\ Len(f) = Len(a) /\ \A i \in 1..Len(a) : f[i] = s[i]
  <2>1. Len(s) - 1 = Len(a)
    BY <1>2
  <2>2. QED
    BY <1>2, <2>1
<1> HIDE DEF f
<1>4. f = a
  BY <1>1, <1>2, <1>3
<1>5. QED
  BY <1>4 DEF f, s

\* The first n of a function of numbers, one more at a time, behind x.
LEMMA RunFacts ==
  ASSUME NEW x, NEW n \in Nat, NEW f
  PROVE  LET run(k) == <<x>> \o [i \in 1..k |-> f[i - 1]]
         IN /\ IsSeq(run(n))
            /\ run(0) = <<x>>
            /\ run(n + 1) = run(n) \o <<f[n]>>
<1> DEFINE S == {x} \cup {f[i] : i \in 0..n}
           tail(k) == [i \in 1..k |-> f[i - 1]]
           run(k) == <<x>> \o tail(k)
<1>1. <<x>> \in Seq(S)
  OBVIOUS
<1>2. ASSUME NEW k \in Nat, k <= n + 1 PROVE tail(k) \in Seq(S)
  <2>1. \A i \in 1..k : i - 1 \in 0..n
    BY <1>2
  <2>2. \A i \in 1..k : f[i - 1] \in S
    BY <2>1
  <2> HIDE DEF S
  <2>3. tail(k) \in [1..k -> S]
    BY <2>2
  <2>4. QED
    BY <2>3
<1>3. tail(n) \in Seq(S) /\ tail(n + 1) \in Seq(S) /\ f[n] \in S
  BY <1>2
<1>4. Len(tail(n)) = n /\ Len(tail(n + 1)) = n + 1
  BY <1>3
<1>5. <<f[n]>> \in Seq(S)
  BY <1>3
<1> DEFINE s == tail(n)
           t == tail(n + 1)
<1>6. \A i \in 1..n : t[i] = s[i]
  OBVIOUS
<1>7. t[n + 1] = f[n]
  OBVIOUS
<1> HIDE DEF S, s, t
<1>8. t = s \o <<f[n]>>
  <2>1. /\ s \in Seq(S) /\ t \in Seq(S) /\ Len(s) = n /\ Len(t) = n + 1
    BY <1>3, <1>4 DEF s, t
  <2> DEFINE u == s \o <<f[n]>>
  <2>2. /\ u \in Seq(S) /\ Len(u) = n + 1 /\ u[n + 1] = f[n] /\ \A i \in 1..n : u[i] = s[i]
    BY <1>5, <2>1
  <2> HIDE DEF u
  <2>3. \A i \in 1..(n + 1) : i \in 1..n \/ i = n + 1
    OBVIOUS
  <2>4. \A i \in 1..(n + 1) : u[i] = t[i]
    BY <1>6, <1>7, <2>2, <2>3
  <2>5. u = t
    BY <2>1, <2>2, <2>4
  <2>6. QED
    BY <2>5 DEF u
<1>9. IsSeq(<<x>>) /\ IsSeq(s) /\ IsSeq(<<f[n]>>)
  BY <1>1, <1>3, <1>5 DEF IsSeq, s
<1> DEFINE y == <<x>>
           z == <<f[n]>>
<1>10. y \o (s \o z) = (y \o s) \o z /\ IsSeq(y \o s)
  <2>1. IsSeq(y) /\ IsSeq(s) /\ IsSeq(z)
    BY <1>9
  <2> HIDE DEF y, z
  <2>2. QED
    BY <2>1, ConcatAssociative, ConcatIsSeq
<1>11. run(0) = <<x>>
  <2>1. tail(0) = <<>>
    OBVIOUS
  <2>2. <<x>> \o <<>> = <<x>>
    OBVIOUS
  <2>3. QED
    BY <2>1, <2>2
<1>12. run(n + 1) = run(n) \o <<f[n]>> /\ IsSeq(run(n))
  BY <1>8, <1>10 DEF s, t
<1>13. QED
  BY <1>11, <1>12

----------------------------------------------------------------------------
(* Readings of one page. *)

PageCommit(kind, at) == [step |-> "SystemPage", kind |-> kind, at |-> at]

Run(x, n, f) == <<x>> \o [i \in 1..n |-> f[i - 1]]

LEMMA RightFacts ==
  ASSUME NEW fault, NEW n \in Nat, NEW k \in 0..n, \A i \in 0..(k - 1) : fault[i] = "none",
         k = n \/ fault[k] # "none"
  PROVE  Right(fault, n) = k
<1> DEFINE S == {i \in 0..n : i = n \/ fault[i] # "none"}
<1>1. S \in SUBSET Nat /\ k \in S
  OBVIOUS
<1>2. ASSUME NEW i \in S, ~(k <= i) PROVE FALSE
  <2>1. i \in 0..(k - 1) /\ i # n
    BY <1>2
  <2>2. fault[i] = "none"
    BY <2>1
  <2>3. QED
    BY <2>1, <2>2
<1>3. Min(S) = k
  <2> HIDE DEF S
  <2>1. \A i \in S : k <= i
    BY <1>2
  <2>2. QED
    BY <1>1, <2>1, LeastIs
<1>4. QED
  BY <1>3 DEF Right

LEMMA PageRefused ==
  ASSUME NEW kind, NEW at, NEW size, NEW n, NEW step, NEW fault, NEW end,
         PageFault(PageAt(at), kind, at, size) # "none"
  PROVE  PageReading(kind, at, size, n, step, fault, end)
           = Outcome(<<>>, PageFault(PageAt(at), kind, at, size))
BY DEF PageReading

LEMMA PageRead ==
  ASSUME NEW kind, NEW at, NEW size, NEW n \in Nat, NEW step, NEW fault, NEW end,
         PageFault(PageAt(at), kind, at, size) = "none",
         NEW k \in 0..n, \A i \in 0..(k - 1) : fault[i] = "none",
         k = n \/ fault[k] # "none"
  PROVE  PageReading(kind, at, size, n, step, fault, end)
           = Outcome(Run(PageCommit(kind, at), k, step), IF k = n THEN end ELSE fault[k])
<1>1. Right(fault, n) = k
  BY RightFacts
<1>2. k < n <=> k # n
  OBVIOUS
<1>3. PageReading(kind, at, size, n, step, fault, end)
        = Outcome(Run(PageCommit(kind, at), k, step), IF k < n THEN fault[k] ELSE end)
  BY <1>1 DEF PageReading, Run, PageCommit
<1>4. QED
  BY <1>2, <1>3

----------------------------------------------------------------------------
(* Where a walk that follows the reading is, and what it has committed.    *)

HeaderTold(w) == IF w.pagesOnly THEN <<>> ELSE <<[step |-> "Header"]>>

EntriesTold(n) ==
  <<[step |-> "SystemPage", kind |-> "PageMap", at |-> file.pageMap]>>
  \o [i \in 1..n |-> EntryStep(i - 1)]

RecordsTold(at, n) ==
  <<[step |-> "SystemPage", kind |-> "SectionMap", at |-> at]>>
  \o [i \in 1..n |-> RecordStep(at, i - 1)]

\* n entries are right, and have left what they leave.
Listed(w, n) ==
  /\ \A i \in 0..(n - 1) : EntryFault(i) = "none"
  /\ w.address = Address[n]
  /\ w.selfSeen <=> Numbered(file.pageMapId, n) # {}
  /\ LET found == Numbered(file.sectionMapId, n)
     IN IF found = {} THEN w.mapSize = 0
        ELSE w.mapAt = Address[Max(found)] /\ w.mapSize = EntryAt(Max(found)).size

\* n records are right, and the counts are of what is behind them.
Counting(w, n) ==
  LET o == Owner(w.at)[n - 1]
      r == RecordAt(w.at, o)
  IN IF n = 0 THEN Unread(w)
     ELSE /\ w.index = Described(w.at)[n]
          /\ w.sections = RecordAt(w.at, 0).count - w.index
          /\ o = 0 => w.refs = 0
          /\ o > 0 => /\ w.refs = r.count - (n - 1 - o)
                      /\ w.id = r.id /\ w.maxPage = r.maxPage
                      /\ w.firstRef <=> o = n - 1
                      /\ o # n - 1 => w.lastStart = RecordAt(w.at, n - 1).start

Counted(w, n) ==
  /\ \A i \in 0..(n - 1) : RecordFault(w.at, i) = "none" /\ ~Complete(w.at, i)
  /\ Counting(w, n)
  /\ w.open = IF Complete(w.at, n) THEN "None" ELSE FormOf(w.at, n)

\* What the decoder has of the page's stream.
Streams(w) ==
  LET p == PageAt(w.at)
  IN /\ w.lz.produced <= p.yields
     /\ IF w.lz.mode = "done"
        THEN w.lz.consumed = p.needs /\ w.lz.produced = p.yields /\ p.ends = "terminator"
        ELSE w.lz.consumed < p.needs
     /\ w.lz.mode = "reading" /\ w.lz.consumed > 0 /\ w.lz.consumed + 1 = p.needs =>
          w.lz.produced = p.yields

\* The section map's page, as the page map has it.
SectionMapPlaced(w) ==
  LET found == Numbered(file.sectionMapId, Entries)
  IN /\ ~w.pagesOnly
     /\ PageMapReading = Outcome(EntriesTold(Entries), "none")
     /\ found # {}
     /\ w.at = Address[Max(found)] /\ w.size = EntryAt(Max(found)).size

InHeader(w, told) ==
  /\ told = <<>>
  /\ w.filled >= MagicBytes => MagicBytes <= file.length /\ file.magic = "none"
  /\ w.filled = HeaderBytes => HeaderFaults = "none"

InPageMap(w, told) ==
  /\ ~w.pagesOnly => HeaderFaults = "none"
  /\ Listed(w, w.nth)
  /\ IF w.stage = "Decode"
     THEN /\ told = HeaderTold(w) \o EntriesTold(w.nth)
          /\ w.lz.produced = EntryStart[w.nth] + w.have
     ELSE told = HeaderTold(w) /\ w.nth = 0

InSectionMap(w, told) ==
  /\ HeaderFaults = "none"
  /\ SectionMapPlaced(w)
  /\ IF w.stage = "Decode"
     THEN /\ told = HeaderTold(w) \o EntriesTold(Entries) \o RecordsTold(w.at, w.nth)
          /\ Counted(w, w.nth)
          /\ w.lz.produced = RecordStart(w.at)[w.nth] + w.have
     ELSE told = HeaderTold(w) \o EntriesTold(Entries) /\ w.nth = 0

Follows(w, told) ==
  /\ w.stage = "Header" => InHeader(w, told)
  /\ w.stage \in {"SysHeader", "Check", "Decode"} =>
       IF w.kind = "PageMap" THEN InPageMap(w, told) ELSE InSectionMap(w, told)
  /\ w.stage = "Check" => w.summed = w.done
  /\ w.stage = "Decode" => PageAt(w.at).sum /\ Streams(w)
  /\ w.stage = "Done" =>
       LET r == IF w.pagesOnly THEN SecondPass ELSE FirstPass
       IN told = r.commits /\ r.failure = "none"

Agreed ==
  \/ commits = Reading.commits /\ walk.failure = Reading.failure
  \/ CutShort

AInv ==
  /\ IInv
  /\ Follows(kept.walk, kept.commits)
  /\ IF walk.failure = "none" THEN Follows(walk, commits) ELSE Agreed

----------------------------------------------------------------------------
(* Starts of records. *)

LEMMA StartFacts ==
  ASSUME NEW f, \A n \in Nat : f[n] \in Nat \ {0}
  PROVE  LET start == SumFrom(0, f)
         IN /\ start[0] = 0
            /\ \A n \in Nat : start[n] \in Nat /\ start[n + 1] = start[n] + f[n] /\ n <= start[n]
            /\ \A m, n \in Nat : m <= n => start[m] <= start[n]
<1> DEFINE start == SumFrom(0, f)
<1>1. /\ start[0] = 0
      /\ \A n \in Nat : start[n] \in Nat /\ start[n + 1] = start[n] + f[n]
      /\ \A m, n \in Nat : m <= n => start[m] <= start[n]
  BY SumFacts
<1> HIDE DEF start
<1> DEFINE T == {n \in Nat : n <= start[n]}
<1>2. 0 \in T
  BY <1>1
<1>3. ASSUME NEW n \in T PROVE n + 1 \in T
  <2>1. n \in Nat /\ n <= start[n] /\ start[n] \in Nat /\ f[n] \in Nat \ {0}
        /\ start[n + 1] = start[n] + f[n]
    BY <1>1
  <2>2. QED
    BY <2>1
<1>4. T = Nat
  <2>1. T \in SUBSET Nat
    OBVIOUS
  <2> HIDE DEF T
  <2>2. QED
    BY <1>2, <1>3, <2>1, SetInduction
<1>5. \A n \in Nat : n <= start[n]
  BY <1>4
<1>6. QED
  BY <1>1, <1>5 DEF start

EntryForm(n) == IF EntryAt(n).number < 0 THEN "Gap" ELSE "Entry"

LEMMA EntryFacts ==
  ASSUME file \in Files
  PROVE  /\ EntryStart[0] = 0 /\ Address[0] = HeaderBytes
         /\ \A n \in Nat : /\ EntryStart[n] \in Nat /\ n <= EntryStart[n]
                           /\ EntryStart[n + 1] = EntryStart[n] + SizeOf(EntryForm(n))
                           /\ SizeOf(EntryForm(n)) \in Nat \ {0}
                           /\ Address[n] \in Nat
                           /\ Address[n + 1] = Address[n] + EntryAt(n).size
                           /\ EntryAt(n).size \in Nat /\ EntryAt(n).number \in Int
         /\ \A m, n \in Nat : m <= n => EntryStart[m] <= EntryStart[n]
<1> DEFINE f == [n \in Nat |-> SizeOf(IF EntryAt(n).number < 0 THEN "Gap" ELSE "Entry")]
           g == [n \in Nat |-> EntryAt(n).size]
<1>1. \A n \in Nat : EntryAt(n).size \in Nat /\ EntryAt(n).number \in Int
  BY RecordFacts DEF EntryAt
<1>2. \A n \in Nat : f[n] = SizeOf(EntryForm(n)) /\ g[n] = EntryAt(n).size
  BY DEF EntryForm
<1>3. \A n \in Nat : SizeOf(EntryForm(n)) \in Nat \ {0}
  <2>1. SizeOf("Gap") \in Nat \ {0} /\ SizeOf("Entry") \in Nat \ {0}
    BY SizesAssumption DEF SizeOf
  <2>2. QED
    BY <2>1 DEF EntryForm
<1>4. EntryStart = SumFrom(0, f) /\ Address = SumFrom(HeaderBytes, g)
  BY DEF EntryStart, Address
<1> HIDE DEF f, g
<1>5. \A n \in Nat : f[n] \in Nat \ {0} /\ g[n] \in Nat
  BY <1>1, <1>2, <1>3
<1>6. /\ EntryStart[0] = 0
      /\ \A n \in Nat : EntryStart[n] \in Nat /\ EntryStart[n + 1] = EntryStart[n] + f[n]
                        /\ n <= EntryStart[n]
      /\ \A m, n \in Nat : m <= n => EntryStart[m] <= EntryStart[n]
  BY <1>4, <1>5, StartFacts
<1>7. HeaderBytes \in Nat
  BY Sizes
<1>8. Address[0] = HeaderBytes
      /\ \A n \in Nat : Address[n] \in Nat /\ Address[n + 1] = Address[n] + g[n]
  BY <1>4, <1>5, <1>7, SumFacts
<1>9. QED
  BY <1>1, <1>2, <1>3, <1>6, <1>8

\* The last that starts before the stream's end is the last that is whole.
LEMMA EntriesIs ==
  ASSUME file \in Files, NEW n \in Nat, EntryStart[n] <= PageMap.yields,
         PageMap.yields < EntryStart[n + 1]
  PROVE  Entries = n
<1> DEFINE yields == PageMap.yields
           S == {m \in 0..yields : EntryStart[m] <= yields}
<1>1. yields \in Nat
  BY PageFacts DEF PageMap
<1>2. Entries = Max(S)
  BY DEF Entries
<1> HIDE DEF yields
<1>3. n \in S /\ S \in SUBSET Nat
  <2>1. EntryStart[n] \in Nat /\ n <= EntryStart[n] /\ EntryStart[n] <= yields
    BY EntryFacts DEF yields
  <2>2. n \in 0..yields
    BY <1>1, <2>1
  <2>3. QED
    BY <2>1, <2>2
<1>4. ASSUME NEW m \in S PROVE m <= n
  <2>1. m \in Nat /\ EntryStart[m] <= yields /\ yields < EntryStart[n + 1] /\ n + 1 \in Nat
    BY DEF yields
  <2>2. n + 1 <= m => EntryStart[n + 1] <= EntryStart[m]
    BY <2>1, EntryFacts
  <2>3. EntryStart[m] \in Nat /\ EntryStart[n + 1] \in Nat
    BY <2>1, EntryFacts
  <2>4. QED
    BY <1>1, <2>1, <2>2, <2>3
<1> HIDE DEF S
<1>5. QED
  BY <1>2, <1>3, <1>4, GreatestIs

LEMMA EntriesAtLeast ==
  ASSUME file \in Files, NEW n \in Nat, EntryStart[n] <= PageMap.yields
  PROVE  Entries \in Nat /\ n <= Entries
<1> DEFINE yields == PageMap.yields
           S == {m \in 0..yields : EntryStart[m] <= yields}
<1>1. yields \in Nat
  BY PageFacts DEF PageMap
<1>2. Entries = Max(S)
  BY DEF Entries
<1> HIDE DEF yields
<1>3. n \in S /\ S \in SUBSET (0..yields)
  <2>1. EntryStart[n] \in Nat /\ n <= EntryStart[n] /\ EntryStart[n] <= yields
    BY EntryFacts DEF yields
  <2>2. n \in 0..yields
    BY <1>1, <2>1
  <2>3. QED
    BY <2>1, <2>2
<1> HIDE DEF S
<1>4. Max(S) \in S /\ \A i \in S : i <= Max(S)
  BY <1>1, <1>3, GreatestMember
<1>5. QED
  <2>1. Max(S) \in 0..yields /\ n <= Max(S)
    BY <1>3, <1>4
  <2>2. QED
    BY <1>1, <1>2, <2>1

LEMMA EntriesNat ==
  ASSUME file \in Files
  PROVE  Entries \in Nat
<1>1. PageMap.yields \in Nat
  BY PageFacts DEF PageMap
<1>2. 0 \in Nat /\ EntryStart[0] <= PageMap.yields
  BY <1>1, EntryFacts
<1>3. QED
  BY <1>2, EntriesAtLeast

LEMMA EntriesToldFacts ==
  ASSUME NEW n \in Nat
  PROVE  /\ IsSeq(EntriesTold(n))
         /\ EntriesTold(0) = <<PageCommit("PageMap", file.pageMap)>>
         /\ EntriesTold(n + 1) = EntriesTold(n) \o <<EntryStep(n)>>
         /\ EntriesTold(n) = Run(PageCommit("PageMap", file.pageMap), n,
                                 [m \in Nat |-> EntryStep(m)])
<1> DEFINE f == [m \in Nat |-> EntryStep(m)]
           x == PageCommit("PageMap", file.pageMap)
           run(k) == <<x>> \o [i \in 1..k |-> f[i - 1]]
<1>1. ASSUME NEW k \in Nat PROVE EntriesTold(k) = run(k)
  <2>1. \A i \in 1..k : f[i - 1] = EntryStep(i - 1)
    OBVIOUS
  <2> HIDE DEF f
  <2>2. [i \in 1..k |-> f[i - 1]] = [i \in 1..k |-> EntryStep(i - 1)]
    BY <2>1
  <2>3. QED
    BY <2>2 DEF EntriesTold, PageCommit
<1>2. f[n] = EntryStep(n)
  OBVIOUS
<1> HIDE DEF f, x
<1>3. IsSeq(run(n)) /\ run(0) = <<x>> /\ run(n + 1) = run(n) \o <<f[n]>>
  BY RunFacts
<1>4. EntriesTold(0) = run(0) /\ EntriesTold(n) = run(n) /\ EntriesTold(n + 1) = run(n + 1)
  <2>1. 0 \in Nat /\ n + 1 \in Nat
    OBVIOUS
  <2> HIDE DEF run
  <2>2. QED
    BY <1>1, <2>1
<1>5. QED
  BY <1>2, <1>3, <1>4 DEF Run, f, x

----------------------------------------------------------------------------
(* What entries leave, and what the page map reads as. *)

LEMMA NumberedFacts ==
  ASSUME NEW number, NEW n \in Nat
  PROVE  /\ Numbered(number, 0) = {}
         /\ EntryAt(n).number # number => Numbered(number, n + 1) = Numbered(number, n)
         /\ EntryAt(n).number = number =>
              Numbered(number, n + 1) # {} /\ Max(Numbered(number, n + 1)) = n
         /\ Numbered(number, n) # {} =>
              Max(Numbered(number, n)) \in Nat /\ Max(Numbered(number, n)) < n
              /\ EntryAt(Max(Numbered(number, n))).number = number
<1> DEFINE S == Numbered(number, n)
           T == Numbered(number, n + 1)
<1>1. S = {i \in 0..(n - 1) : EntryAt(i).number = number}
  BY DEF Numbered
<1>2. T = {i \in 0..n : EntryAt(i).number = number}
  BY DEF Numbered
<1>3. Numbered(number, 0) = {}
  BY DEF Numbered
<1> HIDE DEF S, T
<1>4. 0..n = (0..(n - 1)) \cup {n}
  OBVIOUS
<1>5. EntryAt(n).number # number => T = S
  BY <1>1, <1>2, <1>4
<1>6. ASSUME EntryAt(n).number = number PROVE T # {} /\ Max(T) = n
  <2>1. n \in T /\ T \in SUBSET Nat /\ \A i \in T : i <= n
    BY <1>2, <1>6
  <2>2. QED
    BY <2>1, GreatestIs
<1>7. ASSUME S # {} PROVE Max(S) \in Nat /\ Max(S) < n /\ EntryAt(Max(S)).number = number
  <2>1. S \in SUBSET (0..n)
    BY <1>1
  <2>2. Max(S) \in S
    BY <1>7, <2>1, GreatestMember
  <2>3. \A i \in S : i \in 0..(n - 1) /\ EntryAt(i).number = number
    BY <1>1
  <2>4. Max(S) \in 0..(n - 1) /\ EntryAt(Max(S)).number = number
    BY <2>2, <2>3
  <2>5. QED
    BY <2>4
<1>8. QED
  BY <1>3, <1>5, <1>6, <1>7 DEF S, T

LEMMA ListedNone ==
  ASSUME file \in Files, NEW w, w.address = HeaderBytes, w.selfSeen = FALSE, w.mapSize = 0
  PROVE  Listed(w, 0)
<1>1. Numbered(file.pageMapId, 0) = {} /\ Numbered(file.sectionMapId, 0) = {}
  BY NumberedFacts
<1>2. Address[0] = HeaderBytes
  BY EntryFacts
<1>3. \A i \in 0..(0 - 1) : FALSE
  OBVIOUS
<1>4. QED
  BY <1>1, <1>2, <1>3 DEF Listed

LEMMA ListedSame ==
  ASSUME NEW v, NEW w, NEW n, Listed(w, n),
         v.address = w.address, v.selfSeen = w.selfSeen, v.mapAt = w.mapAt,
         v.mapSize = w.mapSize
  PROVE  Listed(v, n)
BY DEF Listed

LEMMA EnteredList ==
  ASSUME NEW w \in WalkType, NEW r, r.size \in Nat
  PROVE  LET v == Entered(w, r)
         IN /\ v.selfSeen <=> w.selfSeen \/ r.number = file.pageMapId
            /\ v.selfSeen \in BOOLEAN
            /\ r.number = file.sectionMapId => v.mapAt = w.address /\ v.mapSize = r.size
            /\ r.number # file.sectionMapId => v.mapAt = w.mapAt /\ v.mapSize = w.mapSize
            /\ v.nth = w.nth /\ v.pagesOnly = w.pagesOnly
<1> DEFINE u == IF r.number = file.sectionMapId
                THEN [w EXCEPT !.mapAt = w.address, !.mapSize = r.size] ELSE w
           seen == u.selfSeen \/ r.number = file.pageMapId
           v == [u EXCEPT !.address = @ + r.size, !.entries = @ + 1, !.selfSeen = seen]
<1>1. /\ u \in WalkType /\ u.selfSeen = w.selfSeen /\ u.nth = w.nth /\ u.pagesOnly = w.pagesOnly
      /\ r.number = file.sectionMapId => u.mapAt = w.address /\ u.mapSize = r.size
      /\ r.number # file.sectionMapId => u.mapAt = w.mapAt /\ u.mapSize = w.mapSize
  BY DEF WalkType
<1>2. Entered(w, r) = v
  BY DEF Entered
<1> HIDE DEF u
<1>3. seen \in BOOLEAN
  BY <1>1, WalkFields
<1>4. seen <=> w.selfSeen \/ r.number = file.pageMapId
  BY <1>1
<1> HIDE DEF seen
<1>5. /\ v.selfSeen = seen /\ v.mapAt = u.mapAt /\ v.mapSize = u.mapSize
      /\ v.nth = u.nth /\ v.pagesOnly = u.pagesOnly
  BY <1>1 DEF WalkType
<1> HIDE DEF v
<1>6. QED
  BY <1>1, <1>2, <1>3, <1>4, <1>5

LEMMA ListedMore ==
  ASSUME file \in Files, NEW w \in WalkType, NEW n \in Nat, Listed(w, n),
         EntryFault(n) = "none"
  PROVE  Listed(Entered(w, EntryAt(n)), n + 1)
<1> DEFINE r == EntryAt(n)
           v == Entered(w, r)
           own == Numbered(file.pageMapId, n)
           own1 == Numbered(file.pageMapId, n + 1)
           found == Numbered(file.sectionMapId, n)
           found1 == Numbered(file.sectionMapId, n + 1)
<1>1. r.size \in Nat /\ Address[n + 1] = Address[n] + r.size
  BY EntryFacts
<1>2. v.address = w.address + r.size
  BY <1>1, EnteredFacts
<1>3. /\ v.selfSeen <=> w.selfSeen \/ r.number = file.pageMapId
      /\ r.number = file.sectionMapId => v.mapAt = w.address /\ v.mapSize = r.size
      /\ r.number # file.sectionMapId => v.mapAt = w.mapAt /\ v.mapSize = w.mapSize
  BY <1>1, EnteredList
<1>4. /\ r.number # file.pageMapId => own1 = own
      /\ r.number = file.pageMapId => own1 # {}
      /\ r.number # file.sectionMapId => found1 = found
      /\ r.number = file.sectionMapId => found1 # {} /\ Max(found1) = n
  BY NumberedFacts
<1>5. /\ \A i \in 0..(n - 1) : EntryFault(i) = "none"
      /\ w.address = Address[n]
      /\ w.selfSeen <=> own # {}
      /\ found = {} => w.mapSize = 0
      /\ found # {} => w.mapAt = Address[Max(found)] /\ w.mapSize = EntryAt(Max(found)).size
  BY DEF Listed
<1>6. \A i \in 0..((n + 1) - 1) : EntryFault(i) = "none"
  <2>1. \A i \in 0..((n + 1) - 1) : i \in 0..(n - 1) \/ i = n
    OBVIOUS
  <2>2. QED
    BY <1>5, <2>1
<1>7. r = EntryAt(n)
  OBVIOUS
<1> HIDE DEF r, v, own, own1, found, found1
<1>8. v.selfSeen <=> own1 # {}
  BY <1>3, <1>4, <1>5
<1>9. IF found1 = {} THEN v.mapSize = 0
      ELSE v.mapAt = Address[Max(found1)] /\ v.mapSize = EntryAt(Max(found1)).size
  <2>1. CASE r.number = file.sectionMapId
    BY <1>3, <1>4, <1>5, <1>7, <2>1
  <2>2. CASE r.number # file.sectionMapId
    BY <1>3, <1>4, <1>5, <2>2
  <2>3. QED
    BY <2>1, <2>2
<1>10. v.address = Address[n + 1]
  BY <1>1, <1>2, <1>5
<1>11. Listed(v, n + 1)
  BY <1>6, <1>8, <1>9, <1>10 DEF Listed, own1, found1
<1>12. QED
  BY <1>11 DEF v, r

\* An entry that is right has a size.
LEMMA FoundSized ==
  ASSUME file \in Files, NEW w \in WalkType, NEW n \in Nat, Listed(w, n)
  PROVE  /\ w.mapSize > 0 <=> Numbered(file.sectionMapId, n) # {}
         /\ w.selfSeen <=> Numbered(file.pageMapId, n) # {}
         /\ Numbered(file.sectionMapId, n) # {} =>
              LET last == Max(Numbered(file.sectionMapId, n))
              IN w.mapAt = Address[last] /\ w.mapSize = EntryAt(last).size
<1> DEFINE found == Numbered(file.sectionMapId, n)
<1>1. /\ \A i \in 0..(n - 1) : EntryFault(i) = "none"
      /\ w.selfSeen <=> Numbered(file.pageMapId, n) # {}
      /\ found = {} => w.mapSize = 0
      /\ found # {} => w.mapAt = Address[Max(found)] /\ w.mapSize = EntryAt(Max(found)).size
  BY DEF Listed
<1>2. ASSUME found # {} PROVE w.mapSize > 0
  <2> DEFINE last == Max(found)
  <2>1. last \in Nat /\ last < n
    BY <1>2, NumberedFacts
  <2> HIDE DEF last
  <2>2. last \in 0..(n - 1)
    BY <2>1
  <2>3. EntryFault(last) = "none"
    BY <1>1, <2>2
  <2>4. EntryAt(last).size # 0 /\ EntryAt(last).size \in Nat
    <3>1. EntryAt(last).size # 0
      BY <2>3 DEF EntryFault
    <3>2. QED
      BY <2>1, <3>1, EntryFacts
  <2>5. w.mapSize = EntryAt(last).size
    BY <1>1, <1>2 DEF last
  <2>6. QED
    BY <2>4, <2>5
<1> HIDE DEF found
<1>3. w.mapSize > 0 <=> found # {}
  BY <1>1, <1>2
<1>4. QED
  BY <1>1, <1>3 DEF found

LEMMA PageMapRead ==
  ASSUME file \in Files, NEW n \in Nat,
         PageFault(PageMap, "PageMap", file.pageMap, file.length) = "none",
         \A i \in 0..(n - 1) : EntryFault(i) = "none",
         EntryStart[n] <= PageMap.yields, PageMap.yields < EntryStart[n + 1]
  PROVE  Entries = n /\ PageMapReading = Outcome(EntriesTold(n), PageMapEnd)
<1> DEFINE step == [m \in Nat |-> EntryStep(m)]
           fault == [m \in Nat |-> EntryFault(m)]
<1>1. Entries = n
  BY EntriesIs
<1>2. PageMapReading
        = PageReading("PageMap", file.pageMap, file.length, n, step, fault, PageMapEnd)
  BY <1>1 DEF PageMapReading
<1>3. \A i \in 0..(n - 1) : fault[i] = "none"
  OBVIOUS
<1>4. EntriesTold(n) = Run(PageCommit("PageMap", file.pageMap), n, step)
  BY EntriesToldFacts
<1> HIDE DEF step, fault
<1>5. PageFault(PageAt(file.pageMap), "PageMap", file.pageMap, file.length) = "none"
  BY DEF PageMap
<1>6. PageReading("PageMap", file.pageMap, file.length, n, step, fault, PageMapEnd)
        = Outcome(Run(PageCommit("PageMap", file.pageMap), n, step),
                  IF n = n THEN PageMapEnd ELSE fault[n])
  <2>1. n \in 0..n
    OBVIOUS
  <2>2. QED
    BY <1>3, <1>5, <2>1, PageRead
<1>7. QED
  BY <1>1, <1>2, <1>4, <1>6

LEMMA PageMapStops ==
  ASSUME file \in Files, NEW n \in Nat,
         PageFault(PageMap, "PageMap", file.pageMap, file.length) = "none",
         \A i \in 0..(n - 1) : EntryFault(i) = "none",
         EntryStart[n + 1] <= PageMap.yields, EntryFault(n) # "none"
  PROVE  PageMapReading = Outcome(EntriesTold(n), EntryFault(n))
<1> DEFINE step == [m \in Nat |-> EntryStep(m)]
           fault == [m \in Nat |-> EntryFault(m)]
<1>1. Entries \in Nat /\ n + 1 <= Entries
  <2>1. n + 1 \in Nat
    OBVIOUS
  <2>2. QED
    BY <2>1, EntriesAtLeast
<1>2. PageMapReading
        = PageReading("PageMap", file.pageMap, file.length, Entries, step, fault, PageMapEnd)
  BY DEF PageMapReading
<1>3. (\A i \in 0..(n - 1) : fault[i] = "none") /\ fault[n] = EntryFault(n)
  OBVIOUS
<1>4. EntriesTold(n) = Run(PageCommit("PageMap", file.pageMap), n, step)
  BY EntriesToldFacts
<1> HIDE DEF step, fault
<1>5. PageFault(PageAt(file.pageMap), "PageMap", file.pageMap, file.length) = "none"
  BY DEF PageMap
<1>6. n \in 0..Entries /\ n # Entries
  BY <1>1
<1>7. PageReading("PageMap", file.pageMap, file.length, Entries, step, fault, PageMapEnd)
        = Outcome(Run(PageCommit("PageMap", file.pageMap), n, step),
                  IF n = Entries THEN PageMapEnd ELSE fault[n])
  BY <1>1, <1>3, <1>5, <1>6, PageRead
<1>8. QED
  BY <1>2, <1>3, <1>4, <1>6, <1>7

----------------------------------------------------------------------------
(* Records of a section map. *)

LEMMA OwnerFacts ==
  ASSUME file \in Files, NEW at
  PROVE  /\ Owner(at)[0] = 0
         /\ \A n \in Nat :
              /\ Owner(at)[n] \in Nat /\ Owner(at)[n] <= n
              /\ Owner(at)[n + 1] = IF /\ Owner(at)[n] > 0
                                       /\ n - Owner(at)[n] < RecordAt(at, Owner(at)[n]).count
                                    THEN Owner(at)[n] ELSE n + 1
<1> DEFINE owner == Owner(at)
           step == [n \in Nat |-> [o \in Nat |->
                      IF o > 0 /\ n - o < RecordAt(at, o).count THEN o ELSE n + 1]]
<1>1. owner = Iterated(0, step)
  BY DEF Owner
<1>2. \A n \in Nat, o \in Nat :
        step[n][o] = IF o > 0 /\ n - o < RecordAt(at, o).count THEN o ELSE n + 1
  OBVIOUS
<1> HIDE DEF owner, step
<1>3. owner[0] = 0 /\ \A n \in Nat : owner[n + 1] = step[n][owner[n]]
  <2>1. /\ Iterated(0, step)[0] = 0
        /\ \A n \in Nat : Iterated(0, step)[n + 1] = step[n][Iterated(0, step)[n]]
    BY IteratedFacts
  <2>2. QED
    BY <1>1, <2>1, Zenon
<1> DEFINE T == {n \in Nat : owner[n] \in Nat /\ owner[n] <= n}
<1>4. 0 \in T
  BY <1>3
<1>5. ASSUME NEW n \in T PROVE n + 1 \in T
  <2>1. n \in Nat /\ owner[n] \in Nat /\ owner[n] <= n
    OBVIOUS
  <2>2. owner[n + 1] \in {owner[n], n + 1}
    BY <1>2, <1>3, <2>1
  <2>3. QED
    BY <2>1, <2>2
<1>6. T = Nat
  <2>1. T \in SUBSET Nat
    OBVIOUS
  <2> HIDE DEF T
  <2>2. QED
    BY <1>4, <1>5, <2>1, SetInduction
<1>7. \A n \in Nat : owner[n] \in Nat /\ owner[n] <= n
  BY <1>6
<1>8. \A n \in Nat : owner[n + 1] = IF owner[n] > 0 /\ n - owner[n] < RecordAt(at, owner[n]).count
                                    THEN owner[n] ELSE n + 1
  BY <1>2, <1>3, <1>7
<1>9. QED
  BY <1>3, <1>7, <1>8 DEF owner

LEMMA DescribedFacts ==
  ASSUME file \in Files, NEW at
  PROVE  /\ Described(at)[0] = 0
         /\ \A n \in Nat :
              /\ Described(at)[n] \in Nat
              /\ IsDescription(at, n) => Described(at)[n + 1] = Described(at)[n] + 1
              /\ ~IsDescription(at, n) => Described(at)[n + 1] = Described(at)[n]
<1> DEFINE f == [n \in Nat |-> IF IsDescription(at, n) THEN 1 ELSE 0]
<1>1. \A n \in Nat : f[n] = IF IsDescription(at, n) THEN 1 ELSE 0
  OBVIOUS
<1>2. Described(at) = SumFrom(0, f)
  BY DEF Described
<1> HIDE DEF f
<1>3. \A n \in Nat : f[n] \in Nat
  BY <1>1
<1>4. 0 \in Nat
  OBVIOUS
<1>5. /\ SumFrom(0, f)[0] = 0
      /\ \A n \in Nat : SumFrom(0, f)[n] \in Nat /\ SumFrom(0, f)[n + 1] = SumFrom(0, f)[n] + f[n]
  BY <1>3, <1>4, SumFacts
<1>6. QED
  BY <1>1, <1>2, <1>5

LEMMA RecordStartFacts ==
  ASSUME file \in Files, NEW at
  PROVE  /\ RecordStart(at)[0] = 0
         /\ \A n \in Nat : /\ RecordStart(at)[n] \in Nat /\ n <= RecordStart(at)[n]
                           /\ RecordStart(at)[n + 1] = RecordStart(at)[n] + SizeOf(FormOf(at, n))
                           /\ SizeOf(FormOf(at, n)) \in Nat \ {0}
         /\ \A m, n \in Nat : m <= n => RecordStart(at)[m] <= RecordStart(at)[n]
<1> DEFINE f == [n \in Nat |-> SizeOf(FormOf(at, n))]
<1>1. \A n \in Nat : f[n] = SizeOf(FormOf(at, n))
  OBVIOUS
<1>2. \A n \in Nat : SizeOf(FormOf(at, n)) \in Nat \ {0}
  <2>1. SizeOf("Count") \in Nat \ {0} /\ SizeOf("Section") \in Nat \ {0}
        /\ SizeOf("Ref") \in Nat \ {0}
    BY SizesAssumption DEF SizeOf
  <2>2. QED
    BY <2>1 DEF FormOf
<1>3. RecordStart(at) = SumFrom(0, f)
  BY DEF RecordStart
<1> HIDE DEF f
<1>4. \A n \in Nat : f[n] \in Nat \ {0}
  BY <1>1, <1>2
<1>5. LET start == SumFrom(0, f)
      IN /\ start[0] = 0
         /\ \A n \in Nat : start[n] \in Nat /\ start[n + 1] = start[n] + f[n] /\ n <= start[n]
         /\ \A m, n \in Nat : m <= n => start[m] <= start[n]
  BY <1>4, StartFacts
<1>6. QED
  BY <1>1, <1>2, <1>3, <1>5

LEMMA RecordsIs ==
  ASSUME file \in Files, NEW at, NEW n \in Nat, RecordStart(at)[n] <= PageAt(at).yields,
         \A m \in 0..(n - 1) : ~Complete(at, m),
         Complete(at, n) \/ PageAt(at).yields < RecordStart(at)[n + 1]
  PROVE  Records(at) = n
<1> DEFINE yields == PageAt(at).yields
           start == RecordStart(at)
           S == {k \in 0..yields : start[k] <= yields /\ \A m \in 0..(k - 1) : ~Complete(at, m)}
<1>1. yields \in Nat
  BY PageFacts
<1>2. Records(at) = Max(S)
  BY DEF Records
<1>3. start[n] <= yields /\ (Complete(at, n) \/ yields < start[n + 1])
  OBVIOUS
<1>4. /\ start[n] \in Nat /\ n <= start[n]
      /\ \A k \in Nat : start[k] \in Nat
      /\ \A m, k \in Nat : m <= k => start[m] <= start[k]
  BY RecordStartFacts
<1> HIDE DEF yields, start
<1>5. n \in S /\ S \in SUBSET Nat
  <2>1. n \in 0..yields
    BY <1>1, <1>3, <1>4
  <2>2. QED
    BY <1>3, <2>1
<1>6. ASSUME NEW k \in S PROVE k <= n
  <2>1. k \in Nat /\ start[k] <= yields /\ \A m \in 0..(k - 1) : ~Complete(at, m)
    BY <1>1
  <2>2. CASE Complete(at, n)
    <3>1. ~(n \in 0..(k - 1))
      BY <2>1, <2>2
    <3>2. QED
      BY <2>1, <3>1
  <2>3. CASE yields < start[n + 1]
    <3>1. n + 1 \in Nat
      OBVIOUS
    <3>2. n + 1 <= k => start[n + 1] <= start[k]
      BY <1>4, <2>1, <3>1
    <3>3. start[k] \in Nat /\ start[n + 1] \in Nat
      BY <1>4, <2>1, <3>1
    <3>4. QED
      BY <1>1, <2>1, <2>3, <3>2, <3>3
  <2>4. QED
    BY <1>3, <2>2, <2>3
<1> HIDE DEF S
<1>7. QED
  BY <1>2, <1>5, <1>6, GreatestIs

LEMMA RecordsAtLeast ==
  ASSUME file \in Files, NEW at, NEW n \in Nat, RecordStart(at)[n] <= PageAt(at).yields,
         \A m \in 0..(n - 1) : ~Complete(at, m)
  PROVE  Records(at) \in Nat /\ n <= Records(at)
<1> DEFINE yields == PageAt(at).yields
           start == RecordStart(at)
           S == {k \in 0..yields : start[k] <= yields /\ \A m \in 0..(k - 1) : ~Complete(at, m)}
<1>1. yields \in Nat
  BY PageFacts
<1>2. Records(at) = Max(S)
  BY DEF Records
<1>3. start[n] <= yields /\ start[n] \in Nat /\ n <= start[n]
  BY RecordStartFacts
<1> HIDE DEF yields, start
<1>4. n \in S /\ S \in SUBSET (0..yields)
  <2>1. n \in 0..yields
    BY <1>1, <1>3
  <2>2. QED
    BY <1>3, <2>1
<1> HIDE DEF S
<1>5. Max(S) \in S /\ \A i \in S : i <= Max(S)
  BY <1>1, <1>4, GreatestMember
<1>6. QED
  <2>1. Max(S) \in 0..yields /\ n <= Max(S)
    BY <1>4, <1>5
  <2>2. QED
    BY <1>1, <1>2, <2>1

LEMMA RecordsToldFacts ==
  ASSUME NEW at, NEW n \in Nat
  PROVE  /\ IsSeq(RecordsTold(at, n))
         /\ RecordsTold(at, 0) = <<PageCommit("SectionMap", at)>>
         /\ RecordsTold(at, n + 1) = RecordsTold(at, n) \o <<RecordStep(at, n)>>
         /\ RecordsTold(at, n) = Run(PageCommit("SectionMap", at), n,
                                     [m \in Nat |-> RecordStep(at, m)])
<1> DEFINE f == [m \in Nat |-> RecordStep(at, m)]
           x == PageCommit("SectionMap", at)
           run(k) == <<x>> \o [i \in 1..k |-> f[i - 1]]
<1>1. ASSUME NEW k \in Nat PROVE RecordsTold(at, k) = run(k)
  <2>1. \A i \in 1..k : f[i - 1] = RecordStep(at, i - 1)
    OBVIOUS
  <2> HIDE DEF f
  <2>2. [i \in 1..k |-> f[i - 1]] = [i \in 1..k |-> RecordStep(at, i - 1)]
    BY <2>1
  <2>3. QED
    BY <2>2 DEF RecordsTold, PageCommit
<1>2. f[n] = RecordStep(at, n)
  OBVIOUS
<1> HIDE DEF f, x
<1>3. IsSeq(run(n)) /\ run(0) = <<x>> /\ run(n + 1) = run(n) \o <<f[n]>>
  BY RunFacts
<1>4. /\ RecordsTold(at, 0) = run(0) /\ RecordsTold(at, n) = run(n)
      /\ RecordsTold(at, n + 1) = run(n + 1)
  <2>1. 0 \in Nat /\ n + 1 \in Nat
    OBVIOUS
  <2> HIDE DEF run
  <2>2. QED
    BY <1>1, <2>1
<1>5. QED
  BY <1>2, <1>3, <1>4 DEF Run, f, x

\* n records are right.
RightRecords(at, n) == \A i \in 0..(n - 1) : RecordFault(at, i) = "none" /\ ~Complete(at, i)

LEMMA SectionsRead ==
  ASSUME file \in Files, NEW at, NEW size, NEW n \in Nat,
         PageFault(PageAt(at), "SectionMap", at, size) = "none", RightRecords(at, n),
         RecordStart(at)[n] <= PageAt(at).yields,
         Complete(at, n) \/ PageAt(at).yields < RecordStart(at)[n + 1]
  PROVE  /\ Records(at) = n
         /\ SectionsReading(at, size) = Outcome(RecordsTold(at, n), SectionMapEnd(at))
<1> DEFINE step == [m \in Nat |-> RecordStep(at, m)]
           fault == [m \in Nat |-> RecordFault(at, m)]
<1>1. Records(at) = n
  BY RecordsIs DEF RightRecords
<1>2. SectionsReading(at, size)
        = PageReading("SectionMap", at, size, n, step, fault, SectionMapEnd(at))
  BY <1>1 DEF SectionsReading
<1>3. \A i \in 0..(n - 1) : fault[i] = "none"
  BY DEF RightRecords
<1>4. RecordsTold(at, n) = Run(PageCommit("SectionMap", at), n, step)
  BY RecordsToldFacts
<1> HIDE DEF step, fault
<1>5. PageReading("SectionMap", at, size, n, step, fault, SectionMapEnd(at))
        = Outcome(Run(PageCommit("SectionMap", at), n, step),
                  IF n = n THEN SectionMapEnd(at) ELSE fault[n])
  <2>1. n \in 0..n
    OBVIOUS
  <2>2. QED
    BY <1>3, <2>1, PageRead
<1>6. QED
  BY <1>1, <1>2, <1>4, <1>5

LEMMA SectionsStop ==
  ASSUME file \in Files, NEW at, NEW size, NEW n \in Nat,
         PageFault(PageAt(at), "SectionMap", at, size) = "none", RightRecords(at, n),
         ~Complete(at, n), RecordStart(at)[n + 1] <= PageAt(at).yields,
         RecordFault(at, n) # "none"
  PROVE  SectionsReading(at, size) = Outcome(RecordsTold(at, n), RecordFault(at, n))
<1> DEFINE step == [m \in Nat |-> RecordStep(at, m)]
           fault == [m \in Nat |-> RecordFault(at, m)]
<1>1. Records(at) \in Nat /\ n + 1 <= Records(at)
  <2>1. n + 1 \in Nat /\ \A i \in 0..((n + 1) - 1) : i \in 0..(n - 1) \/ i = n
    OBVIOUS
  <2>2. \A i \in 0..((n + 1) - 1) : ~Complete(at, i)
    BY <2>1 DEF RightRecords
  <2>3. QED
    BY <2>1, <2>2, RecordsAtLeast
<1>2. SectionsReading(at, size)
        = PageReading("SectionMap", at, size, Records(at), step, fault, SectionMapEnd(at))
  BY DEF SectionsReading
<1>3. (\A i \in 0..(n - 1) : fault[i] = "none") /\ fault[n] = RecordFault(at, n)
  BY DEF RightRecords
<1>4. RecordsTold(at, n) = Run(PageCommit("SectionMap", at), n, step)
  BY RecordsToldFacts
<1> HIDE DEF step, fault
<1>5. n \in 0..Records(at) /\ n # Records(at)
  BY <1>1
<1>6. PageReading("SectionMap", at, size, Records(at), step, fault, SectionMapEnd(at))
        = Outcome(Run(PageCommit("SectionMap", at), n, step),
                  IF n = Records(at) THEN SectionMapEnd(at) ELSE fault[n])
  BY <1>1, <1>3, <1>5, PageRead
<1>7. QED
  BY <1>2, <1>3, <1>4, <1>5, <1>6

----------------------------------------------------------------------------
(* The counts of a section map follow the records read.                    *)

\* What `next_record` opens is what the records say comes next.
LEMMA OpenNext ==
  ASSUME file \in Files, NEW u \in WalkType, NEW n \in Nat, Counting(u, n + 1),
         u.open = IF u.refs > 0 THEN "Ref" ELSE IF u.sections > 0 THEN "Section" ELSE "None"
  PROVE  u.open = IF Complete(u.at, n + 1) THEN "None" ELSE FormOf(u.at, n + 1)
<1> DEFINE o == Owner(u.at)[n]
           next == Owner(u.at)[n + 1]
           told == Described(u.at)[n + 1]
           r == RecordAt(u.at, o)
           all == RecordAt(u.at, 0).count
<1>1. /\ o \in Nat /\ o <= n
      /\ next = IF o > 0 /\ n - o < r.count THEN o ELSE n + 1
  BY OwnerFacts
<1>2. (n + 1) - 1 = n /\ n + 1 # 0
  OBVIOUS
<1>3. /\ u.index = told /\ u.sections = all - u.index
      /\ o = 0 => u.refs = 0
      /\ o > 0 => u.refs = r.count - (n - o)
  <2>1. Counting(u, n + 1) <=>
          LET p == Owner(u.at)[n]
              q == RecordAt(u.at, p)
          IN /\ u.index = Described(u.at)[n + 1]
             /\ u.sections = RecordAt(u.at, 0).count - u.index
             /\ p = 0 => u.refs = 0
             /\ p > 0 => /\ u.refs = q.count - (n - p)
                         /\ u.id = q.id /\ u.maxPage = q.maxPage
                         /\ u.firstRef <=> p = n
                         /\ p # n => u.lastStart = RecordAt(u.at, n).start
    BY <1>2 DEF Counting
  <2>2. QED
    BY <2>1
<1>4. r.count \in Nat /\ all \in Nat /\ u.refs \in Nat /\ u.sections \in Nat /\ told \in Nat
  BY <1>1, RecordFacts, WalkFields, DescribedFacts
<1>5. IsDescription(u.at, n + 1) <=> next = n + 1
  BY DEF IsDescription
<1>6. Complete(u.at, n + 1) <=> next = n + 1 /\ told = all
  BY <1>5 DEF Complete
<1>7. FormOf(u.at, n + 1) = IF next = n + 1 THEN "Section" ELSE "Ref"
  BY <1>2, <1>5 DEF FormOf
<1> HIDE DEF o, next, told, r, all
<1>8. CASE u.refs > 0
  <2>1. next # n + 1
    BY <1>1, <1>3, <1>4, <1>8
  <2>2. QED
    BY <1>6, <1>7, <1>8, <2>1
<1>9. CASE ~(u.refs > 0)
  <2>1. next = n + 1
    BY <1>1, <1>3, <1>4, <1>9
  <2>2. u.sections > 0 <=> told # all
    BY <1>3, <1>4
  <2>3. QED
    BY <1>6, <1>7, <1>9, <2>1, <2>2
<1>10. QED
  BY <1>8, <1>9

\* The counts, with the record that was read last named by its number.
LEMMA CountingNext ==
  ASSUME NEW u, NEW n \in Nat
  PROVE  Counting(u, n + 1) <=>
           LET o == Owner(u.at)[n]
               r == RecordAt(u.at, o)
           IN /\ u.index = Described(u.at)[n + 1]
              /\ u.sections = RecordAt(u.at, 0).count - u.index
              /\ o = 0 => u.refs = 0
              /\ o > 0 => /\ u.refs = r.count - (n - o)
                          /\ u.id = r.id /\ u.maxPage = r.maxPage
                          /\ u.firstRef <=> o = n
                          /\ o # n => u.lastStart = RecordAt(u.at, n).start
<1>1. (n + 1) - 1 = n /\ n + 1 # 0
  OBVIOUS
<1>2. QED
  BY <1>1 DEF Counting

LEMMA CountedNext ==
  ASSUME file \in Files, NEW w \in WalkType, NEW u \in WalkType, NEW n \in Nat, Counted(w, n),
         u.at = w.at, ~Complete(w.at, n), RecordFault(w.at, n) = "none", Counting(u, n + 1),
         u.open = IF u.refs > 0 THEN "Ref" ELSE IF u.sections > 0 THEN "Section" ELSE "None"
  PROVE  Counted(u, n + 1)
<1>1. \A i \in 0..((n + 1) - 1) : i \in 0..(n - 1) \/ i = n
  OBVIOUS
<1>2. \A i \in 0..((n + 1) - 1) : RecordFault(u.at, i) = "none" /\ ~Complete(u.at, i)
  BY <1>1 DEF Counted
<1>3. u.open = IF Complete(u.at, n + 1) THEN "None" ELSE FormOf(u.at, n + 1)
  BY OpenNext
<1>4. QED
  BY <1>2, <1>3 DEF Counted

\* What is open is the form of what comes next.
LEMMA CountedForm ==
  ASSUME NEW w, NEW n \in Nat, Counted(w, n)
  PROVE  /\ w.open = "None" <=> Complete(w.at, n)
         /\ w.open # "None" => w.open = FormOf(w.at, n)
         /\ w.open \in {"None", "Count", "Section", "Ref"}
         /\ w.open = "Count" => n = 0 /\ Unread(w)
         /\ w.open = "Section" => n > 0 /\ Owner(w.at)[n] = n
         /\ w.open = "Ref" => n > 0 /\ Owner(w.at)[n] # n
<1>1. w.open = IF Complete(w.at, n) THEN "None" ELSE FormOf(w.at, n)
  BY DEF Counted
<1>2. FormOf(w.at, n) = IF n = 0 THEN "Count" ELSE IF Owner(w.at)[n] = n THEN "Section" ELSE "Ref"
  BY DEF FormOf, IsDescription
<1>3. n = 0 => Unread(w)
  BY DEF Counted, Counting
<1>4. QED
  BY <1>1, <1>2, <1>3

LEMMA CountCounts ==
  ASSUME file \in Files, NEW u \in WalkType,
         u.index = 0, u.refs = 0, u.sections = RecordAt(u.at, 0).count
  PROVE  Counting(u, 1)
<1>1. Owner(u.at)[0] = 0
  BY OwnerFacts
<1>2. ~IsDescription(u.at, 0)
  BY DEF IsDescription
<1>3. Described(u.at)[0 + 1] = 0
  BY <1>2, DescribedFacts
<1>4. RecordAt(u.at, 0).count \in Nat
  BY RecordFacts
<1>5. Counting(u, 0 + 1)
  <2> DEFINE o == Owner(u.at)[0]
             told == Described(u.at)[0 + 1]
  <2>1. o = 0 /\ told = 0
    BY <1>1, <1>3
  <2> HIDE DEF o, told
  <2>2. /\ u.index = told /\ u.sections = RecordAt(u.at, 0).count - u.index
        /\ o = 0 => u.refs = 0
        /\ ~(o > 0)
    BY <1>4, <2>1
  <2>3. QED
    BY <2>2, CountingNext DEF o, told
<1>6. 0 + 1 = 1
  OBVIOUS
<1>7. QED
  BY <1>5, <1>6

LEMMA DescriptionCounts ==
  ASSUME file \in Files, NEW w \in WalkType, NEW u \in WalkType, NEW n \in Nat,
         Counted(w, n), w.open = "Section", u.at = w.at,
         u.index = w.index + 1, u.sections = w.sections - 1,
         u.refs = RecordAt(w.at, n).count, u.id = RecordAt(w.at, n).id,
         u.maxPage = RecordAt(w.at, n).maxPage, u.firstRef = TRUE
  PROVE  Counting(u, n + 1)
<1> DEFINE o == Owner(u.at)[n]
           told == Described(u.at)[n]
           next == Described(u.at)[n + 1]
           all == RecordAt(u.at, 0).count
<1>1. n > 0 /\ o = n
  BY CountedForm
<1>2. IsDescription(u.at, n)
  BY <1>1 DEF IsDescription
<1>3. next = told + 1 /\ told \in Nat
  BY <1>2, DescribedFacts
<1>4. w.index = told /\ w.sections = all - w.index
  BY <1>1 DEF Counted, Counting
<1>5. all \in Nat /\ w.index \in Nat /\ RecordAt(u.at, n).count \in Nat
  BY RecordFacts, WalkFields
<1> HIDE DEF o, told, next, all
<1>6. /\ u.index = next /\ u.sections = all - u.index
      /\ ~(o = 0) /\ u.refs = RecordAt(u.at, o).count - (n - o)
      /\ u.id = RecordAt(u.at, o).id /\ u.maxPage = RecordAt(u.at, o).maxPage
      /\ u.firstRef <=> o = n
      /\ ~(o # n)
  BY <1>1, <1>3, <1>4, <1>5
<1>7. QED
  BY <1>6, CountingNext DEF o, next, all

\* A page's description is that of the record before it.
LEMMA ReferenceFacts ==
  ASSUME file \in Files, NEW w \in WalkType, NEW n \in Nat, Counted(w, n), w.open = "Ref"
  PROVE  LET o == Owner(w.at)[n]
             r == RecordAt(w.at, o)
         IN /\ n - 1 \in Nat /\ (n - 1) + 1 = n
            /\ o \in Nat /\ 0 < o /\ o < n /\ Owner(w.at)[n - 1] = o
            /\ w.index = Described(w.at)[n] /\ w.sections = RecordAt(w.at, 0).count - w.index
            /\ w.refs = r.count - (n - 1 - o)
            /\ w.id = r.id /\ w.maxPage = r.maxPage
            /\ w.firstRef <=> o = n - 1
            /\ o # n - 1 => w.lastStart = RecordAt(w.at, n - 1).start
<1> DEFINE o == Owner(w.at)[n]
           p == Owner(w.at)[n - 1]
<1>1. n > 0 /\ o # n
  BY CountedForm
<1>2. n - 1 \in Nat /\ (n - 1) + 1 = n
  BY <1>1
<1>3. /\ p \in Nat /\ p <= n - 1
      /\ Owner(w.at)[(n - 1) + 1] =
           IF p > 0 /\ (n - 1) - p < RecordAt(w.at, p).count THEN p ELSE (n - 1) + 1
  BY <1>2, OwnerFacts
<1>4. o = p /\ p > 0
  <2>1. o = IF p > 0 /\ (n - 1) - p < RecordAt(w.at, p).count THEN p ELSE n
    BY <1>2, <1>3
  <2>2. QED
    BY <1>1, <2>1
<1>5. Counting(w, (n - 1) + 1)
  BY <1>2 DEF Counted
<1>6. /\ w.index = Described(w.at)[(n - 1) + 1]
      /\ w.sections = RecordAt(w.at, 0).count - w.index
      /\ p > 0 => /\ w.refs = RecordAt(w.at, p).count - ((n - 1) - p)
                  /\ w.id = RecordAt(w.at, p).id /\ w.maxPage = RecordAt(w.at, p).maxPage
                  /\ w.firstRef <=> p = n - 1
                  /\ p # n - 1 => w.lastStart = RecordAt(w.at, n - 1).start
  BY <1>2, <1>5, CountingNext
<1> HIDE DEF o, p
<1>7. o < n
  BY <1>2, <1>3, <1>4
<1>8. QED
  BY <1>2, <1>3, <1>4, <1>6, <1>7 DEF o, p

LEMMA ReferenceCounts ==
  ASSUME file \in Files, NEW w \in WalkType, NEW u \in WalkType, NEW n \in Nat,
         Counted(w, n), w.open = "Ref", u.at = w.at, u.index = w.index,
         u.sections = w.sections, u.refs = w.refs - 1, u.id = w.id, u.maxPage = w.maxPage,
         u.firstRef = FALSE, u.lastStart = RecordAt(w.at, n).start
  PROVE  Counting(u, n + 1)
<1> DEFINE o == Owner(u.at)[n]
           r == RecordAt(u.at, o)
           next == Described(u.at)[n + 1]
           all == RecordAt(u.at, 0).count
<1>1. /\ o \in Nat /\ 0 < o /\ o < n
      /\ w.index = Described(u.at)[n] /\ w.sections = all - w.index
      /\ w.refs = r.count - (n - 1 - o)
      /\ w.id = r.id /\ w.maxPage = r.maxPage
  BY ReferenceFacts
<1>2. ~IsDescription(u.at, n)
  BY <1>1 DEF IsDescription
<1>3. next = Described(u.at)[n]
  BY <1>2, DescribedFacts
<1>4. all \in Nat /\ r.count \in Nat
  BY <1>1, RecordFacts
<1> HIDE DEF o, r, next, all
<1>5. /\ u.index = next /\ u.sections = all - u.index
      /\ ~(o = 0) /\ u.refs = r.count - (n - o)
      /\ u.id = r.id /\ u.maxPage = r.maxPage
      /\ u.firstRef <=> o = n
      /\ u.lastStart = RecordAt(u.at, n).start
  BY <1>1, <1>3, <1>4
<1>6. QED
  BY <1>5, CountingNext DEF o, r, next, all

----------------------------------------------------------------------------
(* What each record is refused for, and commits, as the walk has it.       *)

LEMMA CountTold ==
  ASSUME NEW w, Counted(w, 0), w.open = "Count"
  PROVE  LET r == RecordAt(w.at, 0)
         IN /\ RecordFault(w.at, 0) = IF r.ok THEN "none" ELSE "SectionMapHeader"
            /\ RecordStep(w.at, 0) = [step |-> "Sections", count |-> r.count]
<1>1. FormOf(w.at, 0) = "Count"
  BY DEF FormOf
<1>2. QED
  BY <1>1 DEF RecordFault, RecordStep

LEMMA DescriptionTold ==
  ASSUME NEW w, NEW n \in Nat, Counted(w, n), w.open = "Section"
  PROVE  LET r == RecordAt(w.at, n)
         IN /\ RecordFault(w.at, n) = IF r.ok /\ r.maxPage # 0 THEN "none" ELSE "SectionEntry"
            /\ RecordStep(w.at, n) = [step |-> "Section", index |-> w.index, id |-> r.id]
<1>1. n > 0 /\ Owner(w.at)[n] = n /\ FormOf(w.at, n) = "Section"
  BY CountedForm
<1>2. w.index = Described(w.at)[n]
  BY <1>1 DEF Counted, Counting
<1>3. QED
  BY <1>1, <1>2 DEF RecordFault, RecordStep

LEMMA ReferenceTold ==
  ASSUME file \in Files, NEW w \in WalkType, NEW n \in Nat, Counted(w, n), w.open = "Ref",
         w.maxPage > 0
  PROVE  LET r == RecordAt(w.at, n)
         IN /\ RecordFault(w.at, n) = IF RefOk(w, r) THEN "none" ELSE "SectionEntry"
            /\ RecordStep(w.at, n) = [step |-> "SectionPage", id |-> w.id, number |-> r.number,
                                      start |-> r.start]
<1> DEFINE o == Owner(w.at)[n]
           r == RecordAt(w.at, n)
           q == RecordAt(w.at, o)
           last == RecordAt(w.at, n - 1).start
<1>1. /\ w.id = q.id /\ w.maxPage = q.maxPage
      /\ w.firstRef <=> o = n - 1
      /\ o # n - 1 => w.lastStart = last
  BY ReferenceFacts
<1>2. FormOf(w.at, n) = "Ref"
  BY CountedForm
<1>3. RecordFault(w.at, n) =
        IF q.maxPage # 0 /\ r.start % q.maxPage = 0 /\ (o = n - 1 \/ r.start > last)
        THEN "none" ELSE "SectionEntry"
  BY <1>2 DEF RecordFault
<1>4. RecordStep(w.at, n) = [step |-> "SectionPage", id |-> q.id, number |-> r.number,
                             start |-> r.start]
  BY <1>2 DEF RecordStep
<1>5. w.maxPage # 0 /\ w.firstRef \in BOOLEAN
  BY WalkFields
<1> HIDE DEF o, q, r, last
<1>6. RefOk(w, r) <=> q.maxPage # 0 /\ r.start % q.maxPage = 0 /\ (o = n - 1 \/ r.start > last)
  <2>1. (w.firstRef \/ r.start > w.lastStart) <=> (o = n - 1 \/ r.start > last)
    BY <1>1
  <2>2. QED
    BY <1>1, <1>5, <2>1, Zenon DEF RefOk
<1>7. QED
  BY <1>1, <1>3, <1>4, <1>6 DEF r

----------------------------------------------------------------------------
(* What a walk has to come to.                                             *)

ReadingOf(w) == IF w.pagesOnly THEN SecondPass ELSE FirstPass

HeaderRight(w) == ~w.pagesOnly => HeaderFaults = "none"

Finished == <<[step |-> "Finished"]>>

LEMMA OutcomeFacts ==
  ASSUME NEW s, NEW f
  PROVE  Outcome(s, f).commits = s /\ Outcome(s, f).failure = f
BY DEF Outcome

LEMMA JoinFacts ==
  ASSUME NEW s, NEW f, NEW b
  PROVE  /\ f # "none" => Join(Outcome(s, f), b) = Outcome(s, f)
         /\ Join(Outcome(s, "none"), b) = Outcome(s \o b.commits, b.failure)
BY DEF Join, Outcome

LEMMA HeaderToldSeq ==
  ASSUME NEW w
  PROVE  IsSeq(HeaderTold(w))
BY SingleIsSeq DEF HeaderTold

LEMMA FinishedSeq == IsSeq(Finished) /\ Finish = Outcome(Finished, "none")
BY SingleIsSeq DEF Finished, Finish

LEMMA HeaderStops ==
  ASSUME NEW w, ~w.pagesOnly, HeaderFaults # "none"
  PROVE  ReadingOf(w) = Outcome(<<>>, HeaderFaults)
<1>1. HeaderReading = Outcome(<<>>, HeaderFaults)
  BY DEF HeaderReading
<1>2. Join(Outcome(<<>>, HeaderFaults), Join(PageMapReading, Join(SectionMapReading, Finish)))
        = Outcome(<<>>, HeaderFaults)
  BY JoinFacts
<1>3. QED
  BY <1>1, <1>2 DEF ReadingOf, FirstPass

\* Behind the header, that is what there is.
LEMMA BehindHeader ==
  ASSUME NEW w, HeaderRight(w), NEW s, NEW f, IsSeq(s),
         Join(PageMapReading, IF w.pagesOnly THEN Finish ELSE Join(SectionMapReading, Finish))
           = Outcome(s, f)
  PROVE  ReadingOf(w) = Outcome(HeaderTold(w) \o s, f)
<1>1. CASE w.pagesOnly
  <2>1. ReadingOf(w) = Outcome(s, f)
    BY <1>1 DEF ReadingOf, SecondPass
  <2>2. HeaderTold(w) \o s = s
    <3>1. <<>> \o s = s
      BY EmptyFacts
    <3>2. QED
      BY <1>1, <3>1 DEF HeaderTold
  <2>3. QED
    BY <2>1, <2>2
<1>2. CASE ~w.pagesOnly
  <2> DEFINE h == <<[step |-> "Header"]>>
             b == Join(PageMapReading, Join(SectionMapReading, Finish))
  <2>1. HeaderReading = Outcome(h, "none") /\ HeaderTold(w) = h /\ b = Outcome(s, f)
    BY <1>2 DEF HeaderReading, HeaderRight, HeaderTold
  <2>2. ReadingOf(w) = Join(HeaderReading, b)
    BY <1>2 DEF ReadingOf, FirstPass
  <2> HIDE DEF h, b
  <2>3. Join(Outcome(h, "none"), b) = Outcome(h \o b.commits, b.failure)
    BY JoinFacts
  <2>4. b.commits = s /\ b.failure = f
    BY <2>1, OutcomeFacts
  <2>5. QED
    BY <2>1, <2>2, <2>3, <2>4
<1>3. QED
  BY <1>1, <1>2

LEMMA PageMapEnds ==
  ASSUME NEW w, HeaderRight(w), NEW s, NEW f, IsSeq(s), f # "none",
         PageMapReading = Outcome(s, f)
  PROVE  ReadingOf(w) = Outcome(HeaderTold(w) \o s, f)
<1> DEFINE b == IF w.pagesOnly THEN Finish ELSE Join(SectionMapReading, Finish)
<1> HIDE DEF b
<1>1. Join(Outcome(s, f), b) = Outcome(s, f)
  BY JoinFacts
<1>2. Join(PageMapReading, b) = Outcome(s, f)
  BY <1>1
<1>3. QED
  BY <1>2, BehindHeader DEF b

LEMMA PageMapEndsWalk ==
  ASSUME NEW w, HeaderRight(w), w.pagesOnly, NEW s, IsSeq(s),
         PageMapReading = Outcome(s, "none")
  PROVE  ReadingOf(w) = Outcome(HeaderTold(w) \o s \o Finished, "none")
<1>1. Finish.commits = Finished /\ Finish.failure = "none"
  BY FinishedSeq, OutcomeFacts
<1>2. Join(Outcome(s, "none"), Finish) = Outcome(s \o Finish.commits, Finish.failure)
  BY JoinFacts
<1>3. Join(PageMapReading, Finish) = Outcome(s \o Finished, "none")
  BY <1>1, <1>2
<1>4. IsSeq(s \o Finished)
  BY FinishedSeq, ConcatIsSeq
<1>5. ReadingOf(w) = Outcome(HeaderTold(w) \o (s \o Finished), "none")
  BY <1>3, <1>4, BehindHeader
<1>6. HeaderTold(w) \o (s \o Finished) = HeaderTold(w) \o s \o Finished
  BY HeaderToldSeq, FinishedSeq, ConcatAssociative
<1>7. QED
  BY <1>5, <1>6

LEMMA SectionMapEnds ==
  ASSUME NEW w, HeaderRight(w), ~w.pagesOnly, NEW s, NEW t, NEW f, IsSeq(s), IsSeq(t),
         PageMapReading = Outcome(s, "none"), SectionMapReading = Outcome(t, f)
  PROVE  /\ f # "none" => ReadingOf(w) = Outcome(HeaderTold(w) \o s \o t, f)
         /\ f = "none" => ReadingOf(w) = Outcome(HeaderTold(w) \o s \o t \o Finished, f)
<1> DEFINE h == HeaderTold(w)
<1>1. IsSeq(h) /\ IsSeq(Finished) /\ Finish.commits = Finished /\ Finish.failure = "none"
  BY HeaderToldSeq, FinishedSeq, OutcomeFacts
<1> HIDE DEF h
<1>2. ASSUME NEW u, IsSeq(u), Join(SectionMapReading, Finish) = Outcome(u, f)
      PROVE  ReadingOf(w) = Outcome(h \o s \o u, f)
  <2> DEFINE b == Join(SectionMapReading, Finish)
  <2>1. Join(Outcome(s, "none"), b) = Outcome(s \o b.commits, b.failure)
    BY JoinFacts
  <2>2. b.commits = u /\ b.failure = f
    BY <1>2, OutcomeFacts
  <2>3. Join(PageMapReading, b) = Outcome(s \o u, f)
    BY <2>1, <2>2
  <2>4. IsSeq(s \o u)
    BY <1>2, ConcatIsSeq
  <2>5. ReadingOf(w) = Outcome(h \o (s \o u), f)
    BY <2>3, <2>4, BehindHeader DEF h
  <2>6. h \o (s \o u) = h \o s \o u
    BY <1>1, <1>2, ConcatAssociative
  <2>7. QED
    BY <2>5, <2>6
<1>3. ASSUME f # "none" PROVE ReadingOf(w) = Outcome(h \o s \o t, f)
  <2>1. Join(Outcome(t, f), Finish) = Outcome(t, f)
    BY <1>3, JoinFacts
  <2>2. QED
    BY <1>2, <2>1
<1>4. ASSUME f = "none" PROVE ReadingOf(w) = Outcome(h \o s \o t \o Finished, f)
  <2>1. Join(Outcome(t, "none"), Finish) = Outcome(t \o Finish.commits, Finish.failure)
    BY JoinFacts
  <2>2. Join(SectionMapReading, Finish) = Outcome(t \o Finished, f)
    BY <1>1, <1>4, <2>1
  <2>3. IsSeq(t \o Finished)
    BY <1>1, ConcatIsSeq
  <2>4. ReadingOf(w) = Outcome(h \o s \o (t \o Finished), f)
    BY <1>2, <2>2, <2>3
  <2>5. IsSeq(h \o s)
    BY <1>1, ConcatIsSeq
  <2>6. (h \o s) \o (t \o Finished) = ((h \o s) \o t) \o Finished
    BY <1>1, <2>5, ConcatAssociative
  <2>7. QED
    BY <2>4, <2>6
<1>5. QED
  BY <1>3, <1>4 DEF h

----------------------------------------------------------------------------
(* The step of a walk, by itself.                                          *)

\* A walk that failed has told what the reading has, but for the last record
\* of a malformed stream.
Came(v, told) ==
  \/ told = ReadingOf(v).commits /\ v.failure = ReadingOf(v).failure
  \/ /\ v.failure = "Lz77" /\ PageAt(v.at).ends = "malformed"
     /\ LET whole == ReadingOf(v).commits
        IN told \in {whole, SubSeq(whole, 1, Len(whole) - 1)}

StepFollows(v, told) ==
  IF v.failure = "none" THEN Follows(v, told) ELSE Came(v, told)

Led == Going /\ Follows(walk, commits)

LEMMA LedFacts ==
  ASSUME Led
  PROVE  /\ walk \in WalkType /\ WalkOk(walk) /\ file \in Files /\ walk.failure = "none"
         /\ Follows(walk, commits)
BY GoingFacts DEF Led

\* What a walk fails with is what the reading fails with.
LEMMA FailCame ==
  ASSUME Led, NEW e \in Errors \ {"none"}, Fail(e), IsSeq(commits),
         ReadingOf(walk) = Outcome(commits, e)
  PROVE  StepFollows(walk', commits')
<1>1. walk' = [walk EXCEPT !.failure = e] /\ commits' = commits \o <<>>
  BY DEF Fail, Then
<1>2. commits' = commits
  BY <1>1, EmptyFacts
<1>3. walk'.failure = e /\ walk'.pagesOnly = walk.pagesOnly
  BY <1>1, LedFacts DEF WalkType
<1>4. ReadingOf(walk') = Outcome(commits, e)
  BY <1>3 DEF ReadingOf
<1>5. ReadingOf(walk').commits = commits /\ ReadingOf(walk').failure = e
  BY <1>4, OutcomeFacts
<1>6. QED
  BY <1>2, <1>3, <1>5 DEF StepFollows, Came

\* Of a malformed stream the last record may be lost.
LEMMA FailShort ==
  ASSUME Led, Fail("Lz77"), IsSeq(commits), PageAt(walk.at).ends = "malformed",
         \/ ReadingOf(walk).commits = commits
         \/ \E x : ReadingOf(walk).commits = commits \o <<x>>
  PROVE  StepFollows(walk', commits')
<1> DEFINE whole == ReadingOf(walk).commits
<1>1. walk' = [walk EXCEPT !.failure = "Lz77"] /\ commits' = commits \o <<>>
  BY DEF Fail, Then
<1>2. commits' = commits
  BY <1>1, EmptyFacts
<1>3. walk'.failure = "Lz77" /\ walk'.pagesOnly = walk.pagesOnly /\ walk'.at = walk.at
  BY <1>1, LedFacts DEF WalkType
<1>4. ReadingOf(walk') = ReadingOf(walk)
  BY <1>3 DEF ReadingOf
<1>5. commits \in {whole, SubSeq(whole, 1, Len(whole) - 1)}
  <2>1. CASE whole = commits
    BY <2>1
  <2>2. CASE \E x : whole = commits \o <<x>>
    <3>1. PICK x : whole = commits \o <<x>>
      BY <2>2
    <3>2. SubSeq(commits \o <<x>>, 1, Len(commits \o <<x>>) - 1) = commits
      BY FrontIs
    <3> HIDE DEF whole
    <3>3. SubSeq(whole, 1, Len(whole) - 1) = commits
      BY <3>1, <3>2
    <3>4. QED
      BY <3>3
  <2>3. QED
    BY <2>1, <2>2
<1>6. QED
  BY <1>2, <1>3, <1>4, <1>5 DEF StepFollows, Came

----------------------------------------------------------------------------
(* The header and a page's header and checksum.                            *)

\* The bytes a page may take.
SizeFor(w) == IF w.kind = "PageMap" THEN file.length ELSE w.size

LEMMA SectionMapAt ==
  ASSUME NEW w, SectionMapPlaced(w)
  PROVE  /\ ~w.pagesOnly /\ PageMapReading = Outcome(EntriesTold(Entries), "none")
         /\ SectionMapReading = SectionsReading(w.at, w.size)
BY DEF SectionMapPlaced, SectionMapReading

LEMMA WalkKind ==
  ASSUME NEW w \in WalkType
  PROVE  w.kind = "PageMap" \/ (w.kind = "SectionMap" /\ w.kind # "PageMap")
BY WalkFields DEF Kinds

LEMMA PageRefusedWalk ==
  ASSUME file \in Files, NEW w \in WalkType, NEW told, Follows(w, told), Located(w),
         w.stage \in {"SysHeader", "Check"}, NEW e, e # "none",
         PageFault(PageAt(w.at), w.kind, w.at, SizeFor(w)) = e
  PROVE  ReadingOf(w) = Outcome(told, e) /\ IsSeq(told)
<1>1. CASE w.kind = "PageMap"
  <2>1. HeaderRight(w) /\ told = HeaderTold(w)
    BY <1>1 DEF Follows, InPageMap, HeaderRight
  <2>2. w.at = file.pageMap
    BY <1>1 DEF Located
  <2>3. PageMapReading = Outcome(<<>>, e)
    BY <1>1, <2>2, PageRefused DEF PageMapReading, SizeFor
  <2>4. IsSeq(<<>>) /\ IsSeq(told) /\ HeaderTold(w) \o <<>> = told
    BY <2>1, HeaderToldSeq, SingleIsSeq, EmptyFacts
  <2>5. ReadingOf(w) = Outcome(HeaderTold(w) \o <<>>, e)
    BY <2>1, <2>3, <2>4, PageMapEnds
  <2>6. QED
    BY <2>4, <2>5
<1>2. CASE w.kind # "PageMap"
  <2> DEFINE s == EntriesTold(Entries)
  <2>1. HeaderRight(w) /\ SectionMapPlaced(w) /\ told = HeaderTold(w) \o s
    BY <1>2 DEF Follows, InSectionMap, HeaderRight
  <2>2. SectionMapReading = Outcome(<<>>, e)
    <3>1. w.kind = "SectionMap"
      BY <1>2, WalkKind
    <3>2. SectionsReading(w.at, w.size) = Outcome(<<>>, e)
      BY <1>2, <3>1, PageRefused DEF SectionsReading, SizeFor
    <3>3. QED
      BY <2>1, <3>2, SectionMapAt
  <2>3. IsSeq(<<>>) /\ IsSeq(s) /\ IsSeq(HeaderTold(w))
    BY HeaderToldSeq, SingleIsSeq, EntriesToldFacts, EntriesNat
  <2>4. ~w.pagesOnly /\ PageMapReading = Outcome(s, "none")
    BY <2>1, SectionMapAt
  <2> HIDE DEF s
  <2>5. IsSeq(told) /\ told \o <<>> = told
    BY <2>1, <2>3, ConcatIsSeq, EmptyFacts
  <2>6. ReadingOf(w) = Outcome(HeaderTold(w) \o s \o <<>>, e)
    BY <2>1, <2>2, <2>3, <2>4, SectionMapEnds
  <2>7. QED
    BY <2>1, <2>5, <2>6
<1>3. QED
  BY <1>1, <1>2

\* A page whose header is right is refused for its checksum, or not at all.
LEMMA PageSound ==
  ASSUME file \in Files, NEW w \in WalkType, Located(w), KeptSysOk(w)
  PROVE  PageFault(PageAt(w.at), w.kind, w.at, SizeFor(w))
           = IF PageAt(w.at).sum THEN "none" ELSE "SystemPageChecksum"
<1> DEFINE p == PageAt(w.at)
<1>1. /\ p.kind = w.kind /\ p.comp > 0 /\ p.decomp > 0
      /\ w.at + SysBytes + p.comp <= file.length
      /\ w.kind = "SectionMap" => SysBytes + p.comp <= w.size
  BY DEF KeptSysOk
<1>2. /\ p.comp \in Nat /\ p.decomp \in Nat /\ file.length \in Nat /\ w.at \in Nat
      /\ SysBytes \in Nat /\ w.size \in Nat
  BY PageFacts, FileFacts, WalkFields, Sizes
<1> HIDE DEF p
<1>3. SysBytes + p.comp <= SizeFor(w)
  <2>1. CASE w.kind = "PageMap"
    <3>1. SysBytes + p.comp <= file.length
      BY <1>1, <1>2
    <3>2. QED
      BY <2>1, <3>1 DEF SizeFor
  <2>2. CASE w.kind # "PageMap"
    BY <1>1, <2>2, WalkKind DEF SizeFor
  <2>3. QED
    BY <2>1, <2>2
<1>4. SizeFor(w) \in Nat
  BY <1>2 DEF SizeFor
<1>5. /\ ~(w.at + SysBytes > file.length) /\ ~(p.kind # w.kind) /\ p.comp # 0 /\ p.decomp # 0
      /\ ~(SysBytes + p.comp > SizeFor(w)) /\ ~(w.at + SysBytes + p.comp > file.length)
  BY <1>1, <1>2, <1>3, <1>4
<1>6. PageFault(p, w.kind, w.at, SizeFor(w)) = IF p.sum THEN "none" ELSE "SystemPageChecksum"
  BY <1>5 DEF PageFault
<1>7. QED
  BY <1>6 DEF p

\* A header that is right so far.
LEMMA FeedHeaderFollows ==
  ASSUME Led, NEW n \in Nat \ {0}, n <= Read.len, Read.offset + n <= file.length, FeedHeader(n)
  PROVE  StepFollows(walk', commits')
<1> DEFINE end == walk.filled + n
           fault == HeaderFault(end)
<1>1. /\ walk.stage = "Header"
      /\ walk' = [walk EXCEPT !.filled = @ + n, !.failure = fault] /\ commits' = commits \o <<>>
  BY DEF FeedHeader, Then
<1>2. /\ walk \in WalkType /\ walk.filled \in Nat /\ file \in Files /\ walk.failure = "none"
      /\ walk = [NewWalk EXCEPT !.filled = walk.filled]
      /\ commits = <<>>
      /\ walk.filled >= MagicBytes => MagicBytes <= file.length /\ file.magic = "none"
  BY <1>1, LedFacts, WalkFields DEF Follows, InHeader, WalkOk
<1>3. walk.pagesOnly = FALSE
  BY <1>2 DEF NewWalk
<1>4. commits' = <<>>
  BY <1>1, <1>2
<1>5. /\ walk.filled < MagicBytes => end <= MagicBytes
      /\ end <= HeaderBytes /\ end <= file.length /\ end \in Nat /\ end > walk.filled
  <2>1. Read = Span(walk.filled, Target - walk.filled)
    BY <1>1 DEF Read
  <2>2. Read.offset = walk.filled /\ Read.len = Target - walk.filled
    BY <2>1 DEF Span
  <2>3. /\ Target \in Nat /\ Target <= HeaderBytes /\ HeaderBytes \in Nat
        /\ MagicBytes \in Nat
        /\ walk.filled < MagicBytes => Target = MagicBytes
    BY Sizes DEF Target
  <2>4. walk.filled \in Nat /\ n \in Nat \ {0} /\ file.length \in Nat
        /\ walk.filled + n <= file.length /\ n <= Target - walk.filled
    BY <1>2, <2>2, FileFacts
  <2>5. QED
    BY <2>3, <2>4
<1>6. /\ MagicBytes \in Nat /\ HeaderBytes \in Nat /\ MagicBytes < HeaderBytes
      /\ file.length \in Nat /\ file.pageMap \in Nat /\ SysBytes \in Nat
  BY <1>2, Sizes, FileFacts
<1>7. walk'.filled = end /\ walk'.failure = fault /\ walk'.stage = "Header"
      /\ walk'.pagesOnly = FALSE
  BY <1>1, <1>2, <1>3 DEF WalkType
<1>8. MapAddress <=> ~(file.pageMap % Align # 0 \/ file.pageMap + SysBytes > file.length)
  BY <1>6 DEF MapAddress
<1> HIDE DEF end
<1>9. fault = IF end = MagicBytes THEN file.magic
              ELSE IF end < HeaderBytes THEN "none"
              ELSE IF file.header # "none" THEN file.header
              ELSE IF MapAddress THEN "none" ELSE "R2004Field"
  BY DEF HeaderFault
<1> HIDE DEF fault
<1>10. end >= MagicBytes => MagicBytes <= file.length
  BY <1>5, <1>6
<1>11. end > MagicBytes => file.magic = "none"
  BY <1>2, <1>5, <1>6
<1>12. ~(end < HeaderBytes) => end = HeaderBytes /\ ~(file.length < HeaderBytes)
  BY <1>5, <1>6
<1>13. HeaderFaults =
         IF file.length < MagicBytes THEN "Truncated"
         ELSE IF file.magic # "none" THEN file.magic
         ELSE IF file.length < HeaderBytes THEN "Truncated"
         ELSE IF file.header # "none" THEN file.header
         ELSE IF ~MapAddress THEN "R2004Field" ELSE "none"
  BY <1>8 DEF HeaderFaults
<1>14. CASE fault = "none"
  <2>1. end >= MagicBytes => file.magic = "none"
    BY <1>5, <1>6, <1>9, <1>11, <1>14
  <2>2. end = HeaderBytes => HeaderFaults = "none"
    <3>1. SUFFICES ASSUME end = HeaderBytes PROVE HeaderFaults = "none"
      OBVIOUS
    <3>2. end # MagicBytes /\ ~(end < HeaderBytes) /\ end >= MagicBytes
      BY <1>6, <3>1
    <3>3. file.header = "none" /\ MapAddress
      BY <1>9, <1>14, <3>2
    <3>4. ~(file.length < MagicBytes) /\ ~(file.length < HeaderBytes)
      BY <1>6, <1>10, <1>12, <3>2
    <3>5. QED
      BY <1>13, <2>1, <3>2, <3>3, <3>4
  <2>3. InHeader(walk', commits')
    BY <1>4, <1>7, <1>10, <2>1, <2>2 DEF InHeader
  <2>4. QED
    BY <1>7, <1>14, <2>3 DEF StepFollows, Follows
<1>15. CASE fault # "none"
  <2>1. HeaderFaults = fault
    <3>1. CASE end = MagicBytes
      <4>1. fault = file.magic /\ ~(file.length < MagicBytes)
        BY <1>6, <1>9, <1>10, <3>1
      <4>2. QED
        BY <1>13, <1>15, <4>1
    <3>2. CASE end # MagicBytes
      <4>1. ~(end < HeaderBytes)
        BY <1>9, <1>15, <3>2
      <4>2. file.magic = "none" /\ ~(file.length < MagicBytes) /\ ~(file.length < HeaderBytes)
        BY <1>6, <1>10, <1>11, <1>12, <4>1
      <4>3. QED
        BY <1>9, <1>13, <1>15, <3>2, <4>1, <4>2
    <3>3. QED
      BY <3>1, <3>2
  <2>2. ReadingOf(walk') = Outcome(<<>>, fault)
    BY <1>7, <1>15, <2>1, HeaderStops
  <2>3. ReadingOf(walk').commits = <<>> /\ ReadingOf(walk').failure = fault
    BY <2>2, OutcomeFacts
  <2>4. QED
    BY <1>4, <1>7, <1>15, <2>3 DEF StepFollows, Came
<1>16. QED
  BY <1>14, <1>15

LEMMA EnterMore ==
  ASSUME NEW w \in WalkType, NEW kind \in Kinds, NEW at \in Nat, NEW size \in Nat
  PROVE  LET v == Enter(w, kind, at, size)
         IN v.nth = 0 /\ v.pagesOnly = w.pagesOnly /\ v.lz = w.lz
BY DEF Enter, WalkType

\* The page map is entered with nothing of it listed.
LEMMA EnterPageMap ==
  ASSUME file \in Files, NEW w \in WalkType, HeaderRight(w),
         w.address = HeaderBytes, w.selfSeen = FALSE, w.mapSize = 0
  PROVE  Follows(Enter(w, "PageMap", file.pageMap, 0), HeaderTold(w))
<1> DEFINE v == Enter(w, "PageMap", file.pageMap, 0)
<1>1. "PageMap" \in Kinds /\ file.pageMap \in Nat /\ 0 \in Nat
  BY FileFacts DEF Kinds
<1>2. /\ v \in WalkType /\ v.stage = "SysHeader" /\ v.kind = "PageMap"
      /\ v.address = w.address /\ v.selfSeen = w.selfSeen /\ v.mapSize = w.mapSize
  BY <1>1, EnterFacts
<1>3. v.nth = 0 /\ v.pagesOnly = w.pagesOnly
  BY <1>1, EnterMore
<1> HIDE DEF v
<1>4. Listed(v, 0)
  BY <1>2, ListedNone
<1>5. HeaderTold(w) = HeaderTold(v)
  BY <1>3 DEF HeaderTold
<1>6. InPageMap(v, HeaderTold(w))
  BY <1>2, <1>3, <1>4, <1>5 DEF InPageMap, HeaderRight
<1>7. Follows(v, HeaderTold(w))
  BY <1>2, <1>6 DEF Follows
<1>8. QED
  BY <1>7 DEF v

LEMMA PumpHeaderFollows ==
  ASSUME Led, PumpHeader
  PROVE  StepFollows(walk', commits')
<1>1. /\ walk.stage = "Header" /\ walk.filled = HeaderBytes
      /\ walk' = Enter(walk, "PageMap", file.pageMap, 0)
      /\ commits' = commits \o <<[step |-> "Header"]>>
  BY DEF PumpHeader, Then
<1>2. /\ walk \in WalkType /\ file \in Files /\ walk.failure = "none"
      /\ walk = [NewWalk EXCEPT !.filled = walk.filled]
      /\ commits = <<>> /\ HeaderFaults = "none"
  BY <1>1, LedFacts DEF Follows, InHeader, WalkOk
<1>3. /\ walk.pagesOnly = FALSE /\ walk.address = HeaderBytes /\ walk.selfSeen = FALSE
      /\ walk.mapSize = 0
  BY <1>2 DEF NewWalk
<1>4. HeaderRight(walk)
  BY <1>2 DEF HeaderRight
<1>5. commits' = HeaderTold(walk)
  BY <1>1, <1>2, <1>3 DEF HeaderTold
<1>6. Follows(walk', commits')
  BY <1>1, <1>2, <1>3, <1>4, <1>5, EnterPageMap
<1>7. walk'.failure = "none"
  <2>1. "PageMap" \in Kinds /\ file.pageMap \in Nat /\ 0 \in Nat
    BY <1>2, FileFacts DEF Kinds
  <2>2. QED
    BY <1>1, <1>2, <2>1, EnterFacts
<1>8. QED
  BY <1>6, <1>7 DEF StepFollows

\* A walk that goes on in its page, before any of it is decoded.
LEMMA StillFollows ==
  ASSUME NEW w \in WalkType, NEW v \in WalkType, NEW told, Follows(w, told),
         w.stage \in {"SysHeader", "Check"}, v.stage \in {"SysHeader", "Check"},
         v.kind = w.kind, v.at = w.at, v.size = w.size, v.nth = w.nth,
         v.pagesOnly = w.pagesOnly, v.address = w.address, v.selfSeen = w.selfSeen,
         v.mapAt = w.mapAt, v.mapSize = w.mapSize, v.stage = "Check" => v.summed = v.done
  PROVE  Follows(v, told)
<1>1. IF w.kind = "PageMap" THEN InPageMap(w, told) ELSE InSectionMap(w, told)
  BY DEF Follows
<1>2. HeaderTold(v) = HeaderTold(w)
  BY DEF HeaderTold
<1>3. CASE w.kind = "PageMap"
  <2>1. Listed(w, w.nth) /\ told = HeaderTold(w) /\ w.nth = 0
        /\ (~w.pagesOnly => HeaderFaults = "none")
    BY <1>1, <1>3 DEF InPageMap
  <2>2. Listed(v, v.nth)
    BY <2>1, ListedSame
  <2>3. InPageMap(v, told)
    BY <1>2, <2>1, <2>2 DEF InPageMap
  <2>4. QED
    BY <1>3, <2>3 DEF Follows
<1>4. CASE w.kind # "PageMap"
  <2>1. InSectionMap(w, told)
    BY <1>1, <1>4
  <2>2. SectionMapPlaced(v)
    BY <2>1 DEF InSectionMap, SectionMapPlaced
  <2>3. InSectionMap(v, told)
    BY <1>2, <2>1, <2>2 DEF InSectionMap
  <2>4. QED
    BY <1>4, <2>3 DEF Follows
<1>5. QED
  BY <1>3, <1>4

LEMMA FeedSysHeaderFollows ==
  ASSUME Led, NEW n \in Nat \ {0}, n <= Read.len, Read.offset + n <= file.length,
         FeedSysHeader(n)
  PROVE  StepFollows(walk', commits')
<1>1. walk.stage = "SysHeader"
  BY DEF FeedSysHeader
<1>2. /\ walk \in WalkType /\ walk.failure = "none" /\ file \in Files
      /\ Located(walk) /\ Follows(walk, commits)
  BY <1>1, LedFacts DEF WalkOk
<1>3. IsSeq(commits)
  <2>1. CASE walk.kind = "PageMap"
    BY <1>1, <1>2, <2>1, HeaderToldSeq DEF Follows, InPageMap
  <2>2. CASE walk.kind # "PageMap"
    BY <1>1, <1>2, <2>2, HeaderToldSeq, EntriesToldFacts, EntriesNat, ConcatIsSeq
       DEF Follows, InSectionMap
  <2>3. QED
    BY <2>1, <2>2
<1>4. CASE walk.done + n < SysBytes /\ Then([walk EXCEPT !.done = @ + n], <<>>)
  <2>1. walk' = [walk EXCEPT !.done = @ + n] /\ commits' = commits
    BY <1>3, <1>4, EmptyFacts DEF Then
  <2>2. walk.done + n \in Nat
    BY <1>2, WalkFields
  <2>3. walk' \in WalkType
    BY <1>2, <2>1, <2>2 DEF WalkType
  <2>4. /\ walk'.stage = "SysHeader" /\ walk'.kind = walk.kind /\ walk'.at = walk.at
        /\ walk'.size = walk.size /\ walk'.nth = walk.nth /\ walk'.pagesOnly = walk.pagesOnly
        /\ walk'.address = walk.address /\ walk'.selfSeen = walk.selfSeen
        /\ walk'.mapAt = walk.mapAt /\ walk'.mapSize = walk.mapSize
        /\ walk'.failure = walk.failure
    BY <1>1, <1>2, <2>1 DEF WalkType
  <2>5. Follows(walk', commits)
    BY <1>1, <1>2, <2>3, <2>4, StillFollows
  <2>6. QED
    BY <1>2, <2>1, <2>4, <2>5 DEF StepFollows
<1>5. CASE SystemHeader /\ Then([walk EXCEPT !.done = 0, !.summed = 0, !.stage = "Check"], <<>>)
  <2>1. walk' = [walk EXCEPT !.done = 0, !.summed = 0, !.stage = "Check"] /\ commits' = commits
    BY <1>3, <1>5, EmptyFacts DEF Then
  <2>2. walk' \in WalkType
    BY <1>2, <2>1 DEF WalkType, Stages
  <2>3. /\ walk'.stage = "Check" /\ walk'.kind = walk.kind /\ walk'.at = walk.at
        /\ walk'.size = walk.size /\ walk'.nth = walk.nth /\ walk'.pagesOnly = walk.pagesOnly
        /\ walk'.address = walk.address /\ walk'.selfSeen = walk.selfSeen
        /\ walk'.mapAt = walk.mapAt /\ walk'.mapSize = walk.mapSize
        /\ walk'.failure = walk.failure /\ walk'.summed = walk'.done
    BY <1>2, <2>1 DEF WalkType
  <2>4. Follows(walk', commits)
    BY <1>1, <1>2, <2>2, <2>3, StillFollows
  <2>5. QED
    BY <1>2, <2>1, <2>3, <2>4 DEF StepFollows
<1>6. CASE walk.done + n = SysBytes /\ ~SystemHeader /\ Fail("SystemPage")
  <2> DEFINE p == PageAt(walk.at)
  <2>1. /\ p.comp \in Nat /\ p.decomp \in Nat /\ file.length \in Nat /\ walk.at \in Nat
        /\ SysBytes \in Nat /\ walk.size \in Nat /\ walk.done \in Nat
    BY <1>2, PageFacts, FileFacts, WalkFields, Sizes
  <2>2. walk.at + SysBytes <= file.length
    <3>1. Read = Span(walk.at + walk.done, SysBytes - walk.done)
      BY <1>1 DEF Read
    <3>2. Read.offset = walk.at + walk.done
      BY <3>1 DEF Span
    <3>3. walk.at + walk.done + n <= file.length
      BY <3>2
    <3>4. QED
      BY <1>6, <2>1, <3>3
  <2>3. \/ p.kind # walk.kind \/ p.comp = 0 \/ p.decomp = 0
        \/ walk.at + SysBytes + p.comp > file.length
        \/ walk.kind # "PageMap" /\ SysBytes + p.comp > walk.size
    <3>1. /\ p.comp > 0 <=> p.comp # 0
          /\ p.decomp > 0 <=> p.decomp # 0
          /\ walk.at + SysBytes + p.comp <= file.length
               <=> ~(walk.at + SysBytes + p.comp > file.length)
          /\ SysBytes + p.comp <= walk.size <=> ~(SysBytes + p.comp > walk.size)
      BY <2>1
    <3>2. ~(/\ p.kind = walk.kind /\ p.comp > 0 /\ p.decomp > 0
            /\ walk.at + SysBytes + p.comp <= file.length
            /\ walk.kind = "PageMap" \/ SysBytes + p.comp <= walk.size)
      BY <1>6 DEF SystemHeader, Fits, Page
    <3> HIDE DEF p
    <3>3. QED
      BY <3>1, <3>2, Zenon
  <2>4. PageFault(p, walk.kind, walk.at, SizeFor(walk)) = "SystemPage"
    <3>1. ~(walk.at + SysBytes > file.length)
      BY <2>1, <2>2
    <3>2. walk.kind # "PageMap" => SizeFor(walk) = walk.size
      BY DEF SizeFor
    <3> HIDE DEF p
    <3>3. QED
      BY <2>3, <3>1, <3>2 DEF PageFault
  <2>5. ReadingOf(walk) = Outcome(commits, "SystemPage")
    BY <1>1, <1>2, <2>4, PageRefusedWalk
  <2>6. QED
    BY <1>3, <1>6, <2>5, FailCame DEF Errors
<1>7. QED
  BY <1>4, <1>5, <1>6 DEF FeedSysHeader

LEMMA FeedCheckFollows ==
  ASSUME Led, NEW n \in Nat \ {0}, FeedCheck(n)
  PROVE  StepFollows(walk', commits')
<1>1. /\ walk.stage = "Check"
      /\ walk' = [walk EXCEPT !.done = @ + n, !.summed = @ + n]
      /\ commits' = commits \o <<>>
  BY DEF FeedCheck, Then
<1>2. /\ walk \in WalkType /\ walk.failure = "none" /\ file \in Files
      /\ Located(walk) /\ Follows(walk, commits) /\ walk.summed = walk.done
  BY <1>1, LedFacts DEF WalkOk, Follows
<1>3. IsSeq(commits)
  <2>1. CASE walk.kind = "PageMap"
    BY <1>1, <1>2, <2>1, HeaderToldSeq DEF Follows, InPageMap
  <2>2. CASE walk.kind # "PageMap"
    BY <1>1, <1>2, <2>2, HeaderToldSeq, EntriesToldFacts, EntriesNat, ConcatIsSeq
       DEF Follows, InSectionMap
  <2>3. QED
    BY <2>1, <2>2
<1>4. commits' = commits
  BY <1>1, <1>3, EmptyFacts
<1>5. walk.done \in Nat /\ walk.done + n \in Nat /\ walk.summed + n \in Nat
  BY <1>2, WalkFields
<1>6. walk' \in WalkType
  BY <1>1, <1>2, <1>5 DEF WalkType
<1>7. /\ walk'.stage = "Check" /\ walk'.kind = walk.kind /\ walk'.at = walk.at
      /\ walk'.size = walk.size /\ walk'.nth = walk.nth /\ walk'.pagesOnly = walk.pagesOnly
      /\ walk'.address = walk.address /\ walk'.selfSeen = walk.selfSeen
      /\ walk'.mapAt = walk.mapAt /\ walk'.mapSize = walk.mapSize
      /\ walk'.failure = walk.failure
      /\ walk'.summed = walk.summed + n /\ walk'.done = walk.done + n
  BY <1>1, <1>2 DEF WalkType
<1>8. walk'.summed = walk'.done
  BY <1>2, <1>7
<1>9. Follows(walk', commits)
  BY <1>1, <1>2, <1>6, <1>7, <1>8, StillFollows
<1>10. QED
  BY <1>2, <1>4, <1>7, <1>9 DEF StepFollows

LEMMA StreamFacts ==
  ASSUME file \in Files, NEW at
  PROVE  /\ PageAt(at).needs \in Nat \ {0} /\ PageAt(at).yields \in Nat
         /\ PageAt(at).comp \in Nat /\ PageAt(at).decomp \in Nat
         /\ PageAt(at).comp > 0 /\ PageAt(at).needs > PageAt(at).comp =>
              PageAt(at).ends = "cut" /\ PageAt(at).needs = PageAt(at).comp + 1
<1>1. CASE \E p \in file.pages : p.at = at
  <2>1. PageAt(at) \in file.pages
    BY <1>1 DEF PageAt
  <2> DEFINE p == PageAt(at)
  <2>2. p \in PageType /\ IF p.ends = "cut" THEN p.needs = p.comp + 1 ELSE p.needs <= p.comp
    BY <2>1, FilesAssumption
  <2> HIDE DEF p
  <2>3. p.needs \in Nat \ {0} /\ p.yields \in Nat /\ p.comp \in Nat /\ p.decomp \in Nat
    BY <2>2 DEF PageType
  <2>4. p.comp > 0 /\ p.needs > p.comp => p.ends = "cut" /\ p.needs = p.comp + 1
    BY <2>2, <2>3
  <2>5. QED
    BY <2>3, <2>4 DEF p
<1>2. CASE ~ \E p \in file.pages : p.at = at
  BY <1>2 DEF PageAt, NoPage
<1>3. QED
  BY <1>1, <1>2

LEMMA CountedNone ==
  ASSUME NEW w, Unread(w), w.open = "Count"
  PROVE  Counted(w, 0)
<1>1. ~Complete(w.at, 0)
  BY DEF Complete, IsDescription
<1>2. \A i \in 0..(0 - 1) : FALSE
  OBVIOUS
<1>3. FormOf(w.at, 0) = "Count"
  BY DEF FormOf
<1>4. Counting(w, 0)
  BY DEF Counting
<1>5. QED
  BY <1>1, <1>2, <1>3, <1>4 DEF Counted

LEMMA PumpCheckedFollows ==
  ASSUME Led, PumpChecked
  PROVE  StepFollows(walk', commits')
<1> DEFINE open == IF walk.kind = "PageMap" THEN "Entry" ELSE "Count"
<1>1. walk.stage = "Check" /\ Left = 0
  BY DEF PumpChecked
<1>2. /\ walk \in WalkType /\ walk.failure = "none" /\ file \in Files
      /\ Located(walk) /\ KeptSysOk(walk) /\ Unread(walk)
      /\ Follows(walk, commits) /\ walk.summed = walk.done
  BY <1>1, LedFacts DEF WalkOk, Follows
<1>3. /\ walk.done \in Nat /\ walk.at \in Nat /\ walk.kind \in Kinds
      /\ PageAt(walk.at).comp \in Nat /\ PageAt(walk.at).yields \in Nat
      /\ PageAt(walk.at).needs \in Nat \ {0}
  BY <1>2, WalkFields, StreamFacts
<1>4. walk.summed = PageAt(walk.at).comp
  BY <1>1, <1>2, <1>3 DEF Left, Page
<1>5. SumHolds <=> PageAt(walk.at).sum
  BY <1>4 DEF SumHolds, Page
<1>6. CASE ~SumHolds /\ Fail("SystemPageChecksum")
  <2>1. PageFault(PageAt(walk.at), walk.kind, walk.at, SizeFor(walk)) = "SystemPageChecksum"
    BY <1>2, <1>5, <1>6, PageSound
  <2>2. ReadingOf(walk) = Outcome(commits, "SystemPageChecksum") /\ IsSeq(commits)
    BY <1>1, <1>2, <2>1, PageRefusedWalk
  <2>3. QED
    BY <1>6, <2>2, FailCame DEF Errors
<1>7. CASE /\ SumHolds
           /\ walk' = [walk EXCEPT !.stage = "Decode", !.done = 0, !.summed = 0, !.carried = 0,
                                   !.lz = NewLz, !.have = 0, !.open = open]
           /\ commits' = commits \o <<PageCommit(walk.kind, walk.at)>>
  <2> DEFINE v == walk'
  <2>1. /\ v.stage = "Decode" /\ v.have = 0 /\ v.open = open /\ v.lz = NewLz
        /\ v.at = walk.at /\ v.kind = walk.kind /\ v.size = walk.size /\ v.nth = walk.nth
        /\ v.address = walk.address /\ v.selfSeen = walk.selfSeen
        /\ v.mapAt = walk.mapAt /\ v.mapSize = walk.mapSize
        /\ v.index = walk.index /\ v.sections = walk.sections /\ v.refs = walk.refs
        /\ v.pagesOnly = walk.pagesOnly /\ v.failure = walk.failure
    BY <1>2, <1>7 DEF WalkType
  <2> HIDE DEF v
  <2>2. v.lz.consumed = 0 /\ v.lz.produced = 0 /\ v.lz.mode = "reading"
    BY <2>1 DEF NewLz
  <2>3. Streams(v) /\ PageAt(v.at).sum
    BY <1>3, <1>5, <1>7, <2>1, <2>2 DEF Streams
  <2>4. HeaderTold(v) = HeaderTold(walk)
    BY <2>1 DEF HeaderTold
  <2>5. CASE walk.kind = "PageMap"
    <3>1. /\ Listed(walk, walk.nth) /\ commits = HeaderTold(walk) /\ walk.nth = 0
          /\ ~walk.pagesOnly => HeaderFaults = "none"
      BY <1>1, <1>2, <2>5 DEF Follows, InPageMap
    <3>2. Listed(v, 0)
      BY <2>1, <3>1, ListedSame
    <3>3. walk.at = file.pageMap
      BY <1>2, <2>5 DEF Located
    <3>4. EntriesTold(0) = <<PageCommit("PageMap", file.pageMap)>>
      BY EntriesToldFacts
    <3>5. commits' = HeaderTold(v) \o EntriesTold(v.nth)
      BY <1>7, <2>1, <2>4, <2>5, <3>1, <3>3, <3>4
    <3>6. v.lz.produced = EntryStart[v.nth] + v.have
      <4>1. EntryStart[0] = 0
        BY <1>2, EntryFacts
      <4>2. QED
        BY <2>1, <2>2, <3>1, <4>1
    <3>7. InPageMap(v, commits')
      BY <2>1, <3>1, <3>2, <3>5, <3>6 DEF InPageMap
    <3>8. QED
      BY <1>2, <2>1, <2>3, <2>5, <3>7 DEF StepFollows, Follows, v
  <2>6. CASE walk.kind # "PageMap"
    <3>1. /\ HeaderFaults = "none" /\ SectionMapPlaced(walk)
          /\ commits = HeaderTold(walk) \o EntriesTold(Entries) /\ walk.nth = 0
      BY <1>1, <1>2, <2>6 DEF Follows, InSectionMap
    <3>2. SectionMapPlaced(v)
      BY <2>1, <3>1 DEF SectionMapPlaced
    <3>3. walk.kind = "SectionMap"
      BY <1>2, <2>6, WalkKind
    <3>4. RecordsTold(v.at, 0) = <<PageCommit("SectionMap", walk.at)>>
      BY <2>1, RecordsToldFacts
    <3>5. commits' = HeaderTold(v) \o EntriesTold(Entries) \o RecordsTold(v.at, v.nth)
      BY <1>7, <2>1, <2>4, <3>1, <3>3, <3>4
    <3>6. v.lz.produced = RecordStart(v.at)[v.nth] + v.have
      <4>1. RecordStart(v.at)[0] = 0
        BY <1>2, RecordStartFacts
      <4>2. QED
        BY <2>1, <2>2, <3>1, <4>1
    <3>7. Counted(v, v.nth)
      <4>1. Unread(v) /\ v.open = "Count"
        BY <1>2, <2>1, <2>6 DEF Unread
      <4>2. QED
        BY <2>1, <3>1, <4>1, CountedNone
    <3>8. InSectionMap(v, commits')
      BY <2>1, <3>1, <3>2, <3>5, <3>6, <3>7 DEF InSectionMap
    <3>9. QED
      BY <1>2, <2>1, <2>3, <2>6, <3>8 DEF StepFollows, Follows, v
  <2>7. QED
    BY <2>5, <2>6
<1>8. QED
  BY <1>6, <1>7 DEF PumpChecked, Then, PageCommit

----------------------------------------------------------------------------
(* A walk that decodes its page.                                           *)

Leads(w, told) ==
  /\ w \in WalkType /\ w.failure = "none" /\ w.stage = "Decode" /\ WalkOk(w)
  /\ Follows(w, told)

LEMMA InPageMapFacts ==
  ASSUME file \in Files, NEW w, NEW told, Leads(w, told), w.kind = "PageMap"
  PROVE  /\ w \in WalkType /\ HeaderRight(w) /\ w.nth \in Nat /\ w.have \in Nat
         /\ Listed(w, w.nth) /\ \A i \in 0..(w.nth - 1) : EntryFault(i) = "none"
         /\ told = HeaderTold(w) \o EntriesTold(w.nth) /\ IsSeq(told)
         /\ PageAt(w.at) = PageMap
         /\ w.lz.produced = EntryStart[w.nth] + w.have /\ w.lz.produced <= PageMap.yields
         /\ w.have <= SizeOf(w.open)
         /\ PageFault(PageMap, "PageMap", file.pageMap, file.length) = "none"
         /\ \/ w.open = "Entry"
            \/ w.open = "Gap" /\ EntryForm(w.nth) = "Gap"
         /\ SizeOf(w.open) <= SizeOf(EntryForm(w.nth))
         /\ EntryStart[w.nth] <= PageMap.yields
<1>1. /\ w \in WalkType /\ w.stage = "Decode" /\ Located(w) /\ KeptSysOk(w) /\ RecordsOk(w)
      /\ Follows(w, told)
  BY DEF Leads, WalkOk
<1>2. /\ HeaderRight(w) /\ Listed(w, w.nth) /\ told = HeaderTold(w) \o EntriesTold(w.nth)
      /\ w.lz.produced = EntryStart[w.nth] + w.have /\ PageAt(w.at).sum /\ Streams(w)
  BY <1>1 DEF Follows, InPageMap, HeaderRight
<1>3. w.at = file.pageMap /\ PageAt(w.at) = PageMap /\ w.have <= SizeOf(w.open)
  BY <1>1 DEF Located, PageMap
<1>4. w.nth \in Nat /\ w.have \in Nat /\ PageMap.yields \in Nat /\ EntryStart[w.nth] \in Nat
  BY <1>1, <1>3, WalkFields, EntryFacts, PageFacts DEF PageMap
<1>5. IsSeq(told)
  BY <1>2, <1>4, HeaderToldSeq, EntriesToldFacts, ConcatIsSeq
<1>6. PageFault(PageMap, "PageMap", file.pageMap, file.length) = "none"
  BY <1>1, <1>2, <1>3, PageSound DEF SizeFor
<1>7. w.open = "Entry" \/ (w.open = "Gap" /\ EntryForm(w.nth) = "Gap")
  BY <1>1, <1>3 DEF RecordsOk, EntryForm, EntryAt
<1>8. SizeOf(w.open) <= SizeOf(EntryForm(w.nth))
  <2>1. /\ SizeOf("Entry") \in Nat /\ SizeOf("Gap") \in Nat
        /\ SizeOf("Entry") <= SizeOf("Gap") /\ SizeOf("Entry") <= SizeOf("Entry")
        /\ SizeOf("Gap") <= SizeOf("Gap")
    BY Sizes DEF Openings
  <2>2. EntryForm(w.nth) \in {"Entry", "Gap"}
    BY DEF EntryForm
  <2>3. QED
    BY <1>7, <2>1, <2>2
<1>9. \A i \in 0..(w.nth - 1) : EntryFault(i) = "none"
  BY <1>2 DEF Listed
<1>10. w.lz.produced <= PageMap.yields
  BY <1>2, <1>3 DEF Streams
<1>11. EntryStart[w.nth] <= PageMap.yields
  BY <1>2, <1>4, <1>10
<1>12. QED
  BY <1>1, <1>2, <1>3, <1>4, <1>5, <1>6, <1>7, <1>8, <1>9, <1>10, <1>11

LEMMA InSectionMapFacts ==
  ASSUME file \in Files, NEW w, NEW told, Leads(w, told), w.kind # "PageMap"
  PROVE  /\ w \in WalkType /\ HeaderRight(w) /\ ~w.pagesOnly /\ w.kind = "SectionMap"
         /\ w.nth \in Nat /\ w.have \in Nat
         /\ SectionMapPlaced(w) /\ Counted(w, w.nth) /\ RightRecords(w.at, w.nth)
         /\ told = HeaderTold(w) \o EntriesTold(Entries) \o RecordsTold(w.at, w.nth)
         /\ IsSeq(told) /\ IsSeq(HeaderTold(w) \o EntriesTold(Entries))
         /\ w.lz.produced = RecordStart(w.at)[w.nth] + w.have
         /\ w.lz.produced <= PageAt(w.at).yields
         /\ w.have <= SizeOf(w.open)
         /\ PageFault(PageAt(w.at), "SectionMap", w.at, w.size) = "none"
         /\ RecordStart(w.at)[w.nth] <= PageAt(w.at).yields
<1>1. /\ w \in WalkType /\ w.stage = "Decode" /\ Located(w) /\ KeptSysOk(w)
      /\ Follows(w, told)
  BY DEF Leads, WalkOk
<1>2. /\ HeaderRight(w) /\ SectionMapPlaced(w) /\ Counted(w, w.nth)
      /\ told = HeaderTold(w) \o EntriesTold(Entries) \o RecordsTold(w.at, w.nth)
      /\ w.lz.produced = RecordStart(w.at)[w.nth] + w.have /\ PageAt(w.at).sum /\ Streams(w)
  BY <1>1 DEF Follows, InSectionMap, HeaderRight
<1>3. w.kind = "SectionMap" /\ w.have <= SizeOf(w.open) /\ ~w.pagesOnly
  BY <1>1, <1>2, WalkKind, SectionMapAt DEF Located
<1>4. w.nth \in Nat /\ w.have \in Nat /\ RecordStart(w.at)[w.nth] \in Nat
      /\ PageAt(w.at).yields \in Nat
  BY <1>1, WalkFields, RecordStartFacts, PageFacts
<1>5. IsSeq(HeaderTold(w) \o EntriesTold(Entries))
  BY HeaderToldSeq, EntriesToldFacts, EntriesNat, ConcatIsSeq
<1>6. IsSeq(told)
  BY <1>2, <1>4, <1>5, RecordsToldFacts, ConcatIsSeq
<1>7. PageFault(PageAt(w.at), "SectionMap", w.at, w.size) = "none"
  BY <1>1, <1>2, <1>3, PageSound DEF SizeFor
<1>8. RightRecords(w.at, w.nth)
  BY <1>2 DEF Counted, RightRecords
<1>9. w.lz.produced <= PageAt(w.at).yields
  BY <1>2 DEF Streams
<1>10. RecordStart(w.at)[w.nth] <= PageAt(w.at).yields
  BY <1>2, <1>4, <1>9
<1>11. QED
  BY <1>1, <1>2, <1>3, <1>4, <1>5, <1>6, <1>7, <1>8, <1>9, <1>10

----------------------------------------------------------------------------
(* Where a stream ends.                                                    *)

\* The page map was the last thing read.
LEMMA InPageMapEnds ==
  ASSUME file \in Files, NEW w, NEW told, Leads(w, told), w.kind = "PageMap",
         NEW m \in Nat, NEW f, f # "none", PageMapReading = Outcome(EntriesTold(m), f)
  PROVE  /\ m = w.nth => ReadingOf(w) = Outcome(told, f)
         /\ m = w.nth + 1 => ReadingOf(w) = Outcome(told \o <<EntryStep(w.nth)>>, f)
<1> DEFINE h == HeaderTold(w)
           s == EntriesTold(w.nth)
           x == <<EntryStep(w.nth)>>
<1>1. HeaderRight(w) /\ told = h \o s /\ w.nth \in Nat
  BY InPageMapFacts
<1>2. IsSeq(EntriesTold(m)) /\ IsSeq(h) /\ IsSeq(s) /\ IsSeq(x)
  BY <1>1, EntriesToldFacts, HeaderToldSeq, SingleIsSeq
<1>3. ReadingOf(w) = Outcome(h \o EntriesTold(m), f)
  BY <1>1, <1>2, PageMapEnds
<1>4. EntriesTold(w.nth + 1) = s \o x
  BY <1>1, EntriesToldFacts
<1> HIDE DEF h, s, x
<1>5. h \o (s \o x) = (h \o s) \o x
  BY <1>2, ConcatAssociative
<1>6. m = w.nth + 1 => ReadingOf(w) = Outcome(told \o x, f)
  BY <1>1, <1>3, <1>4, <1>5
<1>7. m = w.nth => ReadingOf(w) = Outcome(told, f)
  BY <1>1, <1>3 DEF s
<1>8. QED
  BY <1>6, <1>7 DEF x

\* The section map was.
LEMMA InSectionMapEnds ==
  ASSUME file \in Files, NEW w, NEW told, Leads(w, told), w.kind # "PageMap",
         NEW m \in Nat, NEW f, NEW u, u = RecordsTold(w.at, m),
         SectionsReading(w.at, w.size) = Outcome(u, f)
  PROVE  /\ f # "none" => ReadingOf(w) = Outcome(HeaderTold(w) \o EntriesTold(Entries) \o u, f)
         /\ f = "none" =>
              ReadingOf(w) = Outcome(HeaderTold(w) \o EntriesTold(Entries) \o u \o Finished, f)
<1> DEFINE s == EntriesTold(Entries)
<1>1. HeaderRight(w) /\ ~w.pagesOnly /\ SectionMapPlaced(w)
  BY InSectionMapFacts
<1>2. IsSeq(s) /\ IsSeq(u)
  BY EntriesToldFacts, EntriesNat, RecordsToldFacts
<1>3. PageMapReading = Outcome(s, "none") /\ SectionMapReading = Outcome(u, f)
  BY <1>1, SectionMapAt
<1> HIDE DEF s
<1>4. /\ f # "none" => ReadingOf(w) = Outcome(HeaderTold(w) \o s \o u, f)
      /\ f = "none" => ReadingOf(w) = Outcome(HeaderTold(w) \o s \o u \o Finished, f)
  BY <1>1, <1>2, <1>3, SectionMapEnds
<1>5. QED
  BY <1>4 DEF s

LEMMA InSectionMapHere ==
  ASSUME file \in Files, NEW w, NEW told, Leads(w, told), w.kind # "PageMap", NEW f,
         SectionsReading(w.at, w.size) = Outcome(RecordsTold(w.at, w.nth), f)
  PROVE  /\ f # "none" => ReadingOf(w) = Outcome(told, f)
         /\ f = "none" => ReadingOf(w) = Outcome(told \o Finished, f)
<1> DEFINE u == RecordsTold(w.at, w.nth)
           a == HeaderTold(w) \o EntriesTold(Entries)
<1>1. w.nth \in Nat /\ told = a \o u
  BY InSectionMapFacts
<1>2. SectionsReading(w.at, w.size) = Outcome(u, f) /\ u = RecordsTold(w.at, w.nth)
  OBVIOUS
<1> HIDE DEF u
<1>3. /\ f # "none" => ReadingOf(w) = Outcome(a \o u, f)
      /\ f = "none" => ReadingOf(w) = Outcome(a \o u \o Finished, f)
  BY <1>1, <1>2, InSectionMapEnds
<1> HIDE DEF a
<1>4. QED
  BY <1>1, <1>3

LEMMA InSectionMapLonger ==
  ASSUME file \in Files, NEW w, NEW told, Leads(w, told), w.kind # "PageMap", NEW f,
         f # "none", SectionsReading(w.at, w.size) = Outcome(RecordsTold(w.at, w.nth + 1), f)
  PROVE  ReadingOf(w) = Outcome(told \o <<RecordStep(w.at, w.nth)>>, f)
<1> DEFINE t == RecordsTold(w.at, w.nth)
           u == RecordsTold(w.at, w.nth + 1)
           a == HeaderTold(w) \o EntriesTold(Entries)
           x == <<RecordStep(w.at, w.nth)>>
<1>1. w.nth \in Nat /\ w.nth + 1 \in Nat /\ told = a \o t /\ IsSeq(a)
  BY InSectionMapFacts
<1>2. SectionsReading(w.at, w.size) = Outcome(u, f) /\ u = RecordsTold(w.at, w.nth + 1)
  OBVIOUS
<1>3. u = t \o x
  BY <1>1, RecordsToldFacts
<1>8. IsSeq(t) /\ IsSeq(x) /\ IsSeq(a)
  BY <1>1, RecordsToldFacts, SingleIsSeq
<1> HIDE DEF t, u, x
<1>4. ReadingOf(w) = Outcome(a \o u, f)
  BY <1>1, <1>2, InSectionMapEnds
<1> HIDE DEF a
<1>5. a \o (t \o x) = (a \o t) \o x
  BY <1>8, ConcatAssociative
<1>6. ReadingOf(w) = Outcome(told \o x, f)
  BY <1>1, <1>3, <1>4, <1>5
<1>7. QED
  BY <1>6 DEF x

\* All the output is there, and the record at hand is not whole.
LEMMA PageMapCloses ==
  ASSUME file \in Files, NEW w, NEW told, Leads(w, told), w.kind = "PageMap",
         w.lz.produced = PageMap.yields, w.have < SizeOf(w.open)
  PROVE  /\ Entries = w.nth /\ PageMapReading = Outcome(EntriesTold(w.nth), PageMapEnd)
         /\ PageMap.yields = EntryStart[w.nth] + w.have
         /\ PageMapEnd # "none" => ReadingOf(w) = Outcome(told, PageMapEnd)
<1>1. /\ w.nth \in Nat /\ w.have \in Nat
      /\ w.lz.produced = EntryStart[w.nth] + w.have
      /\ SizeOf(w.open) <= SizeOf(EntryForm(w.nth))
      /\ PageFault(PageMap, "PageMap", file.pageMap, file.length) = "none"
      /\ \A i \in 0..(w.nth - 1) : EntryFault(i) = "none"
      /\ EntryStart[w.nth] <= PageMap.yields
  BY InPageMapFacts
<1>2. /\ EntryStart[w.nth] \in Nat /\ SizeOf(EntryForm(w.nth)) \in Nat
      /\ EntryStart[w.nth + 1] = EntryStart[w.nth] + SizeOf(EntryForm(w.nth))
  BY <1>1, EntryFacts
<1>3. SizeOf(w.open) \in Nat
  BY WalkFields, Sizes DEF Leads
<1>4. PageMap.yields < EntryStart[w.nth + 1]
  BY <1>1, <1>2, <1>3
<1>5. Entries = w.nth /\ PageMapReading = Outcome(EntriesTold(w.nth), PageMapEnd)
  BY <1>1, <1>4, PageMapRead
<1>6. PageMapEnd # "none" => ReadingOf(w) = Outcome(told, PageMapEnd)
  BY <1>1, <1>5, InPageMapEnds
<1>7. QED
  BY <1>1, <1>5, <1>6

LEMMA SectionMapCloses ==
  ASSUME file \in Files, NEW w, NEW told, Leads(w, told), w.kind # "PageMap",
         w.open = "None" \/ (w.lz.produced = PageAt(w.at).yields /\ w.have < SizeOf(w.open))
  PROVE  /\ Records(w.at) = w.nth
         /\ w.open = "None" <=> Complete(w.at, w.nth)
         /\ SectionMapEnd(w.at) # "none" => ReadingOf(w) = Outcome(told, SectionMapEnd(w.at))
         /\ SectionMapEnd(w.at) = "none" => ReadingOf(w) = Outcome(told \o Finished, "none")
<1>1. /\ w.nth \in Nat /\ w.have \in Nat /\ Counted(w, w.nth) /\ RightRecords(w.at, w.nth)
      /\ w.lz.produced = RecordStart(w.at)[w.nth] + w.have
      /\ PageFault(PageAt(w.at), "SectionMap", w.at, w.size) = "none"
      /\ RecordStart(w.at)[w.nth] <= PageAt(w.at).yields
  BY InSectionMapFacts
<1>2. /\ w.open = "None" <=> Complete(w.at, w.nth)
      /\ w.open # "None" => w.open = FormOf(w.at, w.nth)
  BY <1>1, CountedForm
<1>3. Complete(w.at, w.nth) \/ PageAt(w.at).yields < RecordStart(w.at)[w.nth + 1]
  <2>1. SUFFICES ASSUME w.open # "None"
                 PROVE  PageAt(w.at).yields < RecordStart(w.at)[w.nth + 1]
    BY <1>2
  <2>2. /\ RecordStart(w.at)[w.nth] \in Nat
        /\ SizeOf(FormOf(w.at, w.nth)) \in Nat
        /\ RecordStart(w.at)[w.nth + 1] = RecordStart(w.at)[w.nth] + SizeOf(FormOf(w.at, w.nth))
    BY <1>1, RecordStartFacts
  <2>3. w.lz.produced = PageAt(w.at).yields /\ w.have < SizeOf(FormOf(w.at, w.nth))
    BY <1>2, <2>1
  <2>4. QED
    BY <1>1, <2>2, <2>3
<1>4. /\ Records(w.at) = w.nth
      /\ SectionsReading(w.at, w.size) = Outcome(RecordsTold(w.at, w.nth), SectionMapEnd(w.at))
  BY <1>1, <1>3, SectionsRead
<1> DEFINE f == SectionMapEnd(w.at)
<1>5. SectionsReading(w.at, w.size) = Outcome(RecordsTold(w.at, w.nth), f)
  BY <1>4
<1> HIDE DEF f
<1>6. /\ f # "none" => ReadingOf(w) = Outcome(told, f)
      /\ f = "none" => ReadingOf(w) = Outcome(told \o Finished, f)
  BY <1>5, InSectionMapHere
<1>7. QED
  BY <1>2, <1>4, <1>6 DEF f

\* What a malformed stream gives is told, but for the last record.
AllBut(w, told) ==
  \/ ReadingOf(w).commits = told
  \/ \E x : ReadingOf(w).commits = told \o <<x>>

LEMMA CommitsOf ==
  ASSUME NEW w, NEW told, NEW f, ReadingOf(w) = Outcome(told, f)
  PROVE  AllBut(w, told)
BY OutcomeFacts DEF AllBut

LEMMA CommitsOfMore ==
  ASSUME NEW w, NEW told, NEW x, NEW f, ReadingOf(w) = Outcome(told \o <<x>>, f)
  PROVE  AllBut(w, told)
<1> DEFINE s == told \o <<x>>
<1>1. s = told \o <<x>> /\ ReadingOf(w) = Outcome(s, f)
  OBVIOUS
<1> HIDE DEF s
<1>2. ReadingOf(w).commits = s
  BY <1>1, OutcomeFacts
<1>3. QED
  BY <1>1, <1>2 DEF AllBut

LEMMA PageMapBroken ==
  ASSUME file \in Files, NEW w, NEW told, Leads(w, told), w.kind = "PageMap",
         PageMap.yields <= EntryStart[w.nth] + SizeOf(w.open), PageMap.ends # "terminator"
  PROVE  AllBut(w, told)
<1> DEFINE n == w.nth
<1>1. /\ n \in Nat
      /\ SizeOf(w.open) <= SizeOf(EntryForm(n))
      /\ PageFault(PageMap, "PageMap", file.pageMap, file.length) = "none"
      /\ \A i \in 0..(n - 1) : EntryFault(i) = "none"
      /\ EntryStart[n] <= PageMap.yields
  BY InPageMapFacts
<1>9. n = w.nth
  OBVIOUS
<1> HIDE DEF n
<1>2. /\ EntryStart[n] \in Nat /\ SizeOf(EntryForm(n)) \in Nat
      /\ EntryStart[n + 1] = EntryStart[n] + SizeOf(EntryForm(n))
      /\ EntryStart[n + 1] \in Nat
  <2>1. n + 1 \in Nat
    BY <1>1
  <2>2. QED
    BY <1>1, <2>1, EntryFacts
<1>3. SizeOf(w.open) \in Nat /\ PageMap.yields \in Nat
  BY WalkFields, Sizes, PageFacts DEF Leads, PageMap
<1>4. PageMapEnd = "Lz77"
  BY DEF PageMapEnd
<1>5. CASE PageMap.yields < EntryStart[n + 1]
  <2>1. PageMapReading = Outcome(EntriesTold(n), "Lz77")
    BY <1>1, <1>4, <1>5, PageMapRead
  <2>2. ReadingOf(w) = Outcome(told, "Lz77")
    BY <1>1, <1>9, <2>1, InPageMapEnds
  <2>3. QED
    BY <2>2, CommitsOf
<1>6. CASE PageMap.yields = EntryStart[n + 1]
  <2>1. EntryStart[n + 1] <= PageMap.yields /\ n + 1 \in Nat
    BY <1>1, <1>2, <1>6
  <2>2. CASE EntryFault(n) # "none"
    <3>1. PageMapReading = Outcome(EntriesTold(n), EntryFault(n))
      BY <1>1, <2>1, <2>2, PageMapStops
    <3>2. ReadingOf(w) = Outcome(told, EntryFault(n))
      BY <1>1, <1>9, <2>2, <3>1, InPageMapEnds
    <3>3. QED
      BY <3>2, CommitsOf
  <2>3. CASE EntryFault(n) = "none"
    <3>1. \A i \in 0..((n + 1) - 1) : EntryFault(i) = "none"
      <4>1. \A i \in 0..((n + 1) - 1) : i \in 0..(n - 1) \/ i = n
        BY <1>1
      <4>2. QED
        BY <1>1, <2>3, <4>1
    <3>2. PageMap.yields < EntryStart[(n + 1) + 1]
      <4>1. /\ EntryStart[(n + 1) + 1] = EntryStart[n + 1] + SizeOf(EntryForm(n + 1))
            /\ SizeOf(EntryForm(n + 1)) \in Nat \ {0}
        BY <2>1, EntryFacts
      <4>2. QED
        BY <1>2, <1>6, <4>1
    <3>3. PageMapReading = Outcome(EntriesTold(n + 1), "Lz77")
      BY <1>1, <1>4, <2>1, <3>1, <3>2, PageMapRead
    <3>4. ReadingOf(w) = Outcome(told \o <<EntryStep(n)>>, "Lz77")
      BY <1>1, <1>9, <2>1, <3>3, InPageMapEnds
    <3>5. QED
      BY <3>4, CommitsOfMore
  <2>4. QED
    BY <2>2, <2>3
<1>7. PageMap.yields <= EntryStart[n + 1]
  <2>1. PageMap.yields <= EntryStart[n] + SizeOf(w.open)
    BY <1>9
  <2>2. QED
    BY <1>1, <1>2, <1>3, <2>1
<1>8. QED
  BY <1>2, <1>3, <1>5, <1>6, <1>7

LEMMA SectionMapBroken ==
  ASSUME file \in Files, NEW w, NEW told, Leads(w, told), w.kind # "PageMap",
         PageAt(w.at).ends # "terminator",
         \/ w.open = "None"
         \/ PageAt(w.at).yields <= RecordStart(w.at)[w.nth] + SizeOf(w.open)
  PROVE  AllBut(w, told)
<1> DEFINE n == w.nth
           at == w.at
           yields == PageAt(at).yields
           start == RecordStart(at)
<1>1. /\ n \in Nat /\ Counted(w, n) /\ RightRecords(at, n)
      /\ PageFault(PageAt(at), "SectionMap", at, w.size) = "none"
      /\ start[n] <= yields
  BY InSectionMapFacts
<1>5. n = w.nth /\ at = w.at
  OBVIOUS
<1>6. w.open # "None" => yields <= start[n] + SizeOf(w.open)
  OBVIOUS
<1>7. yields = PageAt(at).yields /\ start = RecordStart(at) /\ SizeOf(w.open) \in Nat
  BY WalkFields, Sizes DEF Leads
<1>8. PageAt(at).ends # "terminator"
  OBVIOUS
<1> HIDE DEF n, at, yields, start
<1>2. CASE w.open = "None"
  <2>1. /\ SectionMapEnd(at) # "none" => ReadingOf(w) = Outcome(told, SectionMapEnd(at))
    BY <1>2, <1>5, SectionMapCloses
  <2>2. SectionMapEnd(at) # "none"
    BY <1>8 DEF SectionMapEnd
  <2>3. QED
    BY <2>1, <2>2, CommitsOf
<1>3. CASE w.open # "None"
  <2>1. ~Complete(at, n) /\ w.open = FormOf(at, n)
    BY <1>1, <1>3, <1>5, CountedForm
  <2>2. /\ start[n] \in Nat /\ SizeOf(FormOf(at, n)) \in Nat
        /\ start[n + 1] = start[n] + SizeOf(FormOf(at, n))
        /\ start[n + 1] \in Nat /\ yields \in Nat
    <3>1. n + 1 \in Nat
      BY <1>1
    <3>2. QED
      BY <1>1, <1>7, <3>1, RecordStartFacts, PageFacts
  <2>3. yields <= start[n + 1]
    BY <1>3, <1>6, <2>1, <2>2
  <2>4. SectionMapEnd(at) # "none"
    BY <1>8 DEF SectionMapEnd
  <2>5. CASE yields < start[n + 1]
    <3>1. SectionsReading(at, w.size) = Outcome(RecordsTold(at, n), SectionMapEnd(at))
      BY <1>1, <1>7, <2>5, SectionsRead
    <3>2. ReadingOf(w) = Outcome(told, SectionMapEnd(at))
      BY <1>5, <2>4, <3>1, InSectionMapHere
    <3>3. QED
      BY <3>2, CommitsOf
  <2>6. CASE yields = start[n + 1]
    <3>1. start[n + 1] <= yields /\ n + 1 \in Nat
      BY <1>1, <2>2, <2>6
    <3>2. CASE RecordFault(at, n) # "none"
      <4>1. SectionsReading(at, w.size) = Outcome(RecordsTold(at, n), RecordFault(at, n))
        BY <1>1, <1>7, <2>1, <3>1, <3>2, SectionsStop
      <4>2. ReadingOf(w) = Outcome(told, RecordFault(at, n))
        BY <1>5, <3>2, <4>1, InSectionMapHere
      <4>3. QED
        BY <4>2, CommitsOf
    <3>3. CASE RecordFault(at, n) = "none"
      <4>1. RightRecords(at, n + 1)
        <5>1. \A i \in 0..((n + 1) - 1) : i \in 0..(n - 1) \/ i = n
          BY <1>1
        <5>2. QED
          BY <1>1, <2>1, <3>3, <5>1 DEF RightRecords
      <4>2. yields < start[(n + 1) + 1]
        <5>1. /\ start[(n + 1) + 1] = start[n + 1] + SizeOf(FormOf(at, n + 1))
              /\ SizeOf(FormOf(at, n + 1)) \in Nat \ {0}
          BY <1>7, <3>1, RecordStartFacts
        <5>2. QED
          BY <2>2, <2>6, <5>1
      <4>3. SectionsReading(at, w.size) = Outcome(RecordsTold(at, n + 1), SectionMapEnd(at))
        BY <1>7, <1>1, <3>1, <4>1, <4>2, SectionsRead
      <4>4. ReadingOf(w) = Outcome(told \o <<RecordStep(at, n)>>, SectionMapEnd(at))
        BY <1>1, <2>4, <3>1, <4>3, <1>5, InSectionMapLonger
      <4>5. QED
        BY <4>4, CommitsOfMore
    <3>4. QED
      BY <3>2, <3>3
  <2>7. QED
    BY <2>2, <2>3, <2>5, <2>6
<1>4. QED
  BY <1>2, <1>3

----------------------------------------------------------------------------
(* The decoder's calls.  w is the walk with what a call has put out.       *)

Fed(w) ==
  Led /\ Decoding(w) /\ Leads(w, commits) /\ w.pagesOnly = walk.pagesOnly

\* With every record read, the output has the declared size.
Full(w) == w.open = "None" => w.lz.produced = PageAt(w.at).decomp

LEMMA FedFacts ==
  ASSUME NEW w, Fed(w)
  PROVE  /\ Led /\ file \in Files /\ w \in WalkType /\ w.failure = "none" /\ w.stage = "Decode"
         /\ Leads(w, commits) /\ Decoding(w) /\ IsSeq(commits)
         /\ ReadingOf(w) = ReadingOf(walk)
         /\ w.at = walk.at /\ w.kind = walk.kind /\ Page = PageAt(w.at)
         /\ Located(w) /\ KeptSysOk(w) /\ RecordsOk(w)
         /\ PageAt(w.at).sum /\ Streams(w)
         /\ w.lz.produced \in Nat /\ w.lz.consumed \in Nat
         /\ w.have \in Nat /\ w.have <= SizeOf(w.open) /\ SizeOf(w.open) \in Nat
<1>1. Led /\ Decoding(w) /\ Leads(w, commits) /\ w.pagesOnly = walk.pagesOnly
  BY DEF Fed
<1>2. file \in Files
  BY <1>1, LedFacts
<1>3. /\ w \in WalkType /\ w.failure = "none" /\ w.stage = "Decode"
      /\ Located(w) /\ KeptSysOk(w) /\ RecordsOk(w) /\ w.at = walk.at /\ w.kind = walk.kind
  BY <1>1, DecodingFacts DEF Decoding
<1>4. IsSeq(commits)
  BY <1>1, <1>2, InPageMapFacts, InSectionMapFacts
<1>5. ReadingOf(w) = ReadingOf(walk)
  BY <1>1 DEF ReadingOf
<1>6. Page = PageAt(w.at)
  BY <1>3 DEF Page
<1>7. PageAt(w.at).sum /\ Streams(w)
  BY <1>1, <1>3 DEF Leads, Follows
<1>8. /\ w.lz.produced \in Nat /\ w.lz.consumed \in Nat
      /\ w.have \in Nat /\ w.have <= SizeOf(w.open) /\ SizeOf(w.open) \in Nat
  BY <1>3, WalkFields, Sizes DEF LzType, Located
<1>9. QED
  BY <1>1, <1>2, <1>3, <1>4, <1>5, <1>6, <1>7, <1>8

LEMMA FailHere ==
  ASSUME NEW w, Fed(w), NEW e \in Errors \ {"none"}, Fail(e), ReadingOf(w) = Outcome(commits, e)
  PROVE  StepFollows(walk', commits')
<1>1. Led /\ IsSeq(commits) /\ ReadingOf(walk) = Outcome(commits, e)
  BY FedFacts
<1>2. QED
  BY <1>1, FailCame

LEMMA FailBroken ==
  ASSUME NEW w, Fed(w), Fail("Lz77"), PageAt(w.at).ends = "malformed", AllBut(w, commits)
  PROVE  StepFollows(walk', commits')
<1>1. /\ Led /\ IsSeq(commits) /\ ReadingOf(w) = ReadingOf(walk)
      /\ PageAt(walk.at).ends = "malformed"
  BY FedFacts
<1>2. \/ ReadingOf(walk).commits = commits
      \/ \E x : ReadingOf(walk).commits = commits \o <<x>>
  BY <1>1 DEF AllBut
<1>3. QED
  BY <1>1, <1>2, FailShort

LEMMA WalkFed ==
  ASSUME Led, walk.stage = "Decode"
  PROVE  Fed(walk)
BY LedFacts DEF Fed, Decoding, Leads

\* Output is left when every record is read.
LEMMA UndrainedFollows ==
  ASSUME Led, walk.stage = "Decode", ~Drained, Fail("MapLength")
  PROVE  StepFollows(walk', commits')
<1> DEFINE at == walk.at
           n == walk.nth
<1>1. Fed(walk)
  BY WalkFed
<1>2. /\ file \in Files /\ walk \in WalkType /\ Leads(walk, commits) /\ Page = PageAt(at)
      /\ walk.have <= SizeOf(walk.open) /\ walk.have \in Nat
  BY <1>1, FedFacts
<1>3. walk.open = "None" /\ walk.lz.produced # PageAt(at).decomp
  BY <1>2 DEF Drained
<1>4. walk.kind # "PageMap"
  BY <1>2, <1>3, InPageMapFacts
<1>5. /\ walk.lz.produced = RecordStart(at)[n] + walk.have /\ n \in Nat
  BY <1>2, <1>4, InSectionMapFacts
<1>6. RecordStart(at)[n] \in Nat /\ walk.have = 0
  BY <1>2, <1>3, <1>5, RecordStartFacts, Sizes
<1>7. /\ Records(at) = n /\ Complete(at, n)
      /\ SectionMapEnd(at) # "none" => ReadingOf(walk) = Outcome(commits, SectionMapEnd(at))
  BY <1>2, <1>3, <1>4, SectionMapCloses
<1>8. PageAt(at).decomp # RecordStart(at)[n]
  BY <1>3, <1>5, <1>6
<1>9. SectionMapEnd(at) = "MapLength"
  BY <1>7, <1>8 DEF SectionMapEnd
<1>10. "MapLength" \in Errors \ {"none"}
  BY DEF Errors
<1>11. QED
  BY <1>1, <1>7, <1>9, <1>10, FailHere

\* The decoder meets a malformed byte.
LEMMA MalformedFollows ==
  ASSUME Led, walk.stage = "Decode", NEW given,
         LzFails(given, SizeOf(walk.open) - walk.have), Fail("Lz77")
  PROVE  StepFollows(walk', commits')
<1> DEFINE at == walk.at
           n == walk.nth
           size == SizeOf(walk.open)
<1>1. Fed(walk)
  BY WalkFed
<1>2. /\ file \in Files /\ walk \in WalkType /\ Leads(walk, commits) /\ Page = PageAt(at)
      /\ walk.have <= size /\ walk.have \in Nat /\ size \in Nat /\ walk.lz.produced \in Nat
  BY <1>1, FedFacts
<1>3. PageAt(at).ends = "malformed" /\ walk.lz.produced + (size - walk.have) >= PageAt(at).yields
  BY <1>2 DEF LzFails
<1>4. PageAt(at).yields \in Nat
  BY <1>2, StreamFacts
<1>5. CASE walk.kind = "PageMap"
  <2>1. /\ walk.lz.produced = EntryStart[n] + walk.have /\ n \in Nat /\ PageAt(at) = PageMap
    BY <1>2, <1>5, InPageMapFacts
  <2>2. EntryStart[n] \in Nat
    BY <1>2, <2>1, EntryFacts
  <2>3. PageMap.yields <= EntryStart[n] + size
    BY <1>2, <1>3, <1>4, <2>1, <2>2
  <2>4. AllBut(walk, commits)
    BY <1>2, <1>3, <1>5, <2>1, <2>3, PageMapBroken
  <2>5. QED
    BY <1>1, <1>3, <2>4, FailBroken
<1>6. CASE walk.kind # "PageMap"
  <2>1. /\ walk.lz.produced = RecordStart(at)[n] + walk.have /\ n \in Nat
    BY <1>2, <1>6, InSectionMapFacts
  <2>2. RecordStart(at)[n] \in Nat
    BY <1>2, <2>1, RecordStartFacts
  <2>3. PageAt(at).yields <= RecordStart(at)[n] + size
    BY <1>2, <1>3, <1>4, <2>1, <2>2
  <2>4. AllBut(walk, commits)
    BY <1>2, <1>3, <1>6, <2>3, SectionMapBroken
  <2>5. QED
    BY <1>1, <1>3, <2>4, FailBroken
<1>7. QED
  BY <1>5, <1>6

\* The input is used up inside the stream.
LEMMA CutFollows ==
  ASSUME NEW w, Fed(w), Full(w), w.open = "None" \/ w.have < SizeOf(w.open),
         w.lz.mode = "reading", w.carried = 0, w.done = Page.comp, Fail("Lz77")
  PROVE  StepFollows(walk', commits')
<1> DEFINE at == w.at
           n == w.nth
           p == PageAt(at)
<1>1. /\ file \in Files /\ w \in WalkType /\ Leads(w, commits) /\ Page = p
      /\ Decoding(w) /\ KeptSysOk(w) /\ Streams(w)
      /\ w.have <= SizeOf(w.open) /\ w.have \in Nat /\ w.lz.produced \in Nat
      /\ w.lz.consumed \in Nat
  BY FedFacts
<1>2. w.lz.consumed = p.comp /\ p.comp > 0
  BY <1>1, DecodingFacts DEF KeptSysOk
<1>3. /\ p.needs \in Nat \ {0} /\ p.yields \in Nat /\ p.comp \in Nat /\ p.decomp \in Nat
      /\ p.comp > 0 /\ p.needs > p.comp => p.ends = "cut" /\ p.needs = p.comp + 1
  BY <1>1, StreamFacts
<1>4. /\ w.lz.consumed < p.needs
      /\ w.lz.consumed > 0 /\ w.lz.consumed + 1 = p.needs => w.lz.produced = p.yields
  BY <1>1 DEF Streams
<1> HIDE DEF p
<1>5. p.ends = "cut" /\ w.lz.produced = p.yields
  BY <1>2, <1>3, <1>4
<1>6. "Lz77" \in Errors \ {"none"} /\ p.ends # "terminator"
  BY <1>5 DEF Errors
<1>7. CASE w.kind = "PageMap"
  <2>1. p = PageMap /\ w.open # "None"
    BY <1>1, <1>7, InPageMapFacts DEF p
  <2>2. PageMapEnd = "Lz77"
    BY <1>6, <2>1 DEF PageMapEnd
  <2>3. ReadingOf(w) = Outcome(commits, "Lz77")
    BY <1>1, <1>5, <1>7, <2>1, <2>2, PageMapCloses
  <2>4. QED
    BY <1>6, <2>3, FailHere
<1>8. CASE w.kind # "PageMap"
  <2>1. /\ w.lz.produced = RecordStart(at)[n] + w.have /\ n \in Nat
    BY <1>1, <1>8, InSectionMapFacts
  <2>2. RecordStart(at)[n] \in Nat
    BY <1>1, <2>1, RecordStartFacts
  <2>3. /\ Records(at) = n /\ (w.open = "None" <=> Complete(at, n))
        /\ SectionMapEnd(at) # "none" => ReadingOf(w) = Outcome(commits, SectionMapEnd(at))
    BY <1>1, <1>5, <1>8, SectionMapCloses DEF p
  <2>4. w.open = "None" => p.decomp = RecordStart(at)[n]
    <3>1. SUFFICES ASSUME w.open = "None" PROVE p.decomp = RecordStart(at)[n]
      OBVIOUS
    <3>2. w.have = 0
      BY <1>1, <3>1, Sizes
    <3>3. w.lz.produced = p.decomp
      BY <3>1 DEF Full, p
    <3>4. QED
      BY <2>1, <2>2, <3>2, <3>3
  <2>5. SectionMapEnd(at) = "Lz77"
    BY <1>6, <2>3, <2>4 DEF SectionMapEnd, p
  <2>6. QED
    BY <1>6, <2>3, <2>5, FailHere
<1>9. QED
  BY <1>7, <1>8

----------------------------------------------------------------------------
(* The end of a page.                                                      *)

\* A walk that is done has told all there is.
LEMMA DoneFollows ==
  ASSUME NEW w, Fed(w), ReadingOf(w) = Outcome(commits \o Finished, "none"),
         Then([[w EXCEPT !.carried = 0] EXCEPT !.stage = "Done"], <<[step |-> "Finished"]>>)
  PROVE  StepFollows(walk', commits')
<1> DEFINE v == [[w EXCEPT !.carried = 0] EXCEPT !.stage = "Done"]
<1>1. w \in WalkType /\ w.failure = "none"
  BY FedFacts
<1>2. walk' = v /\ commits' = commits \o Finished
  BY DEF Then, Finished
<1>3. v.stage = "Done" /\ v.failure = "none" /\ v.pagesOnly = w.pagesOnly
  BY <1>1 DEF WalkType
<1> DEFINE told == commits \o Finished
<1>4. ReadingOf(v) = Outcome(told, "none") /\ commits' = told
  BY <1>2, <1>3 DEF ReadingOf
<1> HIDE DEF v, told
<1>5. commits' = ReadingOf(v).commits /\ ReadingOf(v).failure = "none"
  BY <1>4, OutcomeFacts
<1>6. Follows(v, commits')
  BY <1>3, <1>5 DEF Follows, ReadingOf
<1>7. QED
  BY <1>2, <1>3, <1>6 DEF StepFollows

\* The section map is entered where the page map has it.
LEMMA EnterSectionMap ==
  ASSUME NEW w, Fed(w), HeaderRight(w), ~w.pagesOnly,
         PageMapReading = Outcome(EntriesTold(Entries), "none"),
         commits = HeaderTold(w) \o EntriesTold(Entries),
         LET found == Numbered(file.sectionMapId, Entries)
         IN found # {} /\ w.mapAt = Address[Max(found)] /\ w.mapSize = EntryAt(Max(found)).size,
         Then(Enter([w EXCEPT !.carried = 0], "SectionMap", w.mapAt, w.mapSize), <<>>)
  PROVE  StepFollows(walk', commits')
<1> DEFINE quiet == [w EXCEPT !.carried = 0]
           v == Enter(quiet, "SectionMap", w.mapAt, w.mapSize)
<1>1. w \in WalkType /\ w.failure = "none" /\ IsSeq(commits)
  BY FedFacts
<1>2. walk' = v /\ commits' = commits
  BY <1>1, EmptyFacts DEF Then
<1>3. quiet \in WalkType /\ quiet.failure = "none" /\ quiet.pagesOnly = w.pagesOnly
  BY <1>1 DEF WalkType
<1>4. w.mapAt \in Nat /\ w.mapSize \in Nat /\ "SectionMap" \in Kinds
  BY <1>1, WalkFields DEF Kinds
<1> HIDE DEF quiet
<1>5. /\ v.stage = "SysHeader" /\ v.kind = "SectionMap" /\ v.at = w.mapAt /\ v.size = w.mapSize
      /\ v.failure = "none" /\ v.nth = 0 /\ v.pagesOnly = w.pagesOnly
  BY <1>3, <1>4, EnterFacts, EnterMore
<1> HIDE DEF v
<1>6. SectionMapPlaced(v)
  BY <1>5 DEF SectionMapPlaced
<1>7. HeaderFaults = "none" /\ HeaderTold(v) = HeaderTold(w)
  BY <1>5 DEF HeaderRight, HeaderTold
<1>8. InSectionMap(v, commits)
  BY <1>5, <1>6, <1>7 DEF InSectionMap
<1>9. Follows(v, commits)
  BY <1>5, <1>8 DEF Follows
<1>10. QED
  BY <1>2, <1>5, <1>9 DEF StepFollows

LEMMA FinishPageMapFollows ==
  ASSUME NEW w, Fed(w), w.kind = "PageMap", w.lz.mode = "done", w.have < SizeOf(w.open),
         FinishPage(w)
  PROVE  StepFollows(walk', commits')
<1> DEFINE n == w.nth
           quiet == [w EXCEPT !.carried = 0]
<1>1. /\ file \in Files /\ w \in WalkType /\ Leads(w, commits) /\ Page = PageAt(w.at)
      /\ Streams(w) /\ w.have \in Nat /\ w.lz.produced \in Nat
  BY FedFacts
<1>2. /\ HeaderRight(w) /\ n \in Nat /\ Listed(w, n) /\ PageAt(w.at) = PageMap
      /\ commits = HeaderTold(w) \o EntriesTold(n)
      /\ w.lz.produced = EntryStart[n] + w.have
  BY <1>1, InPageMapFacts
<1>3. w.lz.produced = PageMap.yields /\ PageMap.ends = "terminator"
  BY <1>1, <1>2 DEF Streams
<1>4. /\ Entries = n /\ PageMapReading = Outcome(EntriesTold(n), PageMapEnd)
      /\ PageMapEnd # "none" => ReadingOf(w) = Outcome(commits, PageMapEnd)
  BY <1>1, <1>3, PageMapCloses
<1>5. EntryStart[n] \in Nat /\ PageMap.decomp \in Nat
  BY <1>1, <1>2, EntryFacts, StreamFacts
<1>6. PageWhole(w) <=> {PageMap.decomp} = {PageMap.yields, EntryStart[n]}
  <2>1. PageWhole(w) <=> w.lz.produced = PageMap.decomp /\ w.have = 0
    BY <1>1, <1>2 DEF PageWhole
  <2>2. w.have = 0 <=> EntryStart[n] = PageMap.yields
    BY <1>1, <1>2, <1>3, <1>5
  <2>3. QED
    BY <1>3, <2>1, <2>2
<1>7. /\ w.mapSize > 0 <=> Numbered(file.sectionMapId, n) # {}
      /\ w.selfSeen <=> Numbered(file.pageMapId, n) # {}
      /\ Numbered(file.sectionMapId, n) # {} =>
           LET last == Max(Numbered(file.sectionMapId, n))
           IN w.mapAt = Address[last] /\ w.mapSize = EntryAt(last).size
  BY <1>1, <1>2, FoundSized
<1>8. PageMapEnd = IF ~PageWhole(w) THEN "MapLength"
                   ELSE IF ~w.selfSeen THEN "PageMapSelf" ELSE "none"
  BY <1>3, <1>4, <1>6, <1>7 DEF PageMapEnd
<1>9. {"MapLength", "PageMapSelf", "SectionMapMissing"} \subseteq Errors \ {"none"}
  BY DEF Errors
<1>10. IsSeq(EntriesTold(n)) /\ IsSeq(<<>>) /\ IsSeq(commits)
  BY <1>2, EntriesToldFacts, SingleIsSeq, FedFacts
<1>11. CASE ~PageWhole(w) /\ Fail("MapLength")
  BY <1>4, <1>8, <1>9, <1>11, FailHere
<1>12. CASE PageWhole(w) /\ ~w.selfSeen /\ Fail("PageMapSelf")
  BY <1>4, <1>8, <1>9, <1>12, FailHere
<1>13. CASE /\ PageWhole(w) /\ w.selfSeen /\ w.pagesOnly
            /\ Then([quiet EXCEPT !.stage = "Done"], <<[step |-> "Finished"]>>)
  <2>1. PageMapReading = Outcome(EntriesTold(n), "none")
    BY <1>4, <1>8, <1>13
  <2>2. ReadingOf(w) = Outcome(HeaderTold(w) \o EntriesTold(n) \o Finished, "none")
    BY <1>2, <1>10, <1>13, <2>1, PageMapEndsWalk
  <2>3. ReadingOf(w) = Outcome(commits \o Finished, "none")
    BY <1>2, <2>2
  <2>4. QED
    BY <1>13, <2>3, DoneFollows
<1>14. CASE /\ PageWhole(w) /\ w.selfSeen /\ ~w.pagesOnly /\ w.mapSize = 0
            /\ Fail("SectionMapMissing")
  <2>1. PageMapReading = Outcome(EntriesTold(n), "none")
    BY <1>4, <1>8, <1>14
  <2>2. Numbered(file.sectionMapId, Entries) = {}
    BY <1>4, <1>7, <1>14
  <2>3. SectionMapReading = Outcome(<<>>, "SectionMapMissing")
    BY <2>2 DEF SectionMapReading
  <2>4. ReadingOf(w) = Outcome(HeaderTold(w) \o EntriesTold(n) \o <<>>, "SectionMapMissing")
    <3> DEFINE s == EntriesTold(n)
    <3>1. IsSeq(s) /\ PageMapReading = Outcome(s, "none")
      BY <1>10, <2>1
    <3> HIDE DEF s
    <3>2. ReadingOf(w) = Outcome(HeaderTold(w) \o s \o <<>>, "SectionMapMissing")
      BY <1>2, <1>10, <1>14, <2>3, <3>1, SectionMapEnds
    <3>3. QED
      BY <3>2 DEF s
  <2>5. commits \o <<>> = commits
    BY <1>10, EmptyFacts
  <2>6. ReadingOf(w) = Outcome(commits, "SectionMapMissing")
    BY <1>2, <2>4, <2>5
  <2>7. QED
    BY <1>9, <1>14, <2>6, FailHere
<1>15. CASE /\ PageWhole(w) /\ w.selfSeen /\ ~w.pagesOnly /\ w.mapSize > 0
            /\ Then(Enter(quiet, "SectionMap", w.mapAt, w.mapSize), <<>>)
  <2>1. PageMapReading = Outcome(EntriesTold(Entries), "none")
    BY <1>4, <1>8, <1>15
  <2>2. LET found == Numbered(file.sectionMapId, Entries)
        IN found # {} /\ w.mapAt = Address[Max(found)] /\ w.mapSize = EntryAt(Max(found)).size
    BY <1>4, <1>7, <1>15
  <2>3. commits = HeaderTold(w) \o EntriesTold(Entries)
    BY <1>2, <1>4
  <2>4. QED
    BY <1>2, <1>15, <2>1, <2>2, <2>3, EnterSectionMap
<1>16. QED
  BY <1>11, <1>12, <1>13, <1>14, <1>15 DEF FinishPage

LEMMA FinishSectionMapFollows ==
  ASSUME NEW w, Fed(w), Full(w), w.kind # "PageMap", w.lz.mode = "done",
         w.open = "None" \/ w.have < SizeOf(w.open), FinishPage(w)
  PROVE  StepFollows(walk', commits')
<1> DEFINE n == w.nth
           at == w.at
           p == PageAt(at)
           quiet == [w EXCEPT !.carried = 0]
<1>1. /\ file \in Files /\ w \in WalkType /\ Leads(w, commits) /\ Page = p
      /\ Streams(w) /\ w.have \in Nat /\ w.lz.produced \in Nat /\ w.have <= SizeOf(w.open)
  BY FedFacts
<1>2. /\ n \in Nat /\ w.lz.produced = RecordStart(at)[n] + w.have
  BY <1>1, InSectionMapFacts
<1>3. w.lz.produced = p.yields /\ p.ends = "terminator"
  BY <1>1 DEF Streams
<1>4. /\ Records(at) = n
      /\ w.open = "None" <=> Complete(at, n)
      /\ SectionMapEnd(at) # "none" => ReadingOf(w) = Outcome(commits, SectionMapEnd(at))
      /\ SectionMapEnd(at) = "none" => ReadingOf(w) = Outcome(commits \o Finished, "none")
  BY <1>1, <1>3, SectionMapCloses
<1>5. RecordStart(at)[n] \in Nat /\ p.decomp \in Nat
  BY <1>1, <1>2, RecordStartFacts, StreamFacts
<1>6. w.kind = "SectionMap"
  BY <1>1, WalkKind
<1>7. w.open = "None" => w.have = 0 /\ w.lz.produced = p.decomp
  BY <1>1, Sizes DEF Full
<1>8. PageWhole(w) <=> w.open = "None"
  BY <1>1, <1>6, <1>7 DEF PageWhole
<1>9. w.open = "None" => p.decomp = RecordStart(at)[n]
  BY <1>2, <1>5, <1>7
<1>10. SectionMapEnd(at) = IF PageWhole(w) THEN "none" ELSE "MapLength"
  BY <1>3, <1>4, <1>8, <1>9 DEF SectionMapEnd
<1>11. "MapLength" \in Errors \ {"none"}
  BY DEF Errors
<1>12. CASE ~PageWhole(w) /\ Fail("MapLength")
  BY <1>4, <1>10, <1>11, <1>12, FailHere
<1>13. CASE /\ PageWhole(w)
            /\ Then([quiet EXCEPT !.stage = "Done"], <<[step |-> "Finished"]>>)
  <2>1. ReadingOf(w) = Outcome(commits \o Finished, "none")
    BY <1>4, <1>10, <1>13
  <2>2. QED
    BY <1>13, <2>1, DoneFollows
<1>14. QED
  BY <1>12, <1>13 DEF FinishPage

----------------------------------------------------------------------------
(* A record of the page map.                                               *)

LEMMA OpenMore ==
  ASSUME NEW w \in WalkType, NEW open \in Openings
  PROVE  LET v == Open(w, open)
         IN /\ v.nth = w.nth + 1 /\ v.pagesOnly = w.pagesOnly /\ v.id = w.id
            /\ v.lastStart = w.lastStart /\ v.firstRef = w.firstRef
BY DEF Open, WalkType

LEMMA StreamsSame ==
  ASSUME NEW v, NEW w, Streams(w), v.at = w.at, v.lz = w.lz
  PROVE  Streams(v)
BY DEF Streams

\* A gap is read on to its end.
LEMMA GapFollows ==
  ASSUME NEW w, Fed(w), w.kind = "PageMap", Then([w EXCEPT !.open = "Gap"], <<>>)
  PROVE  StepFollows(walk', commits')
<1> DEFINE v == [w EXCEPT !.open = "Gap"]
<1>1. /\ file \in Files /\ w \in WalkType /\ w.failure = "none" /\ w.stage = "Decode"
      /\ IsSeq(commits) /\ PageAt(w.at).sum /\ Streams(w) /\ Leads(w, commits)
  BY FedFacts
<1>2. walk' = v /\ commits' = commits
  BY <1>1, EmptyFacts DEF Then
<1>3. /\ v.stage = w.stage /\ v.failure = w.failure /\ v.kind = w.kind /\ v.at = w.at
      /\ v.lz = w.lz /\ v.have = w.have /\ v.nth = w.nth /\ v.pagesOnly = w.pagesOnly
      /\ v.address = w.address /\ v.selfSeen = w.selfSeen /\ v.mapAt = w.mapAt
      /\ v.mapSize = w.mapSize
  BY <1>1 DEF WalkType
<1> HIDE DEF v
<1>4. /\ HeaderRight(w) /\ Listed(w, w.nth) /\ commits = HeaderTold(w) \o EntriesTold(w.nth)
      /\ w.lz.produced = EntryStart[w.nth] + w.have
  BY <1>1, InPageMapFacts
<1>5. Listed(v, v.nth) /\ HeaderTold(v) = HeaderTold(w) /\ Streams(v)
  BY <1>1, <1>3, <1>4, ListedSame, StreamsSame DEF HeaderTold
<1>6. InPageMap(v, commits)
  BY <1>1, <1>3, <1>4, <1>5 DEF InPageMap, HeaderRight
<1>7. Follows(v, commits)
  BY <1>1, <1>3, <1>5, <1>6 DEF Follows
<1>8. QED
  BY <1>1, <1>2, <1>3, <1>7 DEF StepFollows

LEMMA PageRecordFollows ==
  ASSUME NEW w, Fed(w), w.kind = "PageMap", w.have = SizeOf(w.open), PageRecord(w)
  PROVE  StepFollows(walk', commits')
<1> DEFINE n == w.nth
           r == EntryAt(n)
           x == <<EntryStep(n)>>
<1>1. /\ file \in Files /\ w \in WalkType /\ w.failure = "none" /\ w.stage = "Decode"
      /\ IsSeq(commits) /\ PageAt(w.at).sum /\ Streams(w) /\ Leads(w, commits)
      /\ Page = PageAt(w.at) /\ w.have \in Nat
  BY FedFacts
<1>2. /\ HeaderRight(w) /\ n \in Nat /\ Listed(w, n)
      /\ \A i \in 0..(n - 1) : EntryFault(i) = "none"
      /\ commits = HeaderTold(w) \o EntriesTold(n)
      /\ PageAt(w.at) = PageMap
      /\ w.lz.produced = EntryStart[n] + w.have /\ w.lz.produced <= PageMap.yields
      /\ PageFault(PageMap, "PageMap", file.pageMap, file.length) = "none"
      /\ w.open = "Entry" \/ (w.open = "Gap" /\ EntryForm(n) = "Gap")
  BY <1>1, InPageMapFacts
<1>3. Whole(w) = r
  <2>1. w.at = file.pageMap
    BY FedFacts DEF Located
  <2>2. QED
    BY <2>1 DEF Whole, EntryAt
<1>4. r.number \in Int /\ r.size \in Nat /\ w.address = Address[n]
  BY <1>1, <1>2, EntryFacts DEF Listed
<1>5. CASE r.number < 0 /\ w.open = "Entry" /\ Then([w EXCEPT !.open = "Gap"], <<>>)
  BY <1>5, GapFollows
<1>6. EntryFault(n) = IF ~EntryOk(r) THEN "PageEntry"
                      ELSE IF ~IsSelf(w, r) THEN "PageMapSelf" ELSE "none"
  <2>1. PageMap.comp \in Nat /\ SysBytes \in Nat /\ file.pageMap \in Nat
    BY <1>1, PageFacts, Sizes, FileFacts DEF PageMap
  <2>2. SysBytes + PageMap.comp <= r.size <=> ~(SysBytes + PageMap.comp > r.size)
    BY <1>4, <2>1
  <2>3. EntryOk(r) <=> ~(r.number = 0 \/ r.size = 0 \/ r.size % Align # 0)
    BY DEF EntryOk
  <2>4. IsSelf(w, r) <=> ~(/\ r.number = file.pageMapId
                           /\ Address[n] # file.pageMap \/ SysBytes + PageMap.comp > r.size)
    BY <1>1, <1>2, <1>4, <2>2 DEF IsSelf
  <2>5. QED
    BY <2>3, <2>4, Zenon DEF EntryFault
<1>7. ASSUME r.number >= 0 \/ w.open = "Gap"
      PROVE  /\ w.lz.produced = EntryStart[n + 1] /\ EntryStart[n + 1] <= PageMap.yields
             /\ EntryFault(n) # "none" => ReadingOf(w) = Outcome(commits, EntryFault(n))
  <2>1. EntryForm(n) = w.open
    BY <1>2, <1>4, <1>7 DEF EntryForm
  <2>2. /\ EntryStart[n + 1] = EntryStart[n] + SizeOf(EntryForm(n))
    BY <1>1, <1>2, EntryFacts
  <2>3. w.lz.produced = EntryStart[n + 1] /\ EntryStart[n + 1] <= PageMap.yields
    BY <1>2, <2>1, <2>2
  <2>4. ASSUME EntryFault(n) # "none" PROVE ReadingOf(w) = Outcome(commits, EntryFault(n))
    <3>1. PageMapReading = Outcome(EntriesTold(n), EntryFault(n))
      BY <1>1, <1>2, <2>3, <2>4, PageMapStops
    <3>2. QED
      BY <1>1, <1>2, <2>4, <3>1, InPageMapEnds
  <2>5. QED
    BY <2>3, <2>4
<1>8. {"PageEntry", "PageMapSelf"} \subseteq Errors \ {"none"}
  BY DEF Errors
<1>9. CASE (r.number >= 0 \/ w.open = "Gap") /\ ~EntryOk(r) /\ Fail("PageEntry")
  BY <1>6, <1>7, <1>8, <1>9, FailHere
<1>10. CASE /\ r.number >= 0 \/ w.open = "Gap"
            /\ EntryOk(r) /\ ~IsSelf(w, r) /\ Fail("PageMapSelf")
  BY <1>6, <1>7, <1>8, <1>10, FailHere
<1>11. CASE /\ r.number >= 0 \/ w.open = "Gap"
            /\ EntryOk(r) /\ IsSelf(w, r)
            /\ Then(Open(Entered(w, r), "Entry"),
                    <<[step |-> "Page", number |-> r.number, size |-> r.size,
                       address |-> w.address]>>)
  <2> DEFINE u == Entered(w, r)
             v == Open(u, "Entry")
             told == EntriesTold(n)
             header == HeaderTold(w)
  <2>1. EntryFault(n) = "none" /\ w.lz.produced = EntryStart[n + 1] /\ n + 1 \in Nat
    BY <1>2, <1>6, <1>7, <1>11
  <2>2. walk' = v /\ commits' = commits \o x
    BY <1>4, <1>11 DEF Then, EntryStep
  <2>3. /\ u \in WalkType /\ u.stage = w.stage /\ u.kind = w.kind /\ u.at = w.at /\ u.lz = w.lz
        /\ u.failure = w.failure /\ u.nth = w.nth /\ u.pagesOnly = w.pagesOnly
    BY <1>1, <1>4, EnteredFacts, EnteredList
  <2>4. Listed(u, n + 1)
    BY <1>1, <1>2, <2>1, ListedMore
  <2>5. "Entry" \in Openings
    BY DEF Openings
  <2> HIDE DEF u
  <2>6. /\ v.stage = "Decode" /\ v.kind = "PageMap" /\ v.at = w.at /\ v.lz = w.lz
        /\ v.failure = "none" /\ v.nth = n + 1 /\ v.pagesOnly = w.pagesOnly /\ v.have = 0
        /\ v.address = u.address /\ v.selfSeen = u.selfSeen /\ v.mapAt = u.mapAt
        /\ v.mapSize = u.mapSize
    BY <1>1, <2>3, <2>5, OpenFacts, OpenMore
  <2>7. Listed(v, n + 1)
    BY <2>4, <2>6, ListedSame
  <2> HIDE DEF v
  <2>8. HeaderTold(v) = header /\ Streams(v)
    BY <1>1, <2>6, StreamsSame DEF HeaderTold
  <2>9. EntriesTold(n + 1) = told \o x /\ IsSeq(told) /\ IsSeq(x) /\ IsSeq(header)
    BY <1>2, EntriesToldFacts, SingleIsSeq, HeaderToldSeq
  <2>10. commits = header \o told
    BY <1>2
  <2> HIDE DEF told, x, header
  <2>11. (header \o told) \o x = header \o (told \o x)
    BY <2>9, ConcatAssociative
  <2>12. commits' = HeaderTold(v) \o EntriesTold(v.nth)
    BY <2>2, <2>6, <2>8, <2>9, <2>10, <2>11
  <2>13. v.lz.produced = EntryStart[v.nth] + v.have
    <3>1. EntryStart[n + 1] \in Nat
      BY <1>1, <2>1, EntryFacts
    <3>2. QED
      BY <2>1, <2>6, <3>1
  <2>14. InPageMap(v, commits')
    BY <1>2, <2>6, <2>7, <2>12, <2>13 DEF InPageMap, HeaderRight
  <2>15. Follows(v, commits')
    BY <1>1, <2>6, <2>8, <2>14 DEF Follows
  <2>16. QED
    BY <2>2, <2>6, <2>15 DEF StepFollows
<1>12. QED
  BY <1>3, <1>5, <1>9, <1>10, <1>11 DEF PageRecord

----------------------------------------------------------------------------
(* A record of the section map.                                            *)

LEMMA CountingSame ==
  ASSUME NEW v, NEW w, NEW n, Counting(w, n), v.at = w.at,
         v.index = w.index, v.sections = w.sections, v.refs = w.refs, v.id = w.id,
         v.maxPage = w.maxPage, v.firstRef = w.firstRef, v.lastStart = w.lastStart
  PROVE  Counting(v, n)
BY DEF Counting, Unread

\* It is whole, and was to come.
LEMMA SectionRecordWhole ==
  ASSUME NEW w, Fed(w), w.kind # "PageMap", w.open # "None", w.have = SizeOf(w.open)
  PROVE  /\ w.nth \in Nat /\ w.nth + 1 \in Nat
         /\ Counted(w, w.nth) /\ ~Complete(w.at, w.nth) /\ RightRecords(w.at, w.nth)
         /\ w.lz.produced = RecordStart(w.at)[w.nth + 1]
         /\ RecordStart(w.at)[w.nth + 1] <= PageAt(w.at).yields
<1> DEFINE n == w.nth
<1>1. file \in Files /\ w \in WalkType /\ Leads(w, commits)
  BY FedFacts
<1>2. /\ n \in Nat /\ Counted(w, n) /\ RightRecords(w.at, n)
      /\ w.lz.produced = RecordStart(w.at)[n] + w.have
      /\ w.lz.produced <= PageAt(w.at).yields
  BY <1>1, InSectionMapFacts
<1>3. ~Complete(w.at, n) /\ w.open = FormOf(w.at, n)
  BY <1>2, CountedForm
<1>4. RecordStart(w.at)[n + 1] = RecordStart(w.at)[n] + SizeOf(FormOf(w.at, n))
  BY <1>1, <1>2, RecordStartFacts
<1>5. w.lz.produced = RecordStart(w.at)[n + 1]
  BY <1>2, <1>3, <1>4
<1>6. QED
  BY <1>2, <1>3, <1>5

LEMMA SectionRecordRefused ==
  ASSUME NEW w, Fed(w), w.kind # "PageMap", w.open # "None", w.have = SizeOf(w.open),
         NEW e \in Errors \ {"none"}, RecordFault(w.at, w.nth) = e, Fail(e)
  PROVE  StepFollows(walk', commits')
<1> DEFINE n == w.nth
<1>1. file \in Files /\ w \in WalkType /\ Leads(w, commits)
  BY FedFacts
<1>2. /\ n \in Nat /\ ~Complete(w.at, n) /\ RightRecords(w.at, n)
      /\ RecordStart(w.at)[n + 1] <= PageAt(w.at).yields
  BY SectionRecordWhole
<1>3. PageFault(PageAt(w.at), "SectionMap", w.at, w.size) = "none"
  BY <1>1, InSectionMapFacts
<1>4. SectionsReading(w.at, w.size) = Outcome(RecordsTold(w.at, n), e)
  BY <1>1, <1>2, <1>3, SectionsStop
<1>5. ReadingOf(w) = Outcome(commits, e)
  BY <1>1, <1>4, InSectionMapHere
<1>6. QED
  BY <1>5, FailHere

\* The next record is opened, with the counts that the record has left.
LEMMA SectionRecordFollows ==
  ASSUME NEW w, Fed(w), w.kind # "PageMap", w.open # "None", w.have = SizeOf(w.open),
         NEW v \in WalkType, v.stage = w.stage, v.failure = w.failure, v.kind = w.kind,
         v.at = w.at, v.size = w.size, v.lz = w.lz, v.pagesOnly = w.pagesOnly, v.nth = w.nth,
         Counting(v, w.nth + 1), RecordFault(w.at, w.nth) = "none",
         Then(NextRecord(v), <<RecordStep(w.at, w.nth)>>)
  PROVE  StepFollows(walk', commits')
<1> DEFINE n == w.nth
           open == IF v.refs > 0 THEN "Ref" ELSE IF v.sections > 0 THEN "Section" ELSE "None"
           u == Open(v, open)
           a == HeaderTold(w) \o EntriesTold(Entries)
           t == RecordsTold(w.at, n)
           x == <<RecordStep(w.at, n)>>
<1>1. /\ file \in Files /\ w \in WalkType /\ w.failure = "none" /\ w.stage = "Decode"
      /\ PageAt(w.at).sum /\ Streams(w) /\ Leads(w, commits)
  BY FedFacts
<1>2. /\ n \in Nat /\ n + 1 \in Nat /\ Counted(w, n) /\ ~Complete(w.at, n)
      /\ w.lz.produced = RecordStart(w.at)[n + 1]
  BY SectionRecordWhole
<1>3. /\ HeaderRight(w) /\ ~w.pagesOnly /\ SectionMapPlaced(w) /\ commits = a \o t /\ IsSeq(a)
  BY <1>1, InSectionMapFacts
<1>4. walk' = u /\ commits' = commits \o x
  BY DEF Then, NextRecord
<1>5. open \in Openings
  BY DEF Openings
<1>6. u.open = open
  BY <1>5, OpenFacts
<1>7. u.open = IF v.refs > 0 THEN "Ref" ELSE IF v.sections > 0 THEN "Section" ELSE "None"
  BY <1>6
<1> HIDE DEF open
<1>8. /\ u \in WalkType /\ u.stage = "Decode" /\ u.failure = "none" /\ u.kind = w.kind
      /\ u.at = w.at /\ u.size = w.size /\ u.lz = w.lz /\ u.pagesOnly = w.pagesOnly
      /\ u.nth = n + 1 /\ u.have = 0 /\ u.index = v.index /\ u.sections = v.sections
      /\ u.refs = v.refs /\ u.id = v.id /\ u.maxPage = v.maxPage /\ u.firstRef = v.firstRef
      /\ u.lastStart = v.lastStart
  BY <1>1, <1>5, OpenFacts, OpenMore
<1> HIDE DEF u
<1>9. Counting(u, n + 1)
  BY <1>2, <1>8, CountingSame
<1>10. Counted(u, n + 1)
  BY <1>1, <1>2, <1>7, <1>8, <1>9, CountedNext
<1>11. HeaderTold(u) = HeaderTold(w) /\ Streams(u) /\ SectionMapPlaced(u)
  BY <1>1, <1>3, <1>8, StreamsSame DEF HeaderTold, SectionMapPlaced
<1>12. RecordsTold(w.at, n + 1) = t \o x /\ IsSeq(t) /\ IsSeq(x)
  BY <1>2, RecordsToldFacts, SingleIsSeq
<1>13. a = HeaderTold(u) \o EntriesTold(Entries)
  BY <1>11
<1> HIDE DEF a, t, x
<1>14. (a \o t) \o x = a \o (t \o x)
  BY <1>3, <1>12, ConcatAssociative
<1>15. commits' = a \o RecordsTold(u.at, u.nth)
  BY <1>3, <1>4, <1>8, <1>12, <1>14
<1>16. u.lz.produced = RecordStart(u.at)[u.nth] + u.have
  <2>1. RecordStart(w.at)[n + 1] \in Nat
    BY <1>1, <1>2, RecordStartFacts
  <2>2. QED
    BY <1>2, <1>8, <2>1
<1>17. InSectionMap(u, commits')
  BY <1>3, <1>8, <1>10, <1>11, <1>13, <1>15, <1>16 DEF InSectionMap, HeaderRight
<1>18. Follows(u, commits')
  BY <1>1, <1>8, <1>11, <1>17 DEF Follows
<1>19. QED
  BY <1>4, <1>8, <1>18 DEF StepFollows

LEMMA CountRecordFollows ==
  ASSUME NEW w, Fed(w), w.kind # "PageMap", w.have = SizeOf(w.open), CountRecord(w)
  PROVE  StepFollows(walk', commits')
<1> DEFINE r == RecordAt(w.at, 0)
           v == [w EXCEPT !.sections = r.count]
<1>1. w.open = "Count" /\ w.open # "None" /\ file \in Files /\ w \in WalkType /\ w.stage = "Decode"
  BY FedFacts DEF CountRecord
<1>2. Counted(w, w.nth) /\ w.nth \in Nat
  BY <1>1, SectionRecordWhole
<1>3. w.nth = 0 /\ Unread(w)
  BY <1>1, <1>2, CountedForm
<1>4. Whole(w) = r
  BY <1>3 DEF Whole
<1>5. /\ RecordFault(w.at, 0) = IF r.ok THEN "none" ELSE "SectionMapHeader"
      /\ RecordStep(w.at, 0) = [step |-> "Sections", count |-> r.count]
  BY <1>1, <1>2, <1>3, CountTold
<1>6. r.count \in Nat
  BY <1>1, RecordFacts
<1>7. CASE ~r.ok /\ Fail("SectionMapHeader")
  <2>1. "SectionMapHeader" \in Errors \ {"none"} /\ RecordFault(w.at, w.nth) = "SectionMapHeader"
    BY <1>3, <1>5, <1>7 DEF Errors
  <2>2. QED
    BY <1>1, <1>7, <2>1, SectionRecordRefused
<1>8. CASE r.ok /\ Then(NextRecord(v), <<[step |-> "Sections", count |-> r.count]>>)
  <2>1. v \in WalkType
    BY <1>1, <1>6 DEF WalkType
  <2>2. /\ v.stage = w.stage /\ v.failure = w.failure /\ v.kind = w.kind /\ v.at = w.at
        /\ v.size = w.size /\ v.lz = w.lz /\ v.pagesOnly = w.pagesOnly /\ v.nth = w.nth
        /\ v.index = w.index /\ v.refs = w.refs /\ v.sections = r.count
    BY <1>1 DEF WalkType
  <2> HIDE DEF v
  <2>3. Counting(v, 1)
    BY <1>1, <1>3, <2>1, <2>2, CountCounts DEF Unread
  <2>4. Counting(v, w.nth + 1) /\ RecordFault(w.at, w.nth) = "none"
    BY <1>3, <1>5, <1>8, <2>3
  <2>5. Then(NextRecord(v), <<RecordStep(w.at, w.nth)>>)
    BY <1>3, <1>5, <1>8
  <2>6. QED
    BY <1>1, <2>1, <2>2, <2>4, <2>5, SectionRecordFollows
<1>9. QED
  BY <1>4, <1>7, <1>8 DEF CountRecord

LEMMA DescriptionFollows ==
  ASSUME NEW w, Fed(w), w.kind # "PageMap", w.have = SizeOf(w.open), Description(w)
  PROVE  StepFollows(walk', commits')
<1> DEFINE n == w.nth
           r == RecordAt(w.at, n)
           half == [w EXCEPT !.index = @ + 1, !.id = r.id, !.maxPage = r.maxPage]
           v == [half EXCEPT !.refs = r.count, !.firstRef = TRUE, !.sections = @ - 1]
<1>1. /\ w.open = "Section" /\ w.open # "None" /\ file \in Files /\ w \in WalkType
      /\ w.stage = "Decode" /\ w.kind = "SectionMap" /\ RecordsOk(w)
  BY FedFacts, WalkKind DEF Description
<1>2. Counted(w, n) /\ n \in Nat
  BY <1>1, SectionRecordWhole
<1>3. r = Whole(w)
  BY DEF Whole
<1>4. /\ RecordFault(w.at, n) = IF r.ok /\ r.maxPage # 0 THEN "none" ELSE "SectionEntry"
      /\ RecordStep(w.at, n) = [step |-> "Section", index |-> w.index, id |-> r.id]
  BY <1>1, <1>2, DescriptionTold
<1>5. r.count \in Nat /\ r.id \in Nat /\ r.maxPage \in Nat
  BY <1>1, <1>2, RecordFacts
<1>6. w.sections - 1 \in Nat /\ w.index + 1 \in Nat
  BY <1>1, WalkFields DEF RecordsOk
<1> HIDE DEF r
<1>7. CASE ~(r.ok /\ r.maxPage # 0) /\ Fail("SectionEntry")
  <2>1. "SectionEntry" \in Errors \ {"none"} /\ RecordFault(w.at, n) = "SectionEntry"
    BY <1>4, <1>7 DEF Errors
  <2>2. QED
    BY <1>1, <1>7, <2>1, SectionRecordRefused
<1>8. CASE /\ r.ok /\ r.maxPage # 0
           /\ Then(NextRecord(v), <<[step |-> "Section", index |-> w.index, id |-> r.id]>>)
  <2>1. half \in WalkType
    BY <1>1, <1>5, <1>6 DEF WalkType
  <2>2. /\ half.stage = w.stage /\ half.failure = w.failure /\ half.kind = w.kind
        /\ half.at = w.at /\ half.size = w.size /\ half.lz = w.lz
        /\ half.pagesOnly = w.pagesOnly /\ half.nth = w.nth
        /\ half.index = w.index + 1 /\ half.id = r.id /\ half.maxPage = r.maxPage
        /\ half.sections = w.sections
    BY <1>1 DEF WalkType
  <2> HIDE DEF half
  <2>3. v \in WalkType
    BY <1>5, <1>6, <2>1, <2>2 DEF WalkType
  <2>4. /\ v.stage = half.stage /\ v.failure = half.failure /\ v.kind = half.kind
        /\ v.at = half.at /\ v.size = half.size /\ v.lz = half.lz
        /\ v.pagesOnly = half.pagesOnly /\ v.nth = half.nth
        /\ v.index = half.index /\ v.id = half.id /\ v.maxPage = half.maxPage
        /\ v.sections = half.sections - 1 /\ v.refs = r.count /\ v.firstRef = TRUE
    BY <2>1 DEF WalkType
  <2>5. Then(NextRecord(v), <<RecordStep(w.at, n)>>)
    BY <1>4, <1>8
  <2> HIDE DEF v
  <2>6. Counting(v, n + 1)
    BY <1>1, <1>2, <2>2, <2>3, <2>4, DescriptionCounts DEF r
  <2>7. RecordFault(w.at, n) = "none"
    BY <1>4, <1>8
  <2>8. QED
    BY <1>1, <2>2, <2>3, <2>4, <2>5, <2>6, <2>7, SectionRecordFollows
<1>9. Description(w) =>
        \/ ~(r.ok /\ r.maxPage # 0) /\ Fail("SectionEntry")
        \/ /\ r.ok /\ r.maxPage # 0
           /\ Then(NextRecord(v), <<[step |-> "Section", index |-> w.index, id |-> r.id]>>)
  BY <1>1, <1>3 DEF Description, WalkType
<1>10. QED
  BY <1>7, <1>8, <1>9

LEMMA ReferenceFollows ==
  ASSUME NEW w, Fed(w), w.kind # "PageMap", w.have = SizeOf(w.open), Reference(w)
  PROVE  StepFollows(walk', commits')
<1> DEFINE n == w.nth
           r == RecordAt(w.at, n)
           v == [w EXCEPT !.lastStart = r.start, !.firstRef = FALSE, !.refs = @ - 1]
           step == [step |-> "SectionPage", id |-> w.id, number |-> r.number, start |-> r.start]
<1>1. /\ w.open = "Ref" /\ w.open # "None" /\ file \in Files /\ w \in WalkType
      /\ w.stage = "Decode" /\ w.kind = "SectionMap" /\ RecordsOk(w)
  BY FedFacts, WalkKind DEF Reference
<1>2. Counted(w, n) /\ n \in Nat
  BY <1>1, SectionRecordWhole
<1>3. r = Whole(w)
  BY DEF Whole
<1>4. w.refs - 1 \in Nat /\ w.maxPage > 0
  BY <1>1, WalkFields DEF RecordsOk
<1>5. /\ RecordFault(w.at, n) = IF RefOk(w, r) THEN "none" ELSE "SectionEntry"
      /\ RecordStep(w.at, n) = step
  BY <1>1, <1>2, <1>4, ReferenceTold
<1>6. r.start \in Nat
  BY <1>1, <1>2, RecordFacts
<1> HIDE DEF r
<1>7. CASE ~RefOk(w, r) /\ Fail("SectionEntry")
  <2>1. "SectionEntry" \in Errors \ {"none"} /\ RecordFault(w.at, n) = "SectionEntry"
    BY <1>5, <1>7 DEF Errors
  <2>2. QED
    BY <1>1, <1>7, <2>1, SectionRecordRefused
<1>8. CASE RefOk(w, r) /\ Then(NextRecord(v), <<step>>)
  <2>1. v \in WalkType
    BY <1>1, <1>4, <1>6 DEF WalkType
  <2>2. /\ v.stage = w.stage /\ v.failure = w.failure /\ v.kind = w.kind /\ v.at = w.at
        /\ v.size = w.size /\ v.lz = w.lz /\ v.pagesOnly = w.pagesOnly /\ v.nth = w.nth
        /\ v.index = w.index /\ v.sections = w.sections /\ v.refs = w.refs - 1
        /\ v.id = w.id /\ v.maxPage = w.maxPage /\ v.firstRef = FALSE /\ v.lastStart = r.start
    BY <1>1 DEF WalkType
  <2>3. Then(NextRecord(v), <<RecordStep(w.at, n)>>)
    BY <1>5, <1>8
  <2> HIDE DEF v
  <2>4. Counting(v, n + 1)
    BY <1>1, <1>2, <2>1, <2>2, ReferenceCounts DEF r
  <2>5. RecordFault(w.at, n) = "none"
    BY <1>5, <1>8
  <2>6. QED
    BY <1>1, <2>1, <2>2, <2>3, <2>4, <2>5, SectionRecordFollows
<1>9. QED
  BY <1>3, <1>7, <1>8 DEF Reference

----------------------------------------------------------------------------
(* A call that decodes.                                                    *)

LEMMA CalledFed ==
  ASSUME Led, walk.stage = "Decode", NEW given \in Nat, NEW taken \in Nat,
         given <= CarryBytes, walk.done + taken <= PageAt(walk.at).comp,
         walk.lz.consumed + given = walk.done + taken, Drained,
         NEW c \in LzCalls(given, SizeOf(walk.open) - walk.have),
         NEW w, w = AfterCall(given, taken, c)
  PROVE  Fed(w) /\ Full(w)
<1> DEFINE room == SizeOf(walk.open) - walk.have
           p == PageAt(walk.at)
<1>1. /\ file \in Files /\ walk \in WalkType /\ Leads(walk, commits) /\ Page = p
      /\ p.sum /\ walk.have \in Nat /\ walk.have <= SizeOf(walk.open) /\ SizeOf(walk.open) \in Nat
      /\ walk.lz.produced \in Nat /\ walk.lz.consumed \in Nat
  BY WalkFed, FedFacts
<1>2. Going
  BY DEF Led
<1>3. /\ Decoding(w)
      /\ c.consumed \in Nat /\ c.produced \in Nat /\ c.produced <= room
      /\ w.lz.consumed = walk.lz.consumed + c.consumed
      /\ w.lz.produced = walk.lz.produced + c.produced /\ w.lz.mode = c.mode
      /\ w.have = walk.have + c.produced
      /\ w.at = walk.at /\ w.kind = walk.kind /\ w.size = walk.size /\ w.open = walk.open
      /\ w.nth = walk.nth /\ w.address = walk.address /\ w.selfSeen = walk.selfSeen
      /\ w.mapAt = walk.mapAt /\ w.mapSize = walk.mapSize /\ w.index = walk.index
      /\ w.sections = walk.sections /\ w.refs = walk.refs /\ w.id = walk.id
      /\ w.maxPage = walk.maxPage /\ w.firstRef = walk.firstRef
      /\ w.lastStart = walk.lastStart /\ w.pagesOnly = walk.pagesOnly
  BY <1>2, CalledOk
<1>4. w \in WalkType /\ w.failure = "none" /\ w.stage = "Decode" /\ WalkOk(w)
  BY <1>3 DEF Decoding
<1>5. LET consumed == walk.lz.consumed + c.consumed
          produced == walk.lz.produced + c.produced
      IN /\ produced <= p.yields
         /\ c.mode \in {"reading", "copying", "done"}
         /\ c.mode = "done" => consumed = p.needs /\ produced = p.yields /\ p.ends = "terminator"
         /\ c.mode # "done" => consumed < p.needs
         /\ c.mode = "reading" /\ consumed + 1 = p.needs => produced = p.yields
  BY <1>1 DEF LzCalls
<1> HIDE DEF p
<1>6. Streams(w)
  BY <1>3, <1>5 DEF Streams, p
<1>7. HeaderTold(w) = HeaderTold(walk)
  BY <1>3 DEF HeaderTold
<1>8. CASE walk.kind = "PageMap"
  <2>1. /\ HeaderRight(walk) /\ walk.nth \in Nat /\ Listed(walk, walk.nth)
        /\ commits = HeaderTold(walk) \o EntriesTold(walk.nth)
        /\ walk.lz.produced = EntryStart[walk.nth] + walk.have
    BY <1>1, <1>8, InPageMapFacts
  <2>2. Listed(w, w.nth)
    BY <1>3, <2>1, ListedSame
  <2>3. EntryStart[walk.nth] \in Nat
    BY <1>1, <2>1, EntryFacts
  <2>4. w.lz.produced = EntryStart[w.nth] + w.have
    BY <1>1, <1>3, <2>1, <2>3
  <2>5. commits = HeaderTold(w) \o EntriesTold(w.nth)
    BY <1>3, <1>7, <2>1
  <2>6. InPageMap(w, commits)
    BY <1>3, <1>4, <2>1, <2>2, <2>4, <2>5 DEF InPageMap, HeaderRight
  <2>7. Follows(w, commits)
    BY <1>1, <1>3, <1>4, <1>6, <1>8, <2>6 DEF Follows, p
  <2>8. w.open # "None"
    BY <1>1, <1>3, <1>8, InPageMapFacts
  <2>9. QED
    BY <1>3, <1>4, <2>7, <2>8 DEF Fed, Leads, Full
<1>9. CASE walk.kind # "PageMap"
  <2>1. /\ HeaderRight(walk) /\ ~walk.pagesOnly /\ walk.nth \in Nat /\ SectionMapPlaced(walk)
        /\ Counted(walk, walk.nth)
        /\ commits = HeaderTold(walk) \o EntriesTold(Entries) \o RecordsTold(walk.at, walk.nth)
        /\ walk.lz.produced = RecordStart(walk.at)[walk.nth] + walk.have
    BY <1>1, <1>9, InSectionMapFacts
  <2>2. SectionMapPlaced(w)
    BY <1>3, <2>1 DEF SectionMapPlaced
  <2>3. RecordStart(walk.at)[walk.nth] \in Nat
    BY <1>1, <2>1, RecordStartFacts
  <2>4. w.lz.produced = RecordStart(w.at)[w.nth] + w.have
    BY <1>1, <1>3, <2>1, <2>3
  <2>5. Counted(w, w.nth)
    <3>1. Counting(w, walk.nth)
      BY <1>3, <2>1, CountingSame DEF Counted
    <3>2. QED
      BY <1>3, <2>1, <3>1 DEF Counted
  <2>6. commits = HeaderTold(w) \o EntriesTold(Entries) \o RecordsTold(w.at, w.nth)
    BY <1>3, <1>7, <2>1
  <2>7. InSectionMap(w, commits)
    BY <1>3, <1>4, <2>1, <2>2, <2>4, <2>5, <2>6 DEF InSectionMap, HeaderRight
  <2>8. Follows(w, commits)
    BY <1>1, <1>3, <1>4, <1>6, <1>9, <2>7 DEF Follows, p
  <2>9. Full(w)
    <3>1. SUFFICES ASSUME walk.open = "None" PROVE w.lz.produced = p.decomp
      BY <1>3 DEF Full, p
    <3>2. walk.lz.produced = p.decomp
      BY <1>1, <3>1 DEF Drained
    <3>3. c.produced = 0
      BY <1>1, <1>3, <3>1, Sizes
    <3>4. QED
      BY <1>1, <1>3, <3>2, <3>3
  <2>10. QED
    BY <1>3, <1>4, <2>8, <2>9 DEF Fed, Leads
<1>10. QED
  BY <1>8, <1>9

LEMMA DecodedFollows ==
  ASSUME NEW w, Fed(w), Full(w), Decoded(w)
  PROVE  StepFollows(walk', commits')
<1>1. /\ w \in WalkType /\ w.failure = "none" /\ IsSeq(commits) /\ Leads(w, commits)
      /\ file \in Files
  BY FedFacts
<1>2. CASE w.have = SizeOf(w.open) /\ w.kind = "PageMap" /\ PageRecord(w)
  BY <1>2, PageRecordFollows
<1>3. CASE w.have = SizeOf(w.open) /\ w.kind # "PageMap" /\ SectionRecord(w)
  BY <1>3, CountRecordFollows, DescriptionFollows, ReferenceFollows DEF SectionRecord
<1>4. CASE (w.open = "None" \/ w.have < SizeOf(w.open)) /\ w.lz.mode = "done" /\ FinishPage(w)
  <2>1. CASE w.kind = "PageMap"
    <3>1. w.open # "None"
      BY <1>1, <2>1, InPageMapFacts
    <3>2. QED
      BY <1>4, <2>1, <3>1, FinishPageMapFollows
  <2>2. CASE w.kind # "PageMap"
    BY <1>4, <2>2, FinishSectionMapFollows
  <2>3. QED
    BY <2>1, <2>2
<1>5. CASE /\ w.open = "None" \/ w.have < SizeOf(w.open)
           /\ w.carried = 0 /\ w.lz.mode = "reading" /\ w.done = Page.comp /\ Fail("Lz77")
  BY <1>5, CutFollows
<1>6. CASE Then(w, <<>>)
  <2>1. walk' = w /\ commits' = commits
    BY <1>1, <1>6, EmptyFacts DEF Then
  <2>2. QED
    BY <1>1, <2>1 DEF StepFollows, Leads
<1>7. QED
  BY <1>2, <1>3, <1>4, <1>5, <1>6 DEF Decoded

LEMMA DecodeFollows ==
  ASSUME Led, walk.stage = "Decode", NEW given \in Nat, NEW taken \in Nat,
         given <= CarryBytes, walk.done + taken <= PageAt(walk.at).comp,
         walk.lz.consumed + given = walk.done + taken,
         Decode(given, taken)
  PROVE  StepFollows(walk', commits')
<1>1. CASE ~Drained /\ Fail("MapLength")
  BY <1>1, UndrainedFollows
<1>2. CASE LzFails(given, SizeOf(walk.open) - walk.have) /\ Fail("Lz77")
  BY <1>2, MalformedFollows
<1>3. ASSUME Drained, NEW c \in LzCalls(given, SizeOf(walk.open) - walk.have),
             Decoded(AfterCall(given, taken, c))
      PROVE  StepFollows(walk', commits')
  <2> DEFINE w == AfterCall(given, taken, c)
  <2>1. w = AfterCall(given, taken, c) /\ Decoded(w)
    BY <1>3
  <2> HIDE DEF w
  <2>2. Fed(w) /\ Full(w)
    BY <1>3, <2>1, CalledFed
  <2>3. QED
    BY <2>1, <2>2, DecodedFollows
<1>4. QED
  BY <1>1, <1>2, <1>3 DEF Decode, AfterCall

LEMMA FeedDecodeFollows ==
  ASSUME Led, NEW n \in Nat \ {0}, n <= Read.len, FeedDecode(n)
  PROVE  StepFollows(walk', commits')
<1>1. walk.stage = "Decode" /\ walk.carried = 0 /\ Decode(n, n)
  BY DEF FeedDecode, NeedsInput
<1>2. walk \in WalkType /\ walk.lz.consumed + walk.carried = walk.done /\ file \in Files
  BY <1>1, LedFacts DEF WalkOk
<1>3. walk.done \in Nat /\ walk.lz.consumed \in Nat /\ PageAt(walk.at).comp \in Nat
  BY <1>2, WalkFields, PageFacts DEF LzType
<1>4. n <= CarryBytes /\ n <= Left
  BY <1>1, ReadFacts, Sizes DEF Led, Going
<1>5. walk.done + n <= PageAt(walk.at).comp
  BY <1>3, <1>4 DEF Left, Page
<1>6. QED
  BY <1>1, <1>2, <1>3, <1>4, <1>5, DecodeFollows

LEMMA PumpDecodeFollows ==
  ASSUME Led, PumpDecode
  PROVE  StepFollows(walk', commits')
<1>1. walk.stage = "Decode" /\ Decode(walk.carried, 0)
  BY DEF PumpDecode
<1>2. /\ walk \in WalkType /\ walk.lz.consumed + walk.carried = walk.done /\ Located(walk)
      /\ walk.done <= PageAt(walk.at).comp
  BY <1>1, LedFacts DEF WalkOk
<1>3. walk.done \in Nat /\ walk.carried \in Nat /\ walk.carried <= CarryBytes
  BY <1>2, WalkFields DEF Located
<1>4. QED
  BY <1>1, <1>2, <1>3, DecodeFollows

----------------------------------------------------------------------------
(* No step changes the file, nor what a reading of it has. *)

LEMMA EntriesSame ==
  ASSUME file' = file
  PROVE  /\ PageMap' = PageMap /\ Entries' = Entries
         /\ \A n : EntryAt(n)' = EntryAt(n)
         /\ EntryStart' = EntryStart /\ Address' = Address
         /\ \A n : EntryFault(n)' = EntryFault(n) /\ EntryStep(n)' = EntryStep(n)
         /\ \A number, n : Numbered(number, n)' = Numbered(number, n)
<1>1. /\ PageMap' = PageMap
      /\ \A n : EntryAt(n)' = EntryAt(n)
  BY PageSame DEF PageMap, EntryAt
<1>2. EntryStart' = EntryStart
  <2>1. [n \in Nat |-> SizeOf(IF EntryAt(n).number < 0 THEN "Gap" ELSE "Entry")]' =
          [n \in Nat |-> SizeOf(IF EntryAt(n).number < 0 THEN "Gap" ELSE "Entry")]
    BY <1>1
  <2>2. QED
    BY <2>1 DEF EntryStart
<1>3. Address' = Address
  <2>1. [n \in Nat |-> EntryAt(n).size]' = [n \in Nat |-> EntryAt(n).size]
    BY <1>1
  <2>2. QED
    BY <2>1 DEF Address
<1>4. Entries' = Entries
  <2>1. {n \in 0..PageMap.yields : EntryStart[n] <= PageMap.yields}' =
          {n \in 0..PageMap.yields : EntryStart[n] <= PageMap.yields}
    BY <1>1, <1>2
  <2>2. QED
    BY <2>1 DEF Entries
<1>5. \A n : EntryFault(n)' = EntryFault(n) /\ EntryStep(n)' = EntryStep(n)
  BY <1>1, <1>3 DEF EntryFault, EntryStep
<1>6. \A number, n : Numbered(number, n)' = Numbered(number, n)
  BY <1>1 DEF Numbered
<1>7. QED
  BY <1>1, <1>2, <1>3, <1>4, <1>5, <1>6

LEMMA OwnersSame ==
  ASSUME file' = file
  PROVE  /\ \A at : Owner(at)' = Owner(at)
         /\ \A at, n : IsDescription(at, n)' <=> IsDescription(at, n)
         /\ \A at : Described(at)' = Described(at)
         /\ \A at, n : Complete(at, n)' <=> Complete(at, n)
         /\ \A at, n : FormOf(at, n)' = FormOf(at, n)
         /\ \A at : RecordStart(at)' = RecordStart(at)
<1>1. \A at, n : RecordAt(at, n)' = RecordAt(at, n)
  BY PageSame
<1>2. \A at : Owner(at)' = Owner(at)
  <2>1. ASSUME NEW at PROVE Owner(at)' = Owner(at)
    <3>1. [n \in Nat |-> [o \in Nat |->
             IF o > 0 /\ n - o < RecordAt(at, o).count THEN o ELSE n + 1]]' =
          [n \in Nat |-> [o \in Nat |->
             IF o > 0 /\ n - o < RecordAt(at, o).count THEN o ELSE n + 1]]
      BY <1>1
    <3>2. QED
      BY <3>1 DEF Owner
  <2>2. QED
    BY <2>1
<1>3. \A at, n : IsDescription(at, n)' <=> IsDescription(at, n)
  BY <1>2 DEF IsDescription
<1>4. \A at : Described(at)' = Described(at)
  <2>1. ASSUME NEW at PROVE Described(at)' = Described(at)
    <3>1. [n \in Nat |-> IF IsDescription(at, n) THEN 1 ELSE 0]' =
          [n \in Nat |-> IF IsDescription(at, n) THEN 1 ELSE 0]
      BY <1>3
    <3>2. QED
      BY <3>1 DEF Described
  <2>2. QED
    BY <2>1
<1>5. \A at, n : Complete(at, n)' <=> Complete(at, n)
  BY <1>1, <1>3, <1>4 DEF Complete
<1>6. \A at, n : FormOf(at, n)' = FormOf(at, n)
  BY <1>3 DEF FormOf
<1>7. \A at : RecordStart(at)' = RecordStart(at)
  <2>1. ASSUME NEW at PROVE RecordStart(at)' = RecordStart(at)
    <3>1. [n \in Nat |-> SizeOf(FormOf(at, n))]' = [n \in Nat |-> SizeOf(FormOf(at, n))]
      BY <1>6
    <3>2. QED
      BY <3>1 DEF RecordStart
  <2>2. QED
    BY <2>1
<1>8. QED
  BY <1>2, <1>3, <1>4, <1>5, <1>6, <1>7

LEMMA RecordsSame ==
  ASSUME file' = file
  PROVE  /\ \A at : Records(at)' = Records(at)
         /\ \A at, n : RecordFault(at, n)' = RecordFault(at, n)
         /\ \A at, n : RecordStep(at, n)' = RecordStep(at, n)
         /\ \A at : SectionMapEnd(at)' = SectionMapEnd(at)
<1>1. /\ \A at : PageAt(at)' = PageAt(at)
      /\ \A at, n : RecordAt(at, n)' = RecordAt(at, n)
      /\ \A at : Owner(at)' = Owner(at) /\ Described(at)' = Described(at)
      /\ \A at : RecordStart(at)' = RecordStart(at)
      /\ \A at, n : Complete(at, n)' <=> Complete(at, n)
      /\ \A at, n : FormOf(at, n)' = FormOf(at, n)
  BY PageSame, OwnersSame
<1>2. \A at : Records(at)' = Records(at)
  <2>1. ASSUME NEW at PROVE Records(at)' = Records(at)
    <3>1. {n \in 0..PageAt(at).yields :
             RecordStart(at)[n] <= PageAt(at).yields /\ \A m \in 0..(n - 1) : ~Complete(at, m)}' =
          {n \in 0..PageAt(at).yields :
             RecordStart(at)[n] <= PageAt(at).yields /\ \A m \in 0..(n - 1) : ~Complete(at, m)}
      BY <1>1
    <3>2. QED
      BY <3>1 DEF Records
  <2>2. QED
    BY <2>1
<1>3. \A at, n : RecordFault(at, n)' = RecordFault(at, n)
  BY <1>1 DEF RecordFault
<1>4. \A at, n : RecordStep(at, n)' = RecordStep(at, n)
  BY <1>1 DEF RecordStep
<1>5. \A at : SectionMapEnd(at)' = SectionMapEnd(at)
  BY <1>1, <1>2 DEF SectionMapEnd
<1>6. QED
  BY <1>2, <1>3, <1>4, <1>5

LEMMA PageReadingSame ==
  ASSUME file' = file, NEW kind, NEW at, NEW size, NEW n, NEW step, NEW fault, NEW end
  PROVE  /\ PageFault(PageAt(at), kind, at, size)' = PageFault(PageAt(at), kind, at, size)
         /\ PageReading(kind, at, size, n, step, fault, end)' =
              PageReading(kind, at, size, n, step, fault, end)
<1>1. PageAt(at)' = PageAt(at)
  BY PageSame
<1>2. PageFault(PageAt(at), kind, at, size)' = PageFault(PageAt(at), kind, at, size)
  BY <1>1 DEF PageFault
<1>3. QED
  BY <1>1, <1>2 DEF PageReading

LEMMA MapReadingsSame ==
  ASSUME file' = file
  PROVE  PageMapReading' = PageMapReading /\ SectionMapReading' = SectionMapReading
<1>1. /\ Entries' = Entries /\ EntryStart' = EntryStart /\ Address' = Address
      /\ PageMap' = PageMap
      /\ \A n : EntryAt(n)' = EntryAt(n)
      /\ \A n : EntryFault(n)' = EntryFault(n) /\ EntryStep(n)' = EntryStep(n)
      /\ \A number, n : Numbered(number, n)' = Numbered(number, n)
  BY EntriesSame
<1>2. PageMapReading' = PageMapReading
  <2> DEFINE step == [n \in Nat |-> EntryStep(n)]
             fault == [n \in Nat |-> EntryFault(n)]
  <2>1. step' = step /\ fault' = fault
    BY <1>1
  <2>2. PageMapEnd' = PageMapEnd
    BY <1>1 DEF PageMapEnd
  <2>3. PageMapReading =
          PageReading("PageMap", file.pageMap, file.length, Entries, step, fault, PageMapEnd)
    BY DEF PageMapReading
  <2>4. PageMapReading' =
          PageReading("PageMap", file.pageMap, file.length, Entries, step, fault, PageMapEnd)'
    BY DEF PageMapReading
  <2> HIDE DEF step, fault
  <2>5. QED
    BY <1>1, <2>1, <2>2, <2>3, <2>4, PageReadingSame
<1>3. \A at, size : SectionsReading(at, size)' = SectionsReading(at, size)
  <2>1. ASSUME NEW at, NEW size PROVE SectionsReading(at, size)' = SectionsReading(at, size)
    <3> DEFINE step == [n \in Nat |-> RecordStep(at, n)]
               fault == [n \in Nat |-> RecordFault(at, n)]
    <3>1. step' = step /\ fault' = fault
      BY RecordsSame
    <3>2. SectionMapEnd(at)' = SectionMapEnd(at) /\ Records(at)' = Records(at)
      BY RecordsSame
    <3>3. SectionsReading(at, size) =
            PageReading("SectionMap", at, size, Records(at), step, fault, SectionMapEnd(at))
      BY DEF SectionsReading
    <3>4. SectionsReading(at, size)' =
            PageReading("SectionMap", at, size, Records(at), step, fault, SectionMapEnd(at))'
      BY DEF SectionsReading
    <3> HIDE DEF step, fault
    <3>5. QED
      BY <3>1, <3>2, <3>3, <3>4, PageReadingSame
  <2>2. QED
    BY <2>1
<1>4. SectionMapReading' = SectionMapReading
  BY <1>1, <1>3 DEF SectionMapReading
<1>5. QED
  BY <1>2, <1>4

LEMMA HeaderSame ==
  ASSUME file' = file
  PROVE  HeaderFaults' = HeaderFaults /\ HeaderReading' = HeaderReading
<1>1. HeaderFaults' = HeaderFaults
  BY DEF HeaderFaults
<1>2. QED
  BY <1>1 DEF HeaderReading

LEMMA ReadingSame ==
  ASSUME file' = file
  PROVE  /\ FirstPass' = FirstPass /\ SecondPass' = SecondPass
         /\ \A w : ReadingOf(w)' = ReadingOf(w)
<1>1. HeaderReading' = HeaderReading /\ PageMapReading' = PageMapReading
      /\ SectionMapReading' = SectionMapReading
  BY HeaderSame, MapReadingsSame
<1>2. FirstPass' = FirstPass /\ SecondPass' = SecondPass
  BY <1>1 DEF FirstPass, SecondPass
<1>3. QED
  BY <1>2 DEF ReadingOf

LEMMA ToldSame ==
  ASSUME file' = file
  PROVE  /\ \A n : EntriesTold(n)' = EntriesTold(n)
         /\ \A at, n : RecordsTold(at, n)' = RecordsTold(at, n)
<1>1. \A n : EntriesTold(n)' = EntriesTold(n)
  BY EntriesSame DEF EntriesTold
<1>2. \A at, n : RecordsTold(at, n)' = RecordsTold(at, n)
  BY RecordsSame DEF RecordsTold
<1>3. QED
  BY <1>1, <1>2

LEMMA FollowsSame ==
  ASSUME file' = file, NEW w, NEW told
  PROVE  Follows(w, told)' <=> Follows(w, told)
<1>1. /\ Entries' = Entries /\ EntryStart' = EntryStart /\ Address' = Address
      /\ \A n : EntryAt(n)' = EntryAt(n)
      /\ \A n : EntryFault(n)' = EntryFault(n)
      /\ \A number, n : Numbered(number, n)' = Numbered(number, n)
  BY EntriesSame
<1>2. /\ \A at : PageAt(at)' = PageAt(at)
      /\ \A at, n : RecordAt(at, n)' = RecordAt(at, n)
      /\ \A at : Owner(at)' = Owner(at) /\ Described(at)' = Described(at)
      /\ \A at : RecordStart(at)' = RecordStart(at)
      /\ \A at, n : Complete(at, n)' <=> Complete(at, n)
      /\ \A at, n : FormOf(at, n)' = FormOf(at, n)
      /\ \A at, n : RecordFault(at, n)' = RecordFault(at, n)
  BY PageSame, OwnersSame, RecordsSame
<1>3. HeaderFaults' = HeaderFaults /\ PageMapReading' = PageMapReading
  BY HeaderSame, MapReadingsSame
<1>4. /\ \A n : EntriesTold(n)' = EntriesTold(n)
      /\ \A at, n : RecordsTold(at, n)' = RecordsTold(at, n)
  BY ToldSame
<1>5. InHeader(w, told)' <=> InHeader(w, told)
  BY <1>3 DEF InHeader
<1>6. Listed(w, w.nth)' <=> Listed(w, w.nth)
  BY <1>1 DEF Listed
<1>7. InPageMap(w, told)' <=> InPageMap(w, told)
  BY <1>1, <1>3, <1>4, <1>6 DEF InPageMap, HeaderTold
<1>8. Counting(w, w.nth)' <=> Counting(w, w.nth)
  BY <1>2 DEF Counting, Unread
<1>9. Counted(w, w.nth)' <=> Counted(w, w.nth)
  BY <1>2, <1>8 DEF Counted
<1>10. SectionMapPlaced(w)' <=> SectionMapPlaced(w)
  BY <1>1, <1>3, <1>4 DEF SectionMapPlaced
<1>11. InSectionMap(w, told)' <=> InSectionMap(w, told)
  BY <1>1, <1>2, <1>3, <1>4, <1>9, <1>10 DEF InSectionMap, HeaderTold
<1>12. Streams(w)' <=> Streams(w)
  BY <1>2 DEF Streams
<1>13. /\ PageAt(w.at)' = PageAt(w.at)
       /\ FirstPass' = FirstPass /\ SecondPass' = SecondPass
  BY <1>2, ReadingSame
<1>14. QED
  BY <1>5, <1>7, <1>11, <1>12, <1>13 DEF Follows

----------------------------------------------------------------------------
(* The invariant of what is committed. *)

LEMMA StepAgrees ==
  ASSUME AInv, IInv', file' = file, kept' = kept, StepFollows(walk', commits')
  PROVE  AInv'
<1> DEFINE v == walk'
           told == commits'
<1>1. Follows(kept.walk, kept.commits)'
  <2>1. Follows(kept.walk, kept.commits)
    BY DEF AInv
  <2>2. QED
    BY <2>1, FollowsSame
<1>2. CASE v.failure = "none"
  <2>1. Follows(v, told)
    BY <1>2 DEF StepFollows
  <2>2. Follows(walk, commits)'
    BY <2>1, FollowsSame
  <2>3. QED
    BY <1>1, <1>2, <2>2 DEF AInv
<1>3. CASE v.failure # "none"
  <2>1. Came(v, told)
    BY <1>3 DEF StepFollows
  <2>2. ReadingOf(walk)' = ReadingOf(v) /\ PageAt(walk.at)' = PageAt(v.at)
    BY ReadingSame, PageSame
  <2>3. Came(walk, commits)'
    BY <2>1, <2>2 DEF Came
  <2>4. Agreed'
    <3>1. Reading' = ReadingOf(walk)' /\ Page' = PageAt(walk.at)'
      BY DEF Reading, ReadingOf, Page
    <3>2. QED
      BY <2>3, <3>1 DEF Agreed, CutShort, Came
  <2>5. QED
    BY <1>1, <1>3, <2>4 DEF AInv
<1>4. QED
  BY <1>2, <1>3

LEMMA WalkAgrees ==
  ASSUME AInv, IInv', Walk
  PROVE  AInv'
<1>1. Led /\ IInv /\ walk.failure = "none"
  BY DEF Walk, AInv, Led, Going
<1>2. StepFollows(walk', commits') /\ Frame
  <2>1. CASE Pump
    <3>1. StepFollows(walk', commits')
      BY <1>1, <2>1, PumpHeaderFollows, PumpCheckedFollows, PumpDecodeFollows DEF Pump
    <3>2. Frame
      BY <2>1, ThenFrame, DecodeFrame DEF Pump, PumpHeader, PumpChecked, PumpDecode
    <3>3. QED
      BY <3>1, <3>2
  <2>2. ASSUME NEW scratch \in Scratches, Read.len > 0, ~Truncated,
               Feed(Least(scratch, Least(Read.len, file.length - Read.offset)))
        PROVE  StepFollows(walk', commits') /\ Frame
    <3> DEFINE n == Least(scratch, Least(Read.len, file.length - Read.offset))
    <3>1. n \in Nat \ {0} /\ n <= Read.len /\ Feed(n)
      BY <1>1, <2>2, FedCount
    <3>2. Read.offset + n <= file.length
      <4>1. Read.offset \in Nat /\ Read.len \in Nat /\ file.length \in Nat /\ scratch \in Nat
        BY <1>1, FileFacts, ReadFacts, SizesAssumption DEF IInv
      <4>2. QED
        BY <4>1 DEF Least
    <3> HIDE DEF n
    <3>3. StepFollows(walk', commits')
      BY <1>1, <3>1, <3>2, FeedHeaderFollows, FeedSysHeaderFollows, FeedCheckFollows,
         FeedDecodeFollows DEF Feed
    <3>4. Frame
      BY <3>1, ThenFrame, DecodeFrame DEF Feed, FeedHeader, FeedSysHeader, FeedCheck, FeedDecode
    <3>5. QED
      BY <3>3, <3>4
  <2>3. QED
    BY <2>1, <2>2 DEF Walk
<1>3. QED
  BY <1>2, StepAgrees DEF Frame

LEMMA AgainAgrees ==
  ASSUME AInv, IInv', Again
  PROVE  AInv'
<1> DEFINE v == [NewWalk EXCEPT !.filled = walk.filled, !.pagesOnly = TRUE]
<1>1. /\ walk' = Enter(v, "PageMap", file.pageMap, 0) /\ commits' = <<>>
      /\ file' = file /\ kept' = kept
  BY DEF Again
<1>2. walk.filled \in 0..HeaderBytes /\ file \in Files
  BY WalkFields DEF AInv, IInv
<1>3. v \in WalkType
  BY <1>2, NewWalkTyped DEF WalkType
<1>4. /\ v.failure = "none" /\ v.address = HeaderBytes /\ v.selfSeen = FALSE /\ v.mapSize = 0
      /\ v.pagesOnly = TRUE
  BY DEF NewWalk
<1> HIDE DEF v
<1>5. HeaderRight(v) /\ HeaderTold(v) = <<>>
  BY <1>4 DEF HeaderRight, HeaderTold
<1>6. Follows(walk', commits')
  BY <1>1, <1>2, <1>3, <1>4, <1>5, EnterPageMap
<1>7. walk'.failure = "none"
  <2>1. "PageMap" \in Kinds /\ file.pageMap \in Nat /\ 0 \in Nat
    BY <1>2, FileFacts DEF Kinds
  <2>2. QED
    BY <1>1, <1>3, <1>4, <2>1, EnterFacts
<1>8. QED
  BY <1>1, <1>6, <1>7, StepAgrees DEF StepFollows

LEMMA SaveAgrees ==
  ASSUME AInv, IInv', Save
  PROVE  AInv'
<1>1. /\ walk' = walk /\ commits' = commits /\ file' = file
      /\ kept'.walk = walk /\ kept'.commits = commits /\ walk.failure = "none"
  BY DEF Save
<1>2. Follows(walk, commits)
  BY <1>1 DEF AInv
<1>3. Follows(walk, commits)' /\ Follows(kept.walk, kept.commits)'
  BY <1>1, <1>2, FollowsSame
<1>4. QED
  BY <1>1, <1>3 DEF AInv

\* A walk that is restored goes on as the one that was saved.
LEMMA RestoredFollows ==
  ASSUME NEW k \in WalkType, k.failure = "none", NEW told, Follows(k, told)
  PROVE  Follows(Restored(k), told) /\ Restored(k).failure = "none"
<1> DEFINE v == Restored(k)
<1>1. CASE k.stage = "Decode"
  BY <1>1 DEF Restored
<1>2. CASE k.stage # "Decode"
  <2>1. v = [k EXCEPT !.lz = NewLz]
    BY <1>2 DEF Restored
  <2>2. v \in WalkType
    BY <2>1 DEF WalkType, LzType, NewLz
  <2>3. /\ v.filled = k.filled /\ v.stage = k.stage /\ v.kind = k.kind /\ v.at = k.at
        /\ v.size = k.size /\ v.nth = k.nth /\ v.pagesOnly = k.pagesOnly
        /\ v.address = k.address /\ v.selfSeen = k.selfSeen /\ v.mapAt = k.mapAt
        /\ v.mapSize = k.mapSize /\ v.summed = k.summed /\ v.done = k.done
        /\ v.failure = k.failure
    BY <2>1 DEF WalkType
  <2> HIDE DEF v
  <2>4. CASE k.stage \in {"SysHeader", "Check"}
    <3>1. v.stage = "Check" => v.summed = v.done
      BY <2>3 DEF Follows
    <3>2. Follows(v, told)
      BY <2>2, <2>3, <2>4, <3>1, StillFollows
    <3>3. QED
      BY <2>3, <3>2 DEF v
  <2>5. CASE k.stage = "Header"
    <3>1. InHeader(v, told)
      BY <2>3, <2>5 DEF Follows, InHeader
    <3>2. Follows(v, told)
      BY <2>3, <2>5, <3>1 DEF Follows
    <3>3. QED
      BY <2>3, <3>2 DEF v
  <2>6. CASE k.stage = "Done"
    <3>1. Follows(v, told)
      BY <2>3, <2>6 DEF Follows
    <3>2. QED
      BY <2>3, <3>1 DEF v
  <2>7. QED
    BY <1>2, <2>4, <2>5, <2>6, WalkFields DEF Stages
<1>3. QED
  BY <1>1, <1>2

LEMMA RestartAgrees ==
  ASSUME AInv, IInv', Restart
  PROVE  AInv'
<1>1. /\ file' = file /\ kept' = kept /\ walk' = Restored(kept.walk) /\ commits' = kept.commits
  BY DEF Restart
<1>2. /\ kept.walk \in WalkType /\ kept.walk.failure = "none"
      /\ Follows(kept.walk, kept.commits)
  BY DEF AInv, IInv
<1>3. StepFollows(walk', commits')
  BY <1>1, <1>2, RestoredFollows DEF StepFollows
<1>4. QED
  BY <1>1, <1>3, StepAgrees

LEMMA InitAInv == Init => AInv
<1> SUFFICES ASSUME Init PROVE AInv
  OBVIOUS
<1>1. IInv
  BY InitIInv
<1>2. walk = NewWalk /\ commits = <<>> /\ kept.walk = NewWalk /\ kept.commits = <<>>
  BY DEF Init
<1>3. NewWalk.stage = "Header" /\ NewWalk.filled = 0 /\ NewWalk.failure = "none"
  BY DEF NewWalk
<1>4. Follows(NewWalk, <<>>)
  BY <1>3, Sizes, SizesAssumption DEF Follows, InHeader
<1>5. QED
  BY <1>1, <1>2, <1>3, <1>4 DEF AInv

LEMMA NextAgrees == AInv /\ [Next]_vars => AInv'
<1> SUFFICES ASSUME AInv, [Next]_vars PROVE AInv'
  OBVIOUS
<1>1. IInv'
  BY NextKeeps DEF AInv
<1>2. CASE Walk
  BY <1>1, <1>2, WalkAgrees
<1>3. CASE Again
  BY <1>1, <1>3, AgainAgrees
<1>4. CASE Save
  BY <1>1, <1>4, SaveAgrees
<1>5. CASE Restart
  BY <1>1, <1>5, RestartAgrees
<1>6. CASE UNCHANGED vars
  <2>1. walk' = walk /\ commits' = commits /\ file' = file /\ kept' = kept
    BY <1>6 DEF vars
  <2>2. StepFollows(walk, commits)
    BY DEF AInv, StepFollows, Agreed, CutShort, Came, Reading, ReadingOf, Page
  <2>3. QED
    BY <1>1, <2>1, <2>2, StepAgrees
<1>7. QED
  BY <1>2, <1>3, <1>4, <1>5, <1>6 DEF Next

----------------------------------------------------------------------------

\* A walk that has come to the end of the source has what a reading has that
\* finds the source too short.
LEMMA TruncatedReading ==
  ASSUME AInv, walk.failure = "none", Truncated
  PROVE  commits = Reading.commits /\ Reading.failure = "Truncated"
<1>1. /\ file \in Files /\ walk \in WalkType /\ WalkOk(walk) /\ Follows(walk, commits)
      /\ walk.failure = "none" /\ Reading = ReadingOf(walk)
  BY DEF AInv, IInv, Reading, ReadingOf
<1>2. /\ walk.at \in Nat /\ walk.done \in Nat /\ walk.stage \in Stages /\ file.length \in Nat
      /\ walk.filled \in 0..HeaderBytes /\ PageAt(walk.at).comp \in Nat
  BY <1>1, WalkFields, FileFacts, PageFacts
<1>3. /\ MagicBytes \in Nat /\ HeaderBytes \in Nat /\ SysBytes \in Nat
      /\ MagicBytes <= HeaderBytes
  BY Sizes, SizesAssumption
<1>4. CASE walk.stage = "Header"
  <2>1. /\ commits = <<>>
        /\ walk.filled >= MagicBytes => MagicBytes <= file.length /\ file.magic = "none"
        /\ ~walk.pagesOnly
    <3>1. walk = [NewWalk EXCEPT !.filled = walk.filled]
      BY <1>1, <1>4 DEF WalkOk
    <3>2. ~walk.pagesOnly
      BY <3>1 DEF NewWalk
    <3>3. QED
      BY <1>1, <1>4, <3>2 DEF Follows, InHeader
  <2>2. file.length < Target
    <3>1. Read = Span(walk.filled, Target - walk.filled)
      BY <1>4 DEF Read
    <3>2. walk.filled < Target
      BY <1>2, <1>3, <3>1 DEF Truncated, Span, Target
    <3>3. QED
      BY <1>2, <1>3, <1>4, <3>1, <3>2 DEF Truncated, Span, Target
  <2>3. HeaderFaults = "Truncated"
    BY <1>2, <1>3, <2>1, <2>2 DEF HeaderFaults, Target
  <2>4. ReadingOf(walk) = Outcome(<<>>, "Truncated")
    BY <2>1, <2>3, HeaderStops
  <2>5. QED
    BY <1>1, <2>1, <2>4, OutcomeFacts
<1>5. CASE walk.stage = "SysHeader"
  <2>1. Located(walk) /\ walk.done < SysBytes
    BY <1>1, <1>5 DEF WalkOk
  <2>2. walk.at + SysBytes > file.length
    <3>1. Read = Span(walk.at + walk.done, SysBytes - walk.done)
      BY <1>5 DEF Read
    <3>2. QED
      BY <1>2, <1>3, <1>5, <2>1, <3>1 DEF Truncated, Span
  <2>3. PageFault(PageAt(walk.at), walk.kind, walk.at, SizeFor(walk)) = "Truncated"
    BY <2>2 DEF PageFault
  <2>4. ReadingOf(walk) = Outcome(commits, "Truncated")
    BY <1>1, <1>5, <2>1, <2>3, PageRefusedWalk
  <2>5. QED
    BY <1>1, <2>4, OutcomeFacts
<1>6. CASE walk.stage \in {"Check", "Decode"}
  <2>1. KeptSysOk(walk) /\ walk.done <= PageAt(walk.at).comp
    BY <1>1, <1>6 DEF WalkOk
  <2>2. walk.at + SysBytes + PageAt(walk.at).comp <= file.length
    BY <2>1 DEF KeptSysOk
  <2>3. IInv
    BY DEF AInv
  <2>4. /\ Read.len \in Nat /\ Read.len <= Left
        /\ Read.len > 0 => Read.offset = walk.at + SysBytes + walk.done
    BY <1>1, <1>6, <2>3, ReadFacts
  <2>5. Read.len > 0 /\ Read.offset >= file.length
    BY <1>6 DEF Truncated
  <2>6. Left > 0 /\ Left = PageAt(walk.at).comp - walk.done
    BY <1>2, <2>1, <2>4, <2>5 DEF Left, Page
  <2>7. QED
    BY <1>2, <1>3, <2>2, <2>4, <2>5, <2>6
<1>7. CASE walk.stage = "Done"
  <2>1. Read.len = 0
    BY <1>7 DEF Read, NoRead, Span
  <2>2. QED
    BY <2>1 DEF Truncated
<1>8. QED
  BY <1>2, <1>4, <1>5, <1>6, <1>7 DEF Stages

\* But for the record a malformed stream breaks off behind, however the file
\* is cut into reads, its maps compressed, and whatever restarts came between,
\* a walk of the maps that has stopped has committed the pages, the sections
\* and their pages that a reading of the whole file has, in that order, and
\* stopped with its error; a second pass has committed the same pages.
THEOREM AgreesHolds == Spec => []Agrees
<1>1. AInv => Agrees
  <2> SUFFICES ASSUME AInv, Stopped PROVE SameSteps \/ CutShort
    BY DEF Agrees
  <2>1. CASE walk.failure # "none"
    BY <2>1 DEF AInv, Agreed, SameSteps, Ending
  <2>2. CASE walk.failure = "none" /\ Truncated
    BY <2>2, TruncatedReading DEF SameSteps, Ending
  <2>3. CASE walk.failure = "none" /\ ~Truncated
    <3>1. walk.stage = "Done" /\ Follows(walk, commits)
      BY <2>3 DEF Stopped, AInv
    <3>2. commits = Reading.commits /\ Reading.failure = "none"
      BY <3>1 DEF Follows, Reading
    <3>3. QED
      BY <2>3, <3>2 DEF SameSteps, Ending
  <2>4. QED
    BY <2>1, <2>2, <2>3
<1>2. Init => AInv
  BY InitAInv
<1>3. AInv /\ [Next]_vars => AInv'
  BY NextAgrees
<1>4. QED
  BY <1>1, <1>2, <1>3, PTL DEF Spec
=============================================================================
