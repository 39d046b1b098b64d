------------------------ MODULE SectionWalkProofs ------------------------
(***************************************************************************)
(* Proofs about SectionWalk for every section, every set of jobs and every *)
(* size of buffer.                                                         *)
(***************************************************************************)
EXTENDS SectionWalk, TLAPS

(* Arithmetic. *)

LEMMA LeastFacts ==
  ASSUME NEW a \in Nat, NEW b \in Nat
  PROVE  /\ Least(a, b) \in Nat
         /\ Least(a, b) <= a /\ Least(a, b) <= b
         /\ Least(a, b) \in {a, b}
BY DEF Least

LEMMA MinusFacts ==
  ASSUME NEW a \in Nat, NEW b \in Nat
  PROVE  /\ Minus(a, b) \in Nat
         /\ Minus(a, b) <= a
         /\ a >= b => Minus(a, b) = a - b
         /\ a <= b => Minus(a, b) = 0
BY DEF Minus

\* Pages start a whole number of pages apart.
LEMMA Multiples ==
  ASSUME NEW m \in Nat \ {0}, NEW a \in Nat, NEW b \in Nat,
         a % m = 0, b % m = 0, a < b
  PROVE  a + m <= b
<1> DEFINE p == a \div m
           q == b \div m
<1>1. p \in Int /\ q \in Int /\ a = m * p /\ b = m * q
  BY SMT
<1>2. p < q
  <2>1. SUFFICES ASSUME p >= q PROVE FALSE
    BY <1>1
  <2>2. m * p >= m * q
    BY <1>1, <2>1
  <2>3. QED
    BY <1>1, <2>2
<1>3. q = p + 1 + (q - p - 1) /\ q - p - 1 \in Nat
  BY <1>1, <1>2
<1> DEFINE r == q - p - 1
<1>4. m * q = m * p + m + m * r
  BY <1>1, <1>3
<1>5. m * r >= 0
  BY <1>3
<1>6. QED
  BY <1>1, <1>4, <1>5

----------------------------------------------------------------------------
(* The invariant, without what follows from it. *)

WalkTypes ==
  /\ section \in SectionType
  /\ Now \in NowType
  /\ kept \in NowType
  /\ failure \in BOOLEAN
  /\ step.offset \in Nat /\ step.len \in Nat
  /\ restarts \in 0..MaxRestarts

WalkInv ==
  /\ WalkTypes
  /\ ~failure => Sound(Now)
  /\ Sound(kept)
  /\ step.kind = "Data" => stage = "Decode" /\ ~failure

USE DEF HeaderType, SectionType, JobType, LzType

LEMMA Sizes ==
  /\ SourceLength \in Nat
  /\ HeadBytes \in Nat \ {0}
  /\ OutBytes \in Nat \ {0}
  /\ CarryBytes \in Nat \ {0}
  /\ ChunkBytes \in Nat \ {0}
  /\ MaxRestarts \in Nat
BY SizesAssumption

\* The types of the walk's fields, one by one.
Typed ==
  /\ section \in SectionType
  /\ stage \in Stages /\ job \in JobType /\ done \in Nat /\ summed \in Nat
  /\ lz \in LzType /\ carried \in Nat /\ cursor \in Nat /\ refsDone \in Nat
  /\ lastStart \in Nat /\ firstRef \in BOOLEAN

LEMMA Fields == WalkTypes => Typed
BY DEF WalkTypes, Typed, Now, NowType

\* Where the walk stands in its section, from its fields alone.
LEMMA Spot ==
  ASSUME Typed
  PROVE  /\ Room \in Nat
         /\ Room = IF section.size > job.start THEN section.size - job.start ELSE 0
         /\ Wanted \in Nat /\ Wanted <= job.stored /\ Wanted <= Room
         /\ Wanted \in {job.stored, Room}
         /\ HoleEnd \in Nat /\ HoleEnd <= job.start /\ HoleEnd <= section.size
         /\ HoleEnd \in {job.start, section.size}
         /\ Produced \in Nat
<1>1. section.size \in Nat /\ job.start \in Nat /\ job.stored \in Nat
      /\ lz.produced \in Nat /\ done \in Nat
  BY DEF Typed
<1>2. Room \in Nat /\ Room = IF section.size > job.start THEN section.size - job.start ELSE 0
  BY <1>1 DEF Room, Minus
<1>3. Wanted \in Nat /\ Wanted <= job.stored /\ Wanted <= Room /\ Wanted \in {job.stored, Room}
  BY <1>1, <1>2, LeastFacts DEF Wanted
<1>4. HoleEnd \in Nat /\ HoleEnd <= job.start /\ HoleEnd <= section.size
      /\ HoleEnd \in {job.start, section.size}
  BY <1>1, LeastFacts DEF HoleEnd
<1>5. QED
  BY <1>1, <1>2, <1>3, <1>4 DEF Produced

\* A page past its hole gives the bytes that follow those handed out.
LEMMA InPlace ==
  ASSUME Typed, Sound(Now), stage = "Decode", ~HasHole
  PROVE  /\ cursor \in {job.start + Produced, section.size}
         /\ cursor <= job.start + Produced /\ cursor <= section.size
<1>1. CursorOk(Now) /\ KeptProduced(Now) = Produced /\ Now.cursor = cursor /\ Now.job = job
  BY DEF Sound, Consistent, Now, KeptProduced, Produced
<1>2. section.size \in Nat /\ job.start \in Nat /\ Produced \in Nat /\ cursor \in Nat
  BY Spot DEF Typed
<1>3. CASE Produced = 0
  <2>1. cursor <= HoleEnd /\ cursor >= HoleEnd
    BY <1>1, <1>2, <1>3, Spot DEF CursorOk, HasHole, HoleEnd
  <2>2. QED
    BY <1>2, <1>3, <2>1, Spot
<1>4. CASE Produced # 0
  <2>1. cursor = Least(job.start + Produced, section.size)
    BY <1>1, <1>4 DEF CursorOk
  <2>2. job.start + Produced \in Nat
    BY <1>2
  <2>3. QED
    BY <1>2, <2>1, <2>2, LeastFacts
<1>5. QED
  BY <1>3, <1>4

----------------------------------------------------------------------------
(* Each call keeps the walk sound. *)

\* What every call starts from.
Going == Typed /\ Sound(Now) /\ ~failure /\ section' = section

\* What it must come to.
StaysSound == Typed' /\ (~failure' => Sound(Now)')

LEMMA BeginPageSound ==
  ASSUME Going, NEW j \in Jobs, BeginPage(j)
  PROVE  StaysSound
<1>1. j \in JobType
  BY JobsAssumption
<1>2. Typed'
  BY <1>1 DEF Going, Typed, BeginPage, Stages
<1>3. Consistent(Now)'
  BY <1>1, Sizes DEF Going, Typed, BeginPage, Sound, Consistent, Now, JobOk, Rising, KeptJobOk,
     IdleOk, Blank, Placed, PagesEnd
<1>4. Placed(Now)'
  BY <1>1 DEF Going, Typed, BeginPage, Sound, Now, Placed, PagesEnd
<1>5. QED
  BY <1>2, <1>3, <1>4 DEF StaysSound, Sound

LEMMA FeedHeaderSound ==
  ASSUME Going, NEW n \in Nat, FeedHeader(n)
  PROVE  StaysSound
<1>1. Typed'
  BY DEF Going, Typed, FeedHeader, Stages
<1>2. Consistent(Now)'
  BY Sizes DEF Going, Typed, FeedHeader, Sound, Consistent, Now, KeptJobOk
<1>3. Placed(Now)'
  BY DEF Going, Typed, FeedHeader, Sound, Now, Placed, PagesEnd
<1>4. QED
  BY <1>1, <1>2, <1>3 DEF StaysSound, Sound

LEMMA FeedHeaderLastSound ==
  ASSUME Going, NEW n \in Nat, FeedHeaderLast(n)
  PROVE  StaysSound
<1>1. Typed'
  BY DEF Going, Typed, FeedHeaderLast, Fail, Stages
<1>2. SUFFICES ASSUME ~failure' PROVE Sound(Now)'
  BY <1>1 DEF StaysSound
<1>3. HeaderHolds /\ stage' = "Check" /\ done' = 0 /\ summed' = 0
  BY <1>2 DEF FeedHeaderLast, Fail
<1>4. UNCHANGED <<section, job, lz, carried, cursor, refsDone, lastStart, firstRef>>
  BY DEF Going, FeedHeaderLast
<1>5. KeptHeaderOk(Now)'
  BY <1>3, <1>4 DEF HeaderHolds, HeaderFits, KeptHeaderOk, Now
<1>6. stage = "Header"
  BY DEF FeedHeaderLast
<1>7. KeptJobOk(Now)' /\ carried' = 0 /\ (refsDone' > 0 \/ cursor' = 0)
  BY <1>4, <1>6 DEF Going, Sound, Consistent, KeptJobOk, Now
<1>8. Consistent(Now)'
  BY <1>1, <1>3, <1>4, <1>5, <1>6, <1>7 DEF Going, Typed, Sound, Consistent, Now
<1>9. Placed(Now)'
  BY <1>3, <1>4, <1>6 DEF Going, Sound, Placed, PagesEnd, Now
<1>10. QED
  BY <1>8, <1>9 DEF Sound

LEMMA FeedCheckSound ==
  ASSUME Going, NEW n \in Nat, n <= Read.len, FeedCheck(n)
  PROVE  StaysSound
<1>1. Typed'
  BY DEF Going, Typed, FeedCheck, Stages
<1>2. stage = "Check" /\ stage' = "Check" /\ done' = done + n
  BY DEF FeedCheck
<1>3. UNCHANGED <<section, job, lz, carried, cursor, refsDone, lastStart, firstRef>>
  BY DEF Going, FeedCheck
<1>4. n <= job.stored - done
  <2>1. job.stored - done \in Nat
    BY DEF Going, Typed, Sound, Consistent, Now, FeedCheck
  <2>2. Read.len = Least(job.stored - done, ChunkBytes)
    BY <1>2 DEF Read, BodyRead
  <2>3. Least(job.stored - done, ChunkBytes) <= job.stored - done
    BY <2>1, Sizes, LeastFacts
  <2>4. Least(job.stored - done, ChunkBytes) \in Nat
    BY <2>1, Sizes, LeastFacts
  <2>5. QED
    BY <2>1, <2>2, <2>3, <2>4
<1>5. KeptJobOk(Now)' /\ KeptHeaderOk(Now)'
  BY <1>2, <1>3 DEF Going, Sound, Consistent, KeptJobOk, KeptHeaderOk, Now
<1>6. Consistent(Now)'
  BY <1>1, <1>2, <1>3, <1>4, <1>5 DEF Going, Typed, Sound, Consistent, Now
<1>7. Placed(Now)'
  BY <1>2, <1>3 DEF Going, Sound, Placed, PagesEnd, Now
<1>8. QED
  BY <1>1, <1>6, <1>7 DEF StaysSound, Sound

\* The pages walked end at or before the start of the page at hand.
LEMMA PagesBehind ==
  ASSUME Typed, Sound(Now), stage \in {"Header", "Check", "Decode"}
  PROVE  PagesEnd(Now) \in Nat /\ PagesEnd(Now) <= HoleEnd
<1>1. section.size \in Nat /\ section.maxPage \in Nat \ {0} /\ job.start \in Nat
      /\ lastStart \in Nat /\ firstRef \in BOOLEAN
  BY DEF Typed
<1>2. Now.firstRef = firstRef /\ Now.lastStart = lastStart /\ Now.job = job
  BY DEF Now
<1>3. job.start % section.maxPage = 0 /\ lastStart % section.maxPage = 0
      /\ (firstRef \/ job.start > lastStart)
  BY <1>2 DEF Sound, Consistent, KeptJobOk, Now
<1>4. CASE firstRef
  BY <1>2, <1>4, Spot DEF PagesEnd
<1>5. CASE ~firstRef
  <2>1. lastStart + section.maxPage <= job.start
    BY <1>1, <1>3, <1>5, Multiples
  <2>2. lastStart + section.maxPage \in Nat
    BY <1>1
  <2>3. PagesEnd(Now) = Least(lastStart + section.maxPage, section.size)
    BY <1>2, <1>5 DEF PagesEnd
  <2>4. QED
    BY <1>1, <2>1, <2>2, <2>3 DEF Least, HoleEnd
<1>6. QED
  BY <1>1, <1>4, <1>5

LEMMA PumpCheckedSound ==
  ASSUME Going, PumpChecked
  PROVE  StaysSound
<1>1. Typed'
  BY DEF Going, Typed, PumpChecked, Fail, Stages, NewLz
<1>2. SUFFICES ASSUME ~failure' PROVE Sound(Now)'
  BY <1>1 DEF StaysSound
<1>3. job.dataSum /\ stage' = "Decode" /\ done' = 0 /\ summed' = 0 /\ carried' = 0
      /\ lz' = NewLz
  BY <1>2 DEF PumpChecked, Fail, DataHolds
<1>4. UNCHANGED <<section, job, cursor, refsDone, lastStart, firstRef>>
  BY DEF Going, PumpChecked
<1>5. stage = "Check"
  BY DEF PumpChecked
<1>6. KeptJobOk(Now)' /\ KeptHeaderOk(Now)'
  BY <1>3, <1>4, <1>5, Sizes DEF Going, Sound, Consistent, KeptJobOk, KeptHeaderOk, Now
<1>7. PagesEnd(Now) \in Nat /\ PagesEnd(Now) <= HoleEnd /\ cursor = PagesEnd(Now)
  BY <1>5, PagesBehind DEF Going, Sound, Placed, Now
<1>8. KeptProduced(Now)' = 0
  BY <1>3 DEF KeptProduced, Now, NewLz
<1>9. CursorOk(Now)'
  BY <1>4, <1>7, <1>8 DEF Going, Typed, CursorOk, Now, HoleEnd
<1>10. StreamOk(Now)'
  <2>1. 0 <= Wanted
    BY Spot DEF Going
  <2>2. 0 <= Least(job.stored, Minus(section.size, job.start))
    BY <2>1 DEF Wanted, Room
  <2>3. job.stored \in Nat
    BY DEF Going, Typed
  <2>4. QED
    BY <1>3, <1>4, <2>2, <2>3 DEF StreamOk, Now, NewLz
<1>11. Consistent(Now)'
  BY <1>1, <1>3, <1>4, <1>5, <1>6, <1>9, <1>10 DEF Going, Typed, Sound, Consistent, Now
<1>12. Placed(Now)'
  <2>1. PagesEnd(Now)' = PagesEnd(Now)
    BY <1>4 DEF PagesEnd, Now
  <2>2. QED
    BY <1>3, <1>4, <1>7, <1>8, <2>1 DEF Going, Typed, Placed, Now
<1>13. QED
  BY <1>11, <1>12 DEF Sound

LEMMA PumpTailSound ==
  ASSUME Going, PumpTail
  PROVE  StaysSound
<1>1. Typed'
  BY DEF Going, Typed, PumpTail, Stages
<1>2. stage = "Idle" /\ refsDone = section.count
      /\ UNCHANGED <<section, job, done, summed, lz, carried, refsDone, lastStart, firstRef>>
  BY DEF Going, PumpTail
<1>3. Blank(Now)'
  BY <1>2 DEF Going, Sound, Consistent, IdleOk, Blank, Now
<1>4. cursor' = section.size /\ stage' \in {"Idle", "Done"}
  BY DEF Going, Typed, PumpTail, Sound, Consistent, Now
<1>5. Consistent(Now)'
  <2>1. /\ refsDone' <= section'.count /\ firstRef' = (refsDone' = 0)
        /\ lastStart' % section'.maxPage = 0 /\ (firstRef' => lastStart' = 0)
        /\ cursor' <= section'.size
    <3>1. section.count \in Nat /\ section.size \in Nat
      BY DEF Going, Typed
    <3>2. firstRef = (refsDone = 0) /\ lastStart % section.maxPage = 0
          /\ (firstRef => lastStart = 0)
      BY DEF Going, Sound, Consistent, Now
    <3>3. QED
      BY <1>2, <1>4, <3>1, <3>2
  <2>2. CASE stage' = "Idle"
    BY <1>2, <1>3, <2>1, <2>2 DEF Consistent, Now, IdleOk
  <2>3. CASE stage' = "Done"
    BY <1>2, <1>3, <1>4, <2>1, <2>3 DEF Consistent, Now
  <2>4. QED
    BY <1>4, <2>2, <2>3
<1>6. PagesEnd(Now)' <= section.size
  <2>1. PagesEnd(Now)' = IF firstRef THEN 0 ELSE Least(lastStart + section.maxPage, section.size)
    BY <1>2 DEF PagesEnd, Now
  <2>2. lastStart + section.maxPage \in Nat /\ section.size \in Nat
    BY DEF Going, Typed
  <2>3. QED
    BY <2>1, <2>2, LeastFacts
<1>7. Placed(Now)'
  BY <1>2, <1>4, <1>6 DEF Placed, Now
<1>8. QED
  BY <1>1, <1>5, <1>7 DEF StaysSound, Sound

\* A page being decoded, seen from its fields.
LEMMA InDecode ==
  ASSUME Typed, Sound(Now), stage = "Decode"
  PROVE  /\ job.dataSum
         /\ Produced <= section.maxPage
         /\ PagesEnd(Now) \in Nat /\ PagesEnd(Now) <= cursor
         /\ StreamOk(Now) /\ KeptJobOk(Now) /\ KeptHeaderOk(Now)
         /\ summed = 0 /\ refsDone < section.count
<1>1. KeptProduced(Now) = Produced
  BY DEF KeptProduced, Produced, Now
<1>2. QED
  BY <1>1, PagesBehind DEF Sound, Consistent, Placed, Now, KeptJobOk

\* A demand asks for bytes of the page and of the source.
LEMMA ReadTypes ==
  ASSUME Typed, Sound(Now)
  PROVE  /\ Read.offset \in Nat /\ Read.len \in Nat
         /\ Read.len > 0 =>
              /\ Read.offset >= job.address
              /\ Read.offset + Read.len <= SourceLength
              /\ stage # "Header" => Read.offset + Read.len <= job.address + job.size
<1>1. job.address \in Nat /\ job.stored \in Nat /\ job.size \in Nat /\ done \in Nat
      /\ HeadBytes \in Nat
  BY Sizes DEF Typed
<1>2. CASE stage = "Header"
  <2>1. done < HeadBytes /\ job.address + HeadBytes <= SourceLength
    BY <1>2 DEF Sound, Consistent, KeptJobOk, Now
  <2>2. Read.offset = job.address + done /\ Read.len = HeadBytes - done
    BY <1>2 DEF Read
  <2>3. QED
    BY <1>1, <1>2, <2>1, <2>2
<1>3. ASSUME stage # "Header", NEW most \in Nat, most <= job.stored - done,
             HeadBytes + job.stored <= job.size,
             job.address + HeadBytes + job.stored <= SourceLength
      PROVE  /\ BodyRead(most).offset \in Nat /\ BodyRead(most).len = most
             /\ BodyRead(most).offset >= job.address
             /\ BodyRead(most).offset + BodyRead(most).len <= SourceLength
             /\ BodyRead(most).offset + BodyRead(most).len <= job.address + job.size
  <2>1. BodyRead(most).offset = job.address + HeadBytes + done /\ BodyRead(most).len = most
    BY DEF BodyRead
  <2>2. QED
    BY <1>1, <1>3, <2>1, Sizes
<1>4. ASSUME stage \in {"Check", "Decode"}
      PROVE  HeadBytes + job.stored <= job.size
             /\ job.address + HeadBytes + job.stored <= SourceLength
  BY <1>4 DEF Sound, Consistent, KeptHeaderOk, Now
<1>5. CASE stage = "Check"
  <2>1. done <= job.stored
    BY <1>5 DEF Sound, Consistent, Now
  <2>2. job.stored - done \in Nat
    BY <1>1, <2>1
  <2>3. Least(job.stored - done, ChunkBytes) \in Nat
        /\ Least(job.stored - done, ChunkBytes) <= job.stored - done
    BY <2>2, Sizes, LeastFacts
  <2>4. Read = BodyRead(Least(job.stored - done, ChunkBytes))
    BY <1>5 DEF Read
  <2>5. QED
    BY <1>3, <1>4, <1>5, <2>3, <2>4
<1>6. CASE stage = "Decode" /\ ~HasHole /\ ~section.packed
  <2>1. done <= Wanted /\ Wanted \in Nat /\ Wanted <= job.stored
    BY <1>6, Spot, InDecode DEF StreamOk, Wanted, Room, Now
  <2>2. Wanted - done \in Nat /\ Wanted - done <= job.stored - done
    BY <1>1, <2>1
  <2>3. Least(Wanted - done, OutBytes) \in Nat
        /\ Least(Wanted - done, OutBytes) <= Wanted - done
    BY <2>2, Sizes, LeastFacts
  <2>4. Least(Wanted - done, OutBytes) <= job.stored - done
    BY <1>1, <2>2, <2>3
  <2>5. Read = BodyRead(Least(Wanted - done, OutBytes))
    BY <1>6 DEF Read
  <2>6. QED
    BY <1>3, <1>4, <1>6, <2>3, <2>4, <2>5
<1>7. CASE stage = "Decode" /\ ~HasHole /\ section.packed /\ NeedsInput
  <2>1. done <= job.stored
    BY <1>1, <1>7 DEF NeedsInput
  <2>2. job.stored - done \in Nat
    BY <1>1, <2>1
  <2>3. Least(job.stored - done, CarryBytes) \in Nat
        /\ Least(job.stored - done, CarryBytes) <= job.stored - done
    BY <2>2, Sizes, LeastFacts
  <2>4. Read = BodyRead(Least(job.stored - done, CarryBytes))
    BY <1>7 DEF Read
  <2>5. QED
    BY <1>3, <1>4, <1>7, <2>3, <2>4
<1>8. CASE Read = NoRead
  BY <1>8 DEF NoRead
<1>9. QED
  BY <1>2, <1>5, <1>6, <1>7, <1>8 DEF Read

LEMMA PumpHoleSound ==
  ASSUME Going, PumpHole
  PROVE  StaysSound
<1>1. Typed'
  BY Spot DEF Going, Typed, PumpHole
<1>2. stage = "Decode" /\ stage' = "Decode" /\ cursor' = HoleEnd /\ Produced = 0
      /\ cursor < HoleEnd
  BY DEF PumpHole, HasHole
<1>3. UNCHANGED <<section, job, done, summed, lz, carried, refsDone, lastStart, firstRef>>
  BY DEF Going, PumpHole
<1>4. KeptProduced(Now)' = Produced
  BY <1>3 DEF KeptProduced, Produced, Now
<1>5. CursorOk(Now)'
  <2>1. job.start \in Nat /\ section.size \in Nat
    BY DEF Going, Typed
  <2>2. Least(job.start + 0, section.size) = HoleEnd /\ HoleEnd \in Nat
    BY <2>1, Spot DEF Going, HoleEnd
  <2>3. QED
    BY <1>2, <1>3, <1>4, <2>2 DEF CursorOk, Now
<1>6. StreamOk(Now)' /\ KeptJobOk(Now)' /\ KeptHeaderOk(Now)'
  BY <1>2, <1>3, InDecode DEF Going, StreamOk, KeptJobOk, KeptHeaderOk, Now
<1>7. cursor' <= section.size
  BY <1>2, Spot DEF Going
<1>8. Consistent(Now)'
  BY <1>2, <1>3, <1>5, <1>6, <1>7 DEF Going, Sound, Consistent, Now
<1>9. Placed(Now)'
  <2>1. PagesEnd(Now)' = PagesEnd(Now)
    BY <1>3 DEF PagesEnd, Now
  <2>2. job.dataSum /\ Produced <= section.maxPage
        /\ PagesEnd(Now) \in Nat /\ PagesEnd(Now) <= cursor
    BY <1>2, InDecode DEF Going
  <2>3. PagesEnd(Now) <= HoleEnd
    BY <1>2, PagesBehind DEF Going
  <2>4. QED
    BY <1>2, <1>3, <1>4, <2>1, <2>2, <2>3 DEF Placed, Now
<1>10. QED
  BY <1>1, <1>8, <1>9 DEF StaysSound, Sound

\* A walk that goes on decoding the same page, further in.
LEMMA DecodesOn ==
  ASSUME Going, stage = "Decode", stage' = "Decode", Typed',
         UNCHANGED <<job, summed, refsDone, lastStart, firstRef>>,
         Produced' <= section.maxPage,
         StreamOk(Now)', CursorOk(Now)',
         cursor <= cursor', cursor' <= section.size, carried' <= CarryBytes
  PROVE  Sound(Now)'
<1>1. KeptJobOk(Now) /\ KeptHeaderOk(Now) /\ summed = 0 /\ job.dataSum
      /\ PagesEnd(Now) \in Nat /\ PagesEnd(Now) <= cursor
  BY InDecode DEF Going
<1>2. KeptJobOk(Now)' /\ KeptHeaderOk(Now)'
  BY <1>1 DEF Going, KeptJobOk, KeptHeaderOk, Now
<1>3. Consistent(Now)'
  BY <1>1, <1>2 DEF Going, Sound, Consistent, Now
<1>4. KeptProduced(Now)' = Produced' /\ PagesEnd(Now)' = PagesEnd(Now)
  BY DEF Going, KeptProduced, Produced, PagesEnd, Now
<1>5. cursor \in Nat /\ cursor' \in Nat
  BY DEF Going, Typed
<1>6. Placed(Now)'
  BY <1>1, <1>4, <1>5 DEF Going, Placed, Now
<1>7. QED
  BY <1>3, <1>6 DEF Sound

LEMMA FeedStoredSound ==
  ASSUME Going, NEW n \in Nat, n <= Read.len, FeedStored(n)
  PROVE  StaysSound /\ cursor = job.start + done
<1>1. stage = "Decode" /\ stage' = "Decode" /\ ~section.packed /\ ~HasHole
      /\ done < Wanted /\ done' = done + n /\ cursor' = job.start + done + n
  BY DEF FeedStored
<1>2. UNCHANGED <<section, job, summed, lz, carried, refsDone, lastStart, firstRef, failure>>
  BY DEF Going, FeedStored
<1>3. done \in Nat /\ job.start \in Nat /\ section.size \in Nat /\ job.stored \in Nat
      /\ carried \in Nat /\ section.maxPage \in Nat
  BY DEF Going, Typed
<1>4. Typed'
  <2>1. done' \in Nat /\ cursor' \in Nat
    BY <1>1, <1>3
  <2>2. QED
    BY <1>1, <1>2, <2>1 DEF Going, Typed
<1>5. done + n <= Wanted
  <2>1. Wanted - done \in Nat
    BY <1>1, <1>3, Spot DEF Going
  <2>2. Read.len = Least(Wanted - done, OutBytes)
    BY <1>1 DEF Read, BodyRead
  <2>3. Least(Wanted - done, OutBytes) <= Wanted - done
        /\ Least(Wanted - done, OutBytes) \in Nat
    BY <2>1, Sizes, LeastFacts
  <2>4. QED
    BY <1>3, <2>1, <2>2, <2>3, Spot DEF Going
<1>6. Wanted \in Nat /\ job.start + Wanted <= section.size /\ Wanted <= job.stored
  BY <1>1, <1>3, Spot DEF Going
<1>7. Produced = done /\ Produced' = done'
  BY <1>1, <1>2 DEF Produced
<1>8. cursor = job.start + done
  <2>1. cursor \in {job.start + done, section.size} /\ cursor <= job.start + done
    BY <1>1, <1>7, InPlace DEF Going
  <2>2. QED
    BY <1>1, <1>3, <1>6, <2>1
<1>9. CursorOk(Now)'
  <2>1. KeptProduced(Now)' = done'
    BY <1>1, <1>2 DEF KeptProduced, Now
  <2>2. job.start + done' \in Nat /\ job.start + done' <= section.size
        /\ cursor' = job.start + done'
    BY <1>1, <1>3, <1>5, <1>6
  <2>3. Least(job.start + done', section.size) = job.start + done'
    BY <1>3, <2>2 DEF Least
  <2>4. QED
    BY <1>2, <2>1, <2>2, <2>3 DEF CursorOk, Now
<1>10. carried = 0
  BY <1>1, InDecode DEF Going, StreamOk, Now
<1>11. StreamOk(Now)'
  <2>1. done' <= Wanted
    BY <1>1, <1>5
  <2>2. QED
    BY <1>1, <1>2, <1>10, <2>1 DEF StreamOk, Wanted, Room, Now
<1>12. Produced' <= section.maxPage
  <2>1. job.stored <= section.maxPage
    BY <1>1, InDecode DEF Going, KeptHeaderOk, Now
  <2>2. QED
    BY <1>1, <1>3, <1>5, <1>6, <1>7, <2>1
<1>13. cursor <= cursor' /\ cursor' <= section.size
  BY <1>1, <1>3, <1>5, <1>6, <1>8
<1>14. Sound(Now)'
  BY <1>1, <1>2, <1>4, <1>9, <1>10, <1>11, <1>12, <1>13, Sizes, DecodesOn
<1>15. QED
  BY <1>4, <1>8, <1>14 DEF StaysSound

\* A page all of whose section bytes are handed out ends the walk's span
\* where the page was placed to end.
LEMMA FinishPageSound ==
  ASSUME Going, stage = "Decode", ~HasHole, lz' \in LzType,
         NEW produced \in Nat, produced = Produced \/ Produced >= Room,
         FinishPage(produced)
  PROVE  StaysSound
<1>1. section.size \in Nat /\ section.maxPage \in Nat \ {0} /\ job.start \in Nat
      /\ cursor \in Nat /\ refsDone \in Nat
  BY DEF Going, Typed
<1>2. NoJob \in JobType /\ "Idle" \in Stages
  BY DEF NoJob, Stages
<1>3. Typed'
  <2>1. refsDone + 1 \in Nat
    BY <1>1
  <2>2. CASE PageWhole(produced) /\ refsDone' = refsDone + 1 /\ lastStart' = job.start
             /\ firstRef' = FALSE /\ stage' = "Idle" /\ job' = NoJob /\ done' = 0
             /\ carried' = 0 /\ UNCHANGED <<summed, cursor>>
    BY <1>1, <1>2, <2>1, <2>2 DEF Going, Typed
  <2>3. CASE UNCHANGED <<stage, job, done, summed, carried, cursor, refsDone, lastStart,
                         firstRef>>
    BY <2>3 DEF Going, Typed
  <2>4. QED
    BY <2>2, <2>3 DEF FinishPage
<1>4. SUFFICES ASSUME ~failure' PROVE Sound(Now)'
  BY <1>3 DEF StaysSound
<1>5. PageWhole(produced) /\ refsDone' = refsDone + 1 /\ lastStart' = job.start
      /\ firstRef' = FALSE /\ stage' = "Idle" /\ job' = NoJob /\ done' = 0 /\ carried' = 0
      /\ summed' = summed /\ cursor' = cursor /\ section' = section
  BY <1>4 DEF Going, FinishPage, Fail
<1>6. summed = 0 /\ refsDone < section.count /\ job.start % section.maxPage = 0
      /\ Produced <= section.maxPage
  BY InDecode DEF Going, KeptJobOk, Now
<1>7. Room \in Nat /\ Produced \in Nat
      /\ Room = IF section.size > job.start THEN section.size - job.start ELSE 0
  BY Spot DEF Going
<1>8. cursor \in {job.start + Produced, section.size}
      /\ cursor <= job.start + Produced /\ cursor <= section.size
  BY InPlace DEF Going
<1>9. produced >= Least(Room, section.maxPage)
  BY <1>5 DEF PageWhole
<1>10. cursor = Least(job.start + section.maxPage, section.size)
  <2>1. CASE Produced >= Room
    <3>1. cursor = section.size
      BY <1>1, <1>7, <1>8, <2>1
    <3>2. section.size <= job.start + section.maxPage
      BY <1>1, <1>6, <1>7, <2>1
    <3>3. QED
      BY <1>1, <3>1, <3>2 DEF Least
  <2>2. CASE Produced < Room
    <3>1. produced = Produced
      BY <1>7, <2>2
    <3>2. Produced = section.maxPage
      BY <1>1, <1>6, <1>7, <1>9, <2>2, <3>1 DEF Least
    <3>3. job.start + section.maxPage < section.size
      BY <1>1, <1>7, <2>2, <3>2
    <3>4. QED
      BY <1>1, <1>8, <3>2, <3>3 DEF Least
  <2>3. QED
    BY <1>7, <2>1, <2>2
<1>11. Consistent(Now)'
  <2>1. Blank(Now)'
    BY <1>5, <1>6 DEF Blank, Now
  <2>2. refsDone + 1 <= section.count /\ refsDone + 1 > 0
    BY <1>1, <1>6 DEF Going, Typed
  <2>3. IdleOk(Now)'
    BY <1>5, <2>1, <2>2 DEF IdleOk, Now
  <2>4. firstRef' = (refsDone' = 0)
    <3>1. refsDone' # 0
      BY <1>1, <1>5
    <3>2. (refsDone' = 0) = FALSE
      BY <3>1
    <3>3. QED
      BY <1>5, <3>2, Zenon
  <2>5. QED
    BY <1>5, <1>6, <1>8, <2>2, <2>3, <2>4 DEF Consistent, Now
<1>12. Placed(Now)'
  BY <1>5, <1>10 DEF Placed, PagesEnd, Now
<1>13. QED
  BY <1>11, <1>12 DEF Sound

LEMMA PumpStoredEndSound ==
  ASSUME Going, PumpStoredEnd
  PROVE  StaysSound
<1>1. stage = "Decode" /\ ~section.packed /\ ~HasHole /\ done = Wanted
      /\ FinishPage(job.stored) /\ lz' = lz
  BY DEF PumpStoredEnd
<1>2. job.stored \in Nat /\ lz' \in LzType
  BY <1>1 DEF Going, Typed
<1>3. Produced = done
  BY <1>1 DEF Produced
<1>4. job.stored = Produced \/ Produced >= Room
  BY <1>1, <1>3, Spot DEF Going
<1>5. QED
  BY <1>1, <1>2, <1>4, FinishPageSound

\* The bytes that follow those handed out, or none.
GivesNext ==
  \E n \in Nat \ {0} :
    /\ step' = Span("Data", cursor, n)
    /\ cursor' = cursor + n /\ cursor' <= section.size
    /\ stage' = "Decode" /\ ~failure'

GivesNothing ==
  /\ step' \in {Quiet(kind) : kind \in {"Framing", "Page", "PageEnd", "Failed"}}
  /\ cursor' = cursor

LEMMA FinishGivesNothing ==
  ASSUME NEW produced, FinishPage(produced)
  PROVE  GivesNothing
BY DEF FinishPage, Fail, GivesNothing

\* One call of the decoder stays within the page.
LEMMA DecodeSound ==
  ASSUME Going, stage = "Decode", section.packed, ~HasHole,
         NEW given \in Nat, NEW taken \in Nat,
         given = carried + taken, given <= CarryBytes, done + taken <= job.stored,
         Decode(given, taken)
  PROVE  StaysSound /\ (GivesNext \/ GivesNothing)
<1>1. section.size \in Nat /\ job.start \in Nat /\ job.stored \in Nat /\ done \in Nat
      /\ lz.consumed \in Nat /\ lz.produced \in Nat /\ carried \in Nat /\ cursor \in Nat
      /\ section.maxPage \in Nat
  BY DEF Going, Typed
<1>2. Produced = lz.produced
  BY DEF Produced
<1>3. cursor \in {job.start + lz.produced, section.size}
      /\ cursor <= job.start + lz.produced /\ cursor <= section.size
  BY <1>2, InPlace DEF Going
<1>4. Room \in Nat /\ Room = IF section.size > job.start THEN section.size - job.start ELSE 0
  BY Spot DEF Going
<1>5. lz.consumed + carried = done
  BY InDecode DEF Going, StreamOk, Now
<1>6. ASSUME failure' = TRUE, step' = Quiet("Failed"), lz' \in LzType,
             UNCHANGED <<stage, job, done, summed, carried, cursor, refsDone, lastStart,
                         firstRef>>
      PROVE  StaysSound /\ GivesNothing
  BY <1>6 DEF Going, StaysSound, Typed, GivesNothing
<1>7. ASSUME NEW c \in LzCalls(given),
             lz' = [consumed |-> lz.consumed + c.consumed,
                    produced |-> lz.produced + c.produced, mode |-> c.mode]
      PROVE  /\ c.consumed \in Nat /\ c.produced \in Nat /\ c.consumed <= given
             /\ lz.produced + c.produced <= section.maxPage
             /\ lz' \in LzType
  <2>1. c.consumed \in 0..given /\ c.produced \in 0..OutBytes
        /\ c.mode \in {"reading", "copying", "done"}
        /\ lz.produced + c.produced <= Least(job.yields, section.maxPage)
    BY DEF LzCalls
  <2>2. c.consumed \in Nat /\ c.produced \in Nat /\ c.consumed <= given
    BY <2>1, Sizes
  <2>3. job.yields \in Nat
    BY DEF Going, Typed
  <2>4. lz.produced + c.produced <= section.maxPage
    BY <1>1, <2>1, <2>2, <2>3 DEF Least
  <2>5. QED
    BY <1>1, <2>1, <2>2, <2>4, <1>7
<1>8. ASSUME NEW c \in LzCalls(given),
             lz' = [consumed |-> lz.consumed + c.consumed,
                    produced |-> lz.produced + c.produced, mode |-> c.mode],
             carried' = given - c.consumed, done' = done + taken,
             UNCHANGED <<stage, job, summed, refsDone, lastStart, firstRef, failure>>
      PROVE  (cursor' \in Nat => Typed') /\ StreamOk(Now)' /\ carried' <= CarryBytes
             /\ Produced' = lz.produced + c.produced /\ Produced' <= section.maxPage
  <2>1. c.consumed \in Nat /\ c.produced \in Nat /\ c.consumed <= given
        /\ lz.produced + c.produced <= section.maxPage /\ lz' \in LzType
    BY <1>7, <1>8
  <2>2. carried' \in Nat /\ done' \in Nat /\ carried' <= CarryBytes
    BY <1>1, <1>8, <2>1, Sizes
  <2>3. section' = section
    BY DEF Going
  <2>4. cursor' \in Nat => Typed'
    BY <1>8, <2>1, <2>2, <2>3 DEF Going, Typed
  <2>5. lz'.consumed + carried' = done'
    BY <1>1, <1>5, <1>8, <2>1
  <2>6. StreamOk(Now)'
    BY <1>8, <2>3, <2>5 DEF StreamOk, Now
  <2>7. Produced' = lz.produced + c.produced
    BY <1>8, <2>3 DEF Produced
  <2>8. QED
    BY <2>1, <2>2, <2>4, <2>6, <2>7
<1>9. ASSUME LzFails(given), Fail,
             UNCHANGED <<stage, job, done, summed, lz, carried, cursor, refsDone, lastStart,
                         firstRef>>
      PROVE  StaysSound /\ GivesNothing
  <2>1. lz' \in LzType
    BY <1>9 DEF Going, Typed
  <2>2. QED
    BY <1>6, <1>9, <2>1 DEF Fail
<1>10. ASSUME NEW c \in LzCalls(given),
              lz' = [consumed |-> lz.consumed + c.consumed,
                     produced |-> lz.produced + c.produced, mode |-> c.mode],
              NEW keep, keep = Least(Minus(Room, lz.produced), c.produced)
       PROVE  /\ keep \in Nat /\ keep <= c.produced
              /\ keep > 0 => lz.produced < Room /\ keep <= Room - lz.produced
              /\ keep \in {Room - lz.produced, c.produced, 0}
              /\ keep = 0 => c.produced = 0 \/ lz.produced >= Room
  <2>1. c.produced \in Nat
    BY <1>7, <1>10
  <2>2. QED
    BY <1>1, <1>4, <1>10, <2>1 DEF Least, Minus
<1>11. ASSUME NEW c \in LzCalls(given),
              lz' = [consumed |-> lz.consumed + c.consumed,
                     produced |-> lz.produced + c.produced, mode |-> c.mode],
              NEW keep, keep = Least(Minus(Room, lz.produced), c.produced), keep > 0,
              carried' = given - c.consumed, done' = done + taken,
              cursor' = job.start + lz.produced + keep,
              step' = Span("Data", job.start + lz.produced, keep),
              UNCHANGED <<stage, job, summed, refsDone, lastStart, firstRef, failure>>
       PROVE  StaysSound /\ GivesNext
  <2>1. keep \in Nat /\ keep <= c.produced /\ c.produced \in Nat
        /\ lz.produced < Room /\ keep <= Room - lz.produced
        /\ keep \in {Room - lz.produced, c.produced}
    BY <1>7, <1>10, <1>11
  <2>2. cursor = job.start + lz.produced
    BY <1>1, <1>3, <1>4, <2>1
  <2>3. cursor' = cursor + keep /\ cursor' <= section.size /\ cursor' \in Nat
    BY <1>1, <1>4, <1>11, <2>1, <2>2
  <2>4. Typed' /\ StreamOk(Now)' /\ carried' <= CarryBytes
        /\ Produced' = lz.produced + c.produced /\ Produced' <= section.maxPage
    BY <1>8, <1>11, <2>3
  <2>5. CursorOk(Now)'
    <3>1. KeptProduced(Now)' = Produced'
      BY <1>11 DEF Going, KeptProduced, Produced, Now
    <3>2. job.start + Produced' \in Nat
      BY <1>1, <2>1, <2>4
    <3>3. cursor' = Least(job.start + Produced', section.size)
      BY <1>1, <1>4, <1>11, <2>1, <2>4, <3>2 DEF Least
    <3>4. Produced' # 0
      BY <1>1, <1>11, <2>1, <2>4
    <3>5. QED
      BY <1>11, <3>1, <3>3, <3>4 DEF Going, CursorOk, Now
  <2>6. Sound(Now)'
    <3>1. cursor <= cursor'
      BY <1>1, <2>1, <2>3
    <3>2. stage' = "Decode"
      BY <1>11
    <3>3. QED
      BY <1>11, <2>3, <2>4, <2>5, <3>1, <3>2, DecodesOn
  <2>7. GivesNext
    BY <1>11, <2>1, <2>2, <2>3 DEF Going, GivesNext
  <2>8. QED
    BY <2>4, <2>6, <2>7 DEF StaysSound
<1>12. ASSUME NEW c \in LzCalls(given),
              lz' = [consumed |-> lz.consumed + c.consumed,
                     produced |-> lz.produced + c.produced, mode |-> c.mode],
              Least(Minus(Room, lz.produced), c.produced) = 0,
              FinishPage(lz.produced + c.produced)
       PROVE  StaysSound /\ GivesNothing
  <2>1. c.produced \in Nat /\ lz' \in LzType
    BY <1>7, <1>12
  <2>2. c.produced = 0 \/ lz.produced >= Room
    BY <1>10, <1>12
  <2>3. lz.produced + c.produced \in Nat
    BY <1>1, <2>1
  <2>4. lz.produced + c.produced = Produced \/ Produced >= Room
    BY <1>1, <1>2, <2>1, <2>2
  <2>5. QED
    BY <1>12, <2>1, <2>3, <2>4, FinishPageSound, FinishGivesNothing
<1>13. ASSUME NEW c \in LzCalls(given),
              lz' = [consumed |-> lz.consumed + c.consumed,
                     produced |-> lz.produced + c.produced, mode |-> c.mode],
              Least(Minus(Room, lz.produced), c.produced) = 0,
              carried' = given - c.consumed, done' = done + taken,
              step' = Quiet("Framing"),
              UNCHANGED <<stage, job, summed, cursor, refsDone, lastStart, firstRef, failure>>
       PROVE  StaysSound /\ GivesNothing
  <2>1. c.produced \in Nat
    BY <1>7, <1>13
  <2>2. c.produced = 0 \/ lz.produced >= Room
    BY <1>10, <1>13
  <2>3. Typed' /\ StreamOk(Now)' /\ carried' <= CarryBytes
        /\ Produced' = lz.produced + c.produced /\ Produced' <= section.maxPage
    BY <1>1, <1>8, <1>13
  <2>4. CursorOk(Now)'
    <3>1. KeptProduced(Now)' = Produced'
      BY <1>13 DEF Going, KeptProduced, Produced, Now
    <3>2. job.start + Produced' \in Nat
      BY <1>1, <2>1, <2>3
    <3>3. cursor = Least(job.start + Produced', section.size)
      BY <1>1, <1>3, <1>4, <2>1, <2>2, <2>3, <3>2 DEF Least
    <3>4. QED
      BY <1>13, <3>1, <3>2, <3>3, LeastFacts, <1>1 DEF Going, CursorOk, Now
  <2>5. Sound(Now)'
    <3>1. cursor <= cursor' /\ cursor' <= section.size
      BY <1>1, <1>3, <1>13
    <3>2. stage' = "Decode"
      BY <1>13
    <3>3. QED
      BY <1>13, <2>3, <2>4, <3>1, <3>2, DecodesOn
  <2>6. QED
    BY <1>13, <2>3, <2>5 DEF StaysSound, GivesNothing
<1>14. ASSUME NEW c \in LzCalls(given),
              lz' = [consumed |-> lz.consumed + c.consumed,
                     produced |-> lz.produced + c.produced, mode |-> c.mode],
              Fail,
              UNCHANGED <<stage, job, done, summed, carried, cursor, refsDone, lastStart,
                          firstRef>>
       PROVE  StaysSound /\ GivesNothing
  BY <1>6, <1>7, <1>14 DEF Fail
<1>15. QED
  BY <1>9, <1>11, <1>12, <1>13, <1>14 DEF Decode

\* What the carry holds never exceeds it, and never runs past the page.
LEMMA FeedPackedSound ==
  ASSUME Going, NEW n \in Nat, n <= Read.len, FeedPacked(n)
  PROVE  StaysSound /\ (GivesNext \/ GivesNothing)
<1>1. stage = "Decode" /\ section.packed /\ ~HasHole /\ NeedsInput /\ Decode(n, n)
  BY DEF FeedPacked
<1>2. carried = 0 /\ done < job.stored /\ done \in Nat /\ job.stored \in Nat
  BY <1>1 DEF Going, Typed, NeedsInput
<1>3. Read.len = Least(job.stored - done, CarryBytes)
  BY <1>1 DEF Read, BodyRead
<1>4. job.stored - done \in Nat
  BY <1>2
<1>5. Least(job.stored - done, CarryBytes) \in Nat
      /\ Least(job.stored - done, CarryBytes) <= job.stored - done
      /\ Least(job.stored - done, CarryBytes) <= CarryBytes
  BY <1>4, Sizes, LeastFacts
<1>6. n = carried + n /\ n <= CarryBytes /\ done + n <= job.stored
  BY <1>2, <1>3, <1>4, <1>5, Sizes
<1>7. QED
  BY <1>1, <1>6, DecodeSound

LEMMA PumpPackedSound ==
  ASSUME Going, PumpPacked
  PROVE  StaysSound /\ (GivesNext \/ GivesNothing)
<1>1. stage = "Decode" /\ section.packed /\ ~HasHole /\ Decode(carried, 0)
  BY DEF PumpPacked
<1>2. carried \in Nat /\ done \in Nat /\ job.stored \in Nat
  BY DEF Going, Typed
<1>3. carried <= CarryBytes /\ done <= job.stored
  BY <1>1, InDecode DEF Going, KeptJobOk, StreamOk, Now
<1>4. carried = carried + 0 /\ done + 0 <= job.stored
  BY <1>2, <1>3
<1>5. QED
  BY <1>1, <1>2, <1>3, <1>4, DecodeSound

----------------------------------------------------------------------------
(* The invariant. *)

\* The saved state does not change with the walk.
LEMMA KeptSame ==
  ASSUME Sound(kept), UNCHANGED <<section, kept>>
  PROVE  Sound(kept)'
BY DEF Sound, Consistent, Placed, PagesEnd, KeptProduced, KeptJobOk, KeptHeaderOk, CursorOk,
   StreamOk, IdleOk, Blank

LEMMA InitSound == Init => WalkInv
<1> SUFFICES ASSUME Init PROVE WalkInv
  OBVIOUS
<1>1. section \in SectionType
  BY SectionsAssumption DEF Init
<1>2. Now \in NowType
  BY DEF Init, Now, NowType, Stages, NoJob, NewLz
<1>3. WalkTypes
  <2>1. step.offset = 0 /\ step.len = 0 /\ kept = Now /\ failure = FALSE /\ restarts = 0
    BY DEF Init, Quiet
  <2>2. 0 \in 0..MaxRestarts
    BY Sizes
  <2>3. QED
    <3>1. failure \in BOOLEAN
      BY <2>1, Zenon
    <3>2. kept \in NowType
      BY <1>2, <2>1
    <3>3. step.offset \in Nat /\ step.len \in Nat /\ restarts \in 0..MaxRestarts
      BY <2>1, <2>2
    <3>4. QED
      BY <1>1, <1>2, <3>1, <3>2, <3>3 DEF WalkTypes
<1>4. Consistent(Now)
  <2>1. firstRef = (refsDone = 0)
    <3>1. (refsDone = 0) = TRUE /\ firstRef = TRUE
      BY DEF Init
    <3>2. QED
      BY <3>1, Zenon
  <2>2. section.maxPage \in Nat \ {0} /\ section.count \in Nat /\ section.size \in Nat
    BY <1>1
  <2>3. 0 % section.maxPage = 0
    BY <2>2
  <2>4. IdleOk(Now)
    BY DEF Init, IdleOk, Blank, Now
  <2>5. /\ stage = "Idle" /\ refsDone <= section.count /\ lastStart % section.maxPage = 0
        /\ lastStart = 0 /\ cursor <= section.size
    BY <2>2, <2>3 DEF Init
  <2>6. QED
    BY <2>1, <2>4, <2>5 DEF Consistent, Now
<1>5. Placed(Now)
  BY DEF Init, Placed, PagesEnd, Now
<1>6. kept = Now /\ step.kind # "Data"
  BY DEF Init, Quiet
<1>7. QED
  BY <1>3, <1>4, <1>5, <1>6 DEF WalkInv, Sound

\* What each call gives, in the terms of SectionAssembly.
Gives ==
  \/ \E kind \in {"Data", "Hole"}, n \in Nat \ {0} :
       /\ step' = Span(kind, cursor, n)
       /\ cursor' = cursor + n /\ cursor' <= section.size
       /\ kind = "Data" => stage' = "Decode" /\ ~failure'
  \/ GivesNothing
  \/ /\ step' = Quiet("Finished")
     /\ cursor = section.size /\ cursor' = cursor

LEMMA OfferSteps ==
  ASSUME Going, NEW j \in Jobs, BeginPage(j)
  PROVE  StaysSound /\ Gives
<1>1. GivesNothing
  BY DEF BeginPage, GivesNothing
<1>2. QED
  BY <1>1, BeginPageSound DEF Gives

LEMMA FeedSteps ==
  ASSUME Going, NEW n \in Nat \ {0}, n <= Read.len, Feed(n)
  PROVE  StaysSound /\ Gives
<1>1. CASE FeedHeader(n)
  BY <1>1, FeedHeaderSound DEF Gives, GivesNothing, FeedHeader
<1>2. CASE FeedHeaderLast(n)
  BY <1>2, FeedHeaderLastSound DEF Gives, GivesNothing, FeedHeaderLast, Fail
<1>3. CASE FeedCheck(n)
  BY <1>3, FeedCheckSound DEF Gives, GivesNothing, FeedCheck
<1>4. CASE FeedStored(n)
  <2>1. StaysSound /\ cursor = job.start + done
    BY <1>4, FeedStoredSound
  <2>2. step' = Span("Data", cursor, n) /\ cursor' = cursor + n
        /\ stage' = "Decode" /\ ~failure'
    BY <1>4, <2>1 DEF Going, FeedStored
  <2>3. cursor' <= section.size
    BY <2>1, <2>2 DEF Going, StaysSound, Sound, Consistent, Now
  <2>4. QED
    BY <2>1, <2>2, <2>3 DEF Gives
<1>5. CASE FeedPacked(n)
  <2>1. StaysSound /\ (GivesNext \/ GivesNothing)
    BY <1>5, FeedPackedSound
  <2>2. QED
    BY <2>1 DEF Gives, GivesNext
<1>6. QED
  BY <1>1, <1>2, <1>3, <1>4, <1>5 DEF Feed

LEMMA PumpSteps ==
  ASSUME Going, Pump
  PROVE  StaysSound /\ Gives
<1>0. cursor \in Nat /\ section.size \in Nat /\ cursor <= section.size
  BY DEF Going, Typed, Sound, Consistent, Now
<1>1. CASE PumpChecked
  BY <1>1, PumpCheckedSound DEF Gives, GivesNothing, PumpChecked, Fail
<1>2. CASE PumpHole
  <2>1. HoleEnd \in Nat /\ HoleEnd <= section.size /\ cursor < HoleEnd
    BY <1>2, Spot DEF Going, PumpHole, HasHole
  <2>2. HoleEnd - cursor \in Nat \ {0} /\ cursor + (HoleEnd - cursor) = HoleEnd
    BY <1>0, <2>1
  <2>3. step' = Span("Hole", cursor, HoleEnd - cursor) /\ cursor' = HoleEnd
    BY <1>2 DEF PumpHole
  <2>4. QED
    BY <1>2, <2>1, <2>2, <2>3, PumpHoleSound DEF Gives
<1>3. CASE PumpStoredEnd
  BY <1>3, PumpStoredEndSound, FinishGivesNothing DEF Gives, PumpStoredEnd
<1>4. CASE PumpPacked
  <2>1. StaysSound /\ (GivesNext \/ GivesNothing)
    BY <1>4, PumpPackedSound
  <2>2. QED
    BY <2>1 DEF Gives, GivesNext
<1>5. CASE PumpTail
  <2>1. CASE cursor < section.size
    <3>1. section.size - cursor \in Nat \ {0}
          /\ cursor + (section.size - cursor) = section.size
      BY <1>0, <2>1
    <3>2. step' = Span("Hole", cursor, section.size - cursor) /\ cursor' = section.size
      BY <1>0, <1>5, <2>1 DEF PumpTail
    <3>3. QED
      BY <1>0, <1>5, <3>1, <3>2, PumpTailSound DEF Gives
  <2>2. CASE cursor = section.size
    BY <1>0, <1>5, <2>2, PumpTailSound DEF Gives, PumpTail
  <2>3. QED
    BY <1>0, <2>1, <2>2
<1>6. QED
  BY <1>1, <1>2, <1>3, <1>4, <1>5 DEF Pump

\* A restored walk is sound: its decoder matters only inside a packed page.
LEMMA RestartSound ==
  ASSUME Sound(kept), kept \in NowType, section \in SectionType, section' = section, Restart
  PROVE  Typed' /\ Sound(Now)' /\ cursor' \in 0..section.size
<1>1. lz' = KeptLz /\ KeptLz \in LzType
  BY DEF Restart, KeptLz, NewLz, NowType
<1>2. Typed'
  BY <1>1 DEF Restart, Typed, NowType
<1>3. Now' = [kept EXCEPT !.lz = KeptLz]
  BY <1>1 DEF Restart, Now, NowType
<1> DEFINE k == [kept EXCEPT !.lz = KeptLz]
<1>4. /\ k.stage = kept.stage /\ k.job = kept.job /\ k.done = kept.done
      /\ k.summed = kept.summed /\ k.carried = kept.carried /\ k.cursor = kept.cursor
      /\ k.refsDone = kept.refsDone /\ k.lastStart = kept.lastStart
      /\ k.firstRef = kept.firstRef
      /\ (kept.stage = "Decode" /\ section.packed => k.lz = kept.lz)
  BY DEF NowType, KeptLz
<1> HIDE DEF k
<1>5. Consistent(k)
  <2>1. (Blank(k) <=> Blank(kept))
    BY <1>4 DEF Blank
  <2>2. (IdleOk(k) <=> IdleOk(kept)) /\ (KeptJobOk(k) <=> KeptJobOk(kept))
        /\ (KeptHeaderOk(k) <=> KeptHeaderOk(kept))
    BY <1>4, <2>1 DEF IdleOk, KeptJobOk, KeptHeaderOk
  <2>3. kept.stage = "Decode" => (CursorOk(k) <=> CursorOk(kept)) /\ (StreamOk(k) <=> StreamOk(kept))
    BY <1>4 DEF CursorOk, StreamOk, KeptProduced
  <2>4. kept.stage \in Stages /\ Consistent(kept)
    BY DEF NowType, Sound
  <2>5. /\ k.refsDone <= section.count /\ k.firstRef = (k.refsDone = 0)
        /\ k.lastStart % section.maxPage = 0 /\ (k.firstRef => k.lastStart = 0)
        /\ k.cursor <= section.size
    BY <1>4, <2>4 DEF Consistent
  <2>6. CASE kept.stage = "Idle"
    BY <1>4, <2>2, <2>4, <2>5, <2>6 DEF Consistent
  <2>7. CASE kept.stage = "Done"
    BY <1>4, <2>1, <2>4, <2>5, <2>7 DEF Consistent
  <2>8. CASE kept.stage = "Header"
    BY <1>4, <2>2, <2>4, <2>5, <2>8 DEF Consistent
  <2>9. CASE kept.stage = "Check"
    BY <1>4, <2>2, <2>4, <2>5, <2>9 DEF Consistent
  <2>10. CASE kept.stage = "Decode"
    BY <1>4, <2>2, <2>3, <2>4, <2>5, <2>10 DEF Consistent
  <2>11. QED
    BY <2>4, <2>6, <2>7, <2>8, <2>9, <2>10 DEF Stages
<1>6. Placed(k)
  <2>1. PagesEnd(k) = PagesEnd(kept)
    BY <1>4 DEF PagesEnd
  <2>2. kept.stage = "Decode" => KeptProduced(k) = KeptProduced(kept)
    BY <1>4 DEF KeptProduced
  <2>3. kept.stage \in Stages /\ Placed(kept)
    BY DEF NowType, Sound
  <2>4. CASE kept.stage = "Idle"
    BY <1>4, <2>1, <2>3, <2>4 DEF Placed
  <2>5. CASE kept.stage = "Done"
    BY <1>4, <2>1, <2>3, <2>5 DEF Placed
  <2>6. CASE kept.stage \in {"Header", "Check"}
    BY <1>4, <2>1, <2>3, <2>6 DEF Placed
  <2>7. CASE kept.stage = "Decode"
    BY <1>4, <2>1, <2>2, <2>3, <2>7 DEF Placed
  <2>8. QED
    BY <2>3, <2>4, <2>5, <2>6, <2>7 DEF Stages
<1>7. Sound(k)
  BY <1>5, <1>6 DEF Sound
<1>8. Now' = k
  BY <1>3 DEF k
<1>9. Sound(Now)'
  <2>1. Consistent(Now)'
    BY <1>5, <1>8 DEF Consistent, KeptProduced, KeptJobOk, KeptHeaderOk, CursorOk, StreamOk,
       IdleOk, Blank
  <2>2. Placed(Now)'
    BY <1>6, <1>8 DEF Placed, PagesEnd, KeptProduced
  <2>3. QED
    BY <2>1, <2>2 DEF Sound
<1>10. cursor' \in 0..section.size
  BY DEF Sound, Consistent, Restart, NowType
<1>11. QED
  BY <1>2, <1>9, <1>10

\* A call other than a restore moves the walk along.
LEMMA CallSteps ==
  ASSUME WalkInv, Walk \/ Offer
  PROVE  StaysSound /\ Gives /\ UNCHANGED <<section, kept, restarts>>
<1>1. Typed /\ UNCHANGED <<section, kept, restarts>>
  BY Fields DEF WalkInv, Walk, Offer
<1>2. ~failure
  BY DEF Walk, Offer, BeginPage
<1>3. Going
  BY <1>1, <1>2 DEF WalkInv, Going
<1>4. CASE Pump
  BY <1>1, <1>3, <1>4, PumpSteps
<1>5. ASSUME NEW scratch \in Scratches, Read.len > 0, Feed(Least(scratch, Read.len))
      PROVE  StaysSound /\ Gives
  <2>1. scratch \in Nat \ {0}
    BY SizesAssumption
  <2>2. Read.len \in Nat
    BY <1>3, ReadTypes DEF Going
  <2>3. Least(scratch, Read.len) \in Nat \ {0} /\ Least(scratch, Read.len) <= Read.len
    BY <1>5, <2>1, <2>2 DEF Least
  <2>4. QED
    BY <1>3, <1>5, <2>3, FeedSteps
<1>6. ASSUME NEW j \in Jobs, BeginPage(j)
      PROVE  StaysSound /\ Gives
  BY <1>3, <1>6, OfferSteps
<1>7. QED
  BY <1>1, <1>4, <1>5, <1>6 DEF Walk, Offer

LEMMA NowTyped == Typed => Now \in NowType
BY DEF Typed, Now, NowType

LEMMA NextInv ==
  ASSUME WalkInv, [Next]_vars
  PROVE  WalkInv'
<1>1. section \in SectionType /\ kept \in NowType /\ restarts \in 0..MaxRestarts
      /\ Sound(kept) /\ failure \in BOOLEAN
  BY DEF WalkInv, WalkTypes
<1>2. CASE Walk \/ Offer
  <2>1. StaysSound /\ Gives /\ UNCHANGED <<section, kept, restarts>>
    BY <1>2, CallSteps
  <2>2. Now' \in NowType
    BY <2>1, NowTyped DEF StaysSound, Typed, Now, NowType
  <2>3. cursor \in Nat
    BY Fields DEF WalkInv, Typed
  <2>4. step'.offset \in Nat /\ step'.len \in Nat
    BY <2>1, <2>3 DEF Gives, GivesNothing, Span, Quiet
  <2>5. step'.kind = "Data" => stage' = "Decode" /\ ~failure'
    BY <2>1 DEF Gives, GivesNothing, Span, Quiet
  <2>6. failure' \in BOOLEAN
    <3>1. failure' = TRUE \/ failure' = failure
      BY <1>2 DEF Walk, Offer, BeginPage, Pump, Feed, PumpChecked, PumpHole, PumpStoredEnd,
         PumpPacked, PumpTail, FeedHeader, FeedHeaderLast, FeedCheck, FeedStored, FeedPacked,
         Decode, FinishPage, Fail
    <3>2. QED
      BY <1>1, <3>1, Zenon
  <2>7. Sound(kept)'
    BY <1>1, <2>1, KeptSame
  <2>8. QED
    BY <1>1, <2>1, <2>2, <2>4, <2>5, <2>6, <2>7 DEF WalkInv, WalkTypes, StaysSound
<1>3. CASE Save
  <2>1. UNCHANGED <<section, walkVars, step, restarts>> /\ kept' = Now /\ ~failure
    BY <1>3 DEF Save
  <2>2. Now' = Now /\ Sound(Now)
    BY <2>1 DEF Now, walkVars, WalkInv
  <2>3. kept' = Now'
    BY <2>1, <2>2
  <2>4. Sound(Now)'
    BY <2>1, <2>2 DEF Sound, Consistent, Placed, PagesEnd, KeptProduced, KeptJobOk,
       KeptHeaderOk, CursorOk, StreamOk, IdleOk, Blank, walkVars, Now
  <2>5. Sound(kept)'
    BY <2>3, <2>4 DEF Sound, Consistent, Placed, PagesEnd, KeptProduced, KeptJobOk,
       KeptHeaderOk, CursorOk, StreamOk, IdleOk, Blank
  <2>6. WalkTypes'
    BY <2>1, <2>2 DEF WalkInv, WalkTypes, walkVars
  <2>7. QED
    BY <2>1, <2>4, <2>5, <2>6 DEF WalkInv, walkVars
<1>4. CASE Restart
  <2>1. section' = section /\ kept' = kept /\ step' = Quiet("Framing") /\ failure' = FALSE
        /\ restarts < MaxRestarts /\ restarts' = restarts + 1
    BY <1>4 DEF Restart
  <2>2. Typed' /\ Sound(Now)'
    BY <1>1, <1>4, <2>1, RestartSound
  <2>3. Now' \in NowType
    BY <2>2 DEF Typed, Now, NowType
  <2>4. step'.offset = 0 /\ step'.len = 0 /\ step'.kind # "Data"
    BY <2>1 DEF Quiet
  <2>5. restarts' \in 0..MaxRestarts
    BY <1>1, <2>1, Sizes
  <2>6. failure' \in BOOLEAN
    BY <2>1, Zenon
  <2>7. Sound(kept)'
    BY <1>1, <2>1, KeptSame
  <2>8. QED
    BY <1>1, <2>1, <2>2, <2>3, <2>4, <2>5, <2>6, <2>7 DEF WalkInv, WalkTypes
<1>5. CASE UNCHANGED vars
  <2>1. UNCHANGED <<section, walkVars, step, kept, restarts>> /\ Now' = Now
    BY <1>5 DEF vars, walkVars, Now
  <2>2. Sound(kept)'
    BY <1>1, <2>1, KeptSame
  <2>3. ~failure => Sound(Now)'
    BY <2>1 DEF WalkInv, Sound, Consistent, Placed, PagesEnd, KeptProduced, KeptJobOk,
       KeptHeaderOk, CursorOk, StreamOk, IdleOk, Blank, walkVars, Now
  <2>4. QED
    BY <2>1, <2>2, <2>3 DEF WalkInv, WalkTypes, walkVars
<1>6. QED
  BY <1>2, <1>3, <1>4, <1>5 DEF Next

LEMMA InvariantHolds == Spec => []WalkInv
<1>1. Init => WalkInv
  BY InitSound
<1>2. WalkInv /\ [Next]_vars => WalkInv'
  BY NextInv
<1>3. QED
  BY <1>1, <1>2, PTL DEF Spec

----------------------------------------------------------------------------
(* What the invariant says of the code. *)

\* Every variable keeps its type, and no subtraction in `demand` underflows.
THEOREM TypeCorrect == Spec => []TypeOK
<1>1. WalkInv => TypeOK
  <2>1. SUFFICES ASSUME WalkInv PROVE TypeOK
    OBVIOUS
  <2>2. ASSUME ~failure PROVE Read.offset \in Nat /\ Read.len \in Nat
    <3>1. Typed /\ Sound(Now)
      BY <2>1, <2>2, Fields DEF WalkInv
    <3>2. QED
      BY <3>1, ReadTypes
  <2>3. QED
    BY <2>1, <2>2 DEF WalkInv, WalkTypes, TypeOK
<1>2. QED
  BY <1>1, InvariantHolds, PTL

\* `consistent` accepts every state a walk that has not failed can be in:
\* a checkpoint taken anywhere can be restored.
THEOREM RestoreAccepts == Spec => []Restorable
<1>1. WalkInv => Restorable
  BY DEF WalkInv, Restorable, Sound
<1>2. QED
  BY <1>1, InvariantHolds, PTL

\* Bytes come out of a page only after its header and its data were verified.
THEOREM VerifiedBeforeUse == Spec => []VerifiedFirst
<1>1. WalkInv => VerifiedFirst
  <2>1. SUFFICES ASSUME WalkInv, stage = "Decode", ~failure
                 PROVE  job.headerSum /\ job.dataSum /\ job.header.start = job.start
    BY DEF WalkInv, VerifiedFirst
  <2>2. Sound(Now)
    BY <2>1 DEF WalkInv
  <2>3. KeptHeaderOk(Now) /\ job.dataSum
    BY <2>1, <2>2, Fields, InDecode DEF WalkInv
  <2>4. QED
    BY <2>3 DEF KeptHeaderOk, Now
<1>2. QED
  BY <1>1, InvariantHolds, PTL

\* A read never leaves the page's entry, nor the source.
THEOREM ReadsStayInPage == Spec => []ReadInPage
<1>1. WalkInv => ReadInPage
  <2>1. SUFFICES ASSUME WalkInv, ~failure PROVE ReadInPage
    BY DEF ReadInPage
  <2>2. Typed /\ Sound(Now)
    BY <2>1, Fields DEF WalkInv
  <2>3. QED
    BY <2>2, ReadTypes DEF ReadInPage
<1>2. QED
  BY <1>1, InvariantHolds, PTL

\* Pages cannot overlap, and a finished walk has handed out the section.
THEOREM PagesNeverOverlap == Spec => []PagesApart
<1>1. WalkInv => PagesApart
  <2>1. SUFFICES ASSUME WalkInv, ~failure PROVE PagesApart
    BY DEF PagesApart
  <2>2. Typed /\ Sound(Now)
    BY <2>1, Fields DEF WalkInv
  <2>3. cursor <= section.size /\ (stage = "Done" => cursor = section.size)
    BY <2>2 DEF Sound, Consistent, Now
  <2>4. HoleEnd \in Nat /\ HoleEnd <= job.start /\ cursor \in Nat /\ job.start \in Nat
    BY <2>2, Spot DEF Typed
  <2>5. CASE stage \in {"Header", "Check"}
    <3>1. cursor = PagesEnd(Now) /\ PagesEnd(Now) <= HoleEnd
      BY <2>2, <2>5, PagesBehind DEF Sound, Placed, Now
    <3>2. QED
      BY <2>3, <2>4, <2>5, <3>1 DEF PagesApart
  <2>6. CASE stage = "Decode" /\ Produced = 0
    <3>1. CursorOk(Now) /\ KeptProduced(Now) = 0
      BY <2>2, <2>6 DEF Sound, Consistent, KeptProduced, Produced, Now
    <3>2. cursor <= HoleEnd
      BY <2>2, <2>4, <3>1 DEF CursorOk, HoleEnd, Now
    <3>3. QED
      BY <2>3, <2>4, <2>6, <3>2 DEF PagesApart
  <2>7. QED
    BY <2>3, <2>5, <2>6 DEF PagesApart
<1>2. QED
  BY <1>1, InvariantHolds, PTL

\* A page that ends short of its place never counts as walked.
THEOREM PagesAreWhole == Spec => []PagesWhole
<1>1. WalkInv => PagesWhole
  <2>1. SUFFICES ASSUME WalkInv, ~failure, stage = "Idle", ~firstRef
                 PROVE  cursor >= Least(lastStart + section.maxPage, section.size)
    BY DEF PagesWhole
  <2>2. Typed /\ Sound(Now)
    BY <2>1, Fields DEF WalkInv
  <2>3. cursor = Least(lastStart + section.maxPage, section.size) \/ cursor = section.size
    BY <2>1, <2>2 DEF Sound, Placed, PagesEnd, Now
  <2>4. lastStart + section.maxPage \in Nat /\ section.size \in Nat
    BY <2>2 DEF Typed
  <2>5. QED
    BY <2>3, <2>4, LeastFacts
<1>2. QED
  BY <1>1, InvariantHolds, PTL

\* The spans handed out abut, from the section's first byte to its last,
\* and the walk finishes only at the section's end.
THEOREM Tiles == Spec => AssemblySpec
<1>1. Init => Assembly!Init
  <2>1. SUFFICES ASSUME Init PROVE Assembly!Init
    OBVIOUS
  <2>2. section \in SectionType
    BY <2>1, SectionsAssumption DEF Init
  <2>3. section.size \in Nat
    BY <2>2
  <2>4. step = Assembly!Quiet("Framing") /\ cursor = 0
    BY <2>1 DEF Init, Quiet, Assembly!Quiet
  <2>5. QED
    BY <2>3, <2>4 DEF Assembly!Init
<1>2. WalkInv /\ [Next]_vars => [Assembly!Next]_(Assembly!vars)
  <2>1. SUFFICES ASSUME WalkInv, [Next]_vars
                 PROVE  Assembly!Next \/ UNCHANGED Assembly!vars
    OBVIOUS
  <2>2. CASE Walk \/ Offer
    <3>1. Gives /\ section' = section
      BY <2>1, <2>2, CallSteps
    <3>2. cursor \in Nat /\ section.size \in Nat
      BY <2>1, Fields DEF WalkInv, Typed
    <3>3. ASSUME NEW kind \in {"Data", "Hole"}, NEW n \in Nat \ {0},
                 step' = Span(kind, cursor, n), cursor' = cursor + n, cursor' <= section.size
          PROVE  Assembly!Next
      <4>1. n \in 1..(section.size - cursor)
        BY <3>2, <3>3
      <4>2. Assembly!Give(kind, n)
        BY <3>1, <3>3 DEF Assembly!Give, Span, Assembly!Span
      <4>3. QED
        BY <3>3, <4>1, <4>2 DEF Assembly!Next
    <3>4. CASE GivesNothing
      <4>1. \E kind \in {"Framing", "Page", "PageEnd", "Failed"} : Assembly!Pass(kind)
        BY <3>1, <3>4 DEF GivesNothing, Assembly!Pass, Quiet, Assembly!Quiet
      <4>2. QED
        BY <4>1 DEF Assembly!Next
    <3>5. CASE step' = Quiet("Finished") /\ cursor = section.size /\ cursor' = cursor
      <4>1. Assembly!Finish
        BY <3>1, <3>5 DEF Assembly!Finish, Assembly!Pass, Quiet, Assembly!Quiet
      <4>2. QED
        BY <4>1 DEF Assembly!Next
    <3>6. QED
      BY <3>1, <3>3, <3>4, <3>5 DEF Gives
  <2>3. CASE Save
    BY <2>3 DEF Save, walkVars, Assembly!vars
  <2>4. CASE Restart
    <3>1. cursor' \in 0..section.size /\ section' = section /\ step' = Quiet("Framing")
      <4>1. section \in SectionType /\ kept \in NowType /\ Sound(kept)
        BY <2>1 DEF WalkInv, WalkTypes
      <4>2. section' = section /\ step' = Quiet("Framing")
        BY <2>4 DEF Restart
      <4>3. QED
        BY <2>4, <4>1, <4>2, RestartSound
    <3>2. Assembly!GoBack
      BY <3>1 DEF Assembly!GoBack, Quiet, Assembly!Quiet
    <3>3. QED
      BY <3>2 DEF Assembly!Next
  <2>5. CASE UNCHANGED vars
    BY <2>5 DEF vars, walkVars, Assembly!vars
  <2>6. QED
    BY <2>1, <2>2, <2>3, <2>4, <2>5 DEF Next
<1>3. QED
  BY <1>1, <1>2, InvariantHolds, PTL DEF Spec, AssemblySpec, Assembly!Spec
=============================================================================
