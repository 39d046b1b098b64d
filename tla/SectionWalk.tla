---------------------------- MODULE SectionWalk ----------------------------
(***************************************************************************)
(* streaming/r2004_sections.rs, R2004SectionWalker: one section of an      *)
(* R2004-family file, page by page, and its checkpoint (checkpoint.rs,     *)
(* "DWGS").  A page is read twice: once for its checksums, then for its    *)
(* bytes.                                                                  *)
(*                                                                         *)
(* The caller offers jobs, the page map's entry for a page with the        *)
(* section map's reference to it and what lies at the entry's address:     *)
(*   agrees            do entry and reference name the same page, of this  *)
(*                     section                                             *)
(*   size, address     the entry                                           *)
(*   start, stored     the reference: section offset, stored bytes         *)
(*   headerSum, header the masked header: does its checksum hold, and the  *)
(*                     [start, stored, size] it carries                    *)
(*   dataSum           does the checksum over the stored bytes hold        *)
(*   needs, yields     the LZ77 stream: stored bytes to its terminator,    *)
(*                     bytes it decompresses to                            *)
(*                                                                         *)
(* The LZ77 decoder is its interface: what one `decode` may consume and    *)
(* produce, whichever of the two runs out first.                           *)
(***************************************************************************)
EXTENDS Integers

CONSTANTS
  Sections,      \* descriptions of a section: size, count, maxPage, packed
  Jobs,          \* what the caller may offer
  SourceLength,
  HeadBytes,     \* HEAD, a page header's size, and the unit of page sizes
  OutBytes,      \* STAGE, the most one step hands out
  CarryBytes,    \* CARRY, the most compressed bytes held
  ChunkBytes,    \* CHUNK_BYTES
  Scratches,     \* how many bytes the caller reads at a time, at most
  MaxRestarts    \* bound: restarts of the process

SectionType == [size : Nat, count : Nat, maxPage : Nat \ {0}, packed : BOOLEAN]
HeaderType  == [start : Nat, stored : Nat, size : Nat]
JobType ==
  [agrees : BOOLEAN, size : Nat, address : Nat, start : Nat, stored : Nat,
   headerSum : BOOLEAN, header : HeaderType, dataSum : BOOLEAN,
   needs : Nat \ {0}, yields : Nat]

\* `new` refuses a section of pages of no size.
ASSUME SectionsAssumption == Sections \subseteq SectionType
ASSUME JobsAssumption     == Jobs \subseteq JobType
ASSUME SizesAssumption ==
  /\ SourceLength \in Nat
  /\ HeadBytes \in Nat \ {0}
  /\ OutBytes \in Nat \ {0}
  /\ CarryBytes \in Nat \ {0}
  /\ ChunkBytes \in Nat \ {0}
  /\ Scratches \subseteq Nat \ {0}
  /\ MaxRestarts \in Nat

VARIABLES
  section,    \* the section being walked
  stage,
  job,        \* the page being walked, or NoJob
  done,       \* bytes taken of its header, or of its stored bytes this pass
  summed,     \* bytes folded into the data checksum
  lz,         \* the decoder: consumed, produced, and where it stands
  carried,    \* compressed bytes not yet consumed
  cursor,     \* section bytes handed out
  refsDone, lastStart, firstRef,  \* pages walked, the last one's start
  failure,    \* has the walk failed
  step,       \* what the last call returned
  kept,       \* the caller's checkpoint
  restarts

walkVars == <<stage, job, done, summed, lz, carried, cursor, refsDone, lastStart,
              firstRef, failure>>
vars == <<section, walkVars, step, kept, restarts>>

Least(a, b) == IF a < b THEN a ELSE b

\* saturating_sub
Minus(a, b) == IF a > b THEN a - b ELSE 0

Quiet(kind)           == [kind |-> kind, offset |-> 0, len |-> 0]
Span(kind, from, len) == [kind |-> kind, offset |-> from, len |-> len]

Stages == {"Idle", "Header", "Check", "Decode", "Done"}

NoJob ==
  [agrees |-> FALSE, size |-> 0, address |-> 0, start |-> 0, stored |-> 0,
   headerSum |-> FALSE, header |-> [start |-> 0, stored |-> 0, size |-> 0],
   dataSum |-> FALSE, needs |-> 1, yields |-> 0]

\* mode: "reading" takes input; "copying" owes output (has_pending_output);
\* "done" has seen the terminator.
NewLz == [consumed |-> 0, produced |-> 0, mode |-> "reading"]

\* What a checkpoint holds.
Now == [stage |-> stage, job |-> job, done |-> done, summed |-> summed, lz |-> lz,
        carried |-> carried, cursor |-> cursor, refsDone |-> refsDone,
        lastStart |-> lastStart, firstRef |-> firstRef]

Init ==
  /\ section \in Sections
  /\ stage = "Idle"
  /\ job = NoJob
  /\ done = 0 /\ summed = 0
  /\ lz = NewLz
  /\ carried = 0
  /\ cursor = 0
  /\ refsDone = 0 /\ lastStart = 0 /\ firstRef = TRUE
  /\ failure = FALSE
  /\ step = Quiet("Framing")
  /\ kept = Now
  /\ restarts = 0

----------------------------------------------------------------------------
(* The page's place in the section, and the demand. *)

Room     == Minus(section.size, job.start)
Wanted   == Least(job.stored, Room)
Produced == IF section.packed THEN lz.produced ELSE done

\* The span before the page that no page covers, until it is handed out.
HoleEnd == Least(job.start, section.size)

\* Faulty variants, named Bad..., are the slips the properties must notice;
\* nothing but the mutation table of PROJECT.json uses them.

BadHasHole == Produced = 0 /\ cursor <= HoleEnd

HasHole == Produced = 0 /\ cursor < HoleEnd

NeedsInput == carried = 0 /\ lz.mode = "reading" /\ done < job.stored

\* Bytes of the source the walk asks for, at address + offset; len 0 is a
\* demand for a pump, a page or nothing.
BodyRead(most) == [offset |-> job.address + HeadBytes + done, len |-> most]
NoRead         == [offset |-> 0, len |-> 0]

Read ==
  CASE stage = "Header" -> [offset |-> job.address + done, len |-> HeadBytes - done]
    [] stage = "Check"  -> BodyRead(Least(job.stored - done, ChunkBytes))
    [] stage = "Decode" ->
         IF HasHole THEN NoRead
         ELSE IF ~section.packed THEN BodyRead(Least(Wanted - done, OutBytes))
         ELSE IF NeedsInput THEN BodyRead(Least(job.stored - done, CarryBytes))
         ELSE NoRead
    [] OTHER -> NoRead

----------------------------------------------------------------------------
(* begin_page *)

BadRising(start) == firstRef \/ start >= lastStart

Rising(start) == firstRef \/ start > lastStart

JobOk(j) ==
  /\ j.agrees
  /\ j.size >= HeadBytes /\ j.size % HeadBytes = 0
  /\ j.address + HeadBytes <= SourceLength
  /\ j.start % section.maxPage = 0
  /\ Rising(j.start)

\* A job that is not in order is refused and leaves the walk as it was.
BeginPage(j) ==
  /\ ~failure
  /\ stage = "Idle" /\ refsDone < section.count
  /\ JobOk(j)
  /\ job' = j
  /\ stage' = "Header"
  /\ done' = 0
  /\ step' = Quiet("Framing")
  /\ UNCHANGED <<summed, lz, carried, cursor, refsDone, lastStart, firstRef, failure>>

----------------------------------------------------------------------------
(* feed and pump, one action per thing they can do. *)

Fail ==
  /\ failure' = TRUE
  /\ step' = Quiet("Failed")

BadHeaderFits == job.header = [start |-> job.start, stored |-> job.stored, size |-> job.size]

\* What the page's header must carry.
HeaderFits ==
  /\ job.header = [start |-> job.start, stored |-> job.stored, size |-> job.size]
  /\ HeadBytes + job.stored <= job.size
  /\ job.address + HeadBytes + job.stored <= SourceLength
  /\ section.packed \/ job.stored <= section.maxPage

FeedHeader(n) ==
  /\ stage = "Header"
  /\ done + n < HeadBytes
  /\ done' = done + n
  /\ step' = Quiet("Framing")
  /\ UNCHANGED <<stage, job, summed, lz, carried, cursor, refsDone, lastStart, firstRef,
                 failure>>

HeaderHolds == job.headerSum /\ HeaderFits

FeedHeaderLast(n) ==
  /\ stage = "Header"
  /\ done + n = HeadBytes
  /\ \/ /\ HeaderHolds
        /\ stage' = "Check"
        /\ done' = 0 /\ summed' = 0
        /\ step' = Quiet("Framing")
        /\ UNCHANGED failure
     \/ /\ ~HeaderHolds
        /\ Fail
        /\ UNCHANGED <<stage, done, summed>>
  /\ UNCHANGED <<job, lz, carried, cursor, refsDone, lastStart, firstRef>>

FeedCheck(n) ==
  /\ stage = "Check"
  /\ done < job.stored
  /\ done' = done + n
  /\ summed' = summed + n
  /\ step' = Quiet("Framing")
  /\ UNCHANGED <<stage, job, lz, carried, cursor, refsDone, lastStart, firstRef, failure>>

BadDataHolds == summed = job.stored

DataHolds == job.dataSum /\ summed = job.stored

\* `checked`: from here on the page's bytes may be used.
PumpChecked ==
  /\ stage = "Check"
  /\ done = job.stored
  /\ \/ /\ DataHolds
        /\ stage' = "Decode"
        /\ done' = 0 /\ summed' = 0 /\ carried' = 0
        /\ lz' = NewLz
        /\ step' = Quiet("Page")
        /\ UNCHANGED failure
     \/ /\ ~DataHolds
        /\ Fail
        /\ UNCHANGED <<stage, done, summed, carried, lz>>
  /\ UNCHANGED <<job, cursor, refsDone, lastStart, firstRef>>

PumpHole ==
  /\ stage = "Decode"
  /\ HasHole
  /\ cursor' = HoleEnd
  /\ step' = Span("Hole", cursor, HoleEnd - cursor)
  /\ UNCHANGED <<stage, job, done, summed, lz, carried, refsDone, lastStart, firstRef,
                 failure>>

BadPageWhole(produced) == produced > 0

\* A shorter page would leave a gap the page map does not declare.
PageWhole(produced) == produced >= Least(Room, section.maxPage)

\* finish_page
FinishPage(produced) ==
  \/ /\ PageWhole(produced)
     /\ refsDone' = refsDone + 1
     /\ lastStart' = job.start
     /\ firstRef' = FALSE
     /\ stage' = "Idle"
     /\ job' = NoJob
     /\ done' = 0 /\ carried' = 0
     /\ step' = Quiet("PageEnd")
     /\ UNCHANGED <<summed, cursor, failure>>
  \/ /\ ~PageWhole(produced)
     /\ Fail
     /\ UNCHANGED <<stage, job, done, summed, carried, cursor, refsDone, lastStart, firstRef>>

\* A stored page: its bytes are the section's, up to the section's end.
FeedStored(n) ==
  /\ stage = "Decode" /\ ~section.packed
  /\ ~HasHole
  /\ done < Wanted
  /\ done' = done + n
  /\ cursor' = job.start + done + n
  /\ step' = Span("Data", job.start + done, n)
  /\ UNCHANGED <<stage, job, summed, lz, carried, refsDone, lastStart, firstRef, failure>>

PumpStoredEnd ==
  /\ stage = "Decode" /\ ~section.packed
  /\ ~HasHole
  /\ done = Wanted
  /\ FinishPage(job.stored)
  /\ UNCHANGED lz

\* One call of the decoder with `given` compressed bytes: it stops when they
\* are used up, the output is full, or the terminator is read.
LzCalls(given) ==
  {c \in [consumed : 0..given, produced : 0..OutBytes, mode : {"reading", "copying", "done"}] :
     LET consumed == lz.consumed + c.consumed
         produced == lz.produced + c.produced
     IN /\ consumed <= job.needs /\ produced <= Least(job.yields, section.maxPage)
        /\ c.mode = "done" <=> consumed = job.needs
        /\ c.mode = "done" => produced = job.yields
        /\ c.mode = "copying" =>
             c.produced = OutBytes /\ produced < Least(job.yields, section.maxPage)
        /\ c.mode = "reading" => c.consumed = given \/ c.produced = OutBytes
        /\ lz.mode = "copying" => c.produced > 0
        /\ lz.mode = "done" \/ (lz.mode = "reading" /\ given = 0) => c.produced = 0}

\* The stream may turn out malformed, or to yield more than a page, at any
\* call that reads more of it; a pending copy alone cannot fail.  (Lz77's
\* Bargain holds the decoder to LzCalls and LzFails.)
LzFails(given) == lz.mode # "done" /\ given > 0

\* `decode`, after `given` carried bytes of which `taken` were just fed.
Decode(given, taken) ==
  \/ /\ LzFails(given)
     /\ Fail
     /\ UNCHANGED <<stage, job, done, summed, lz, carried, cursor, refsDone, lastStart,
                    firstRef>>
  \/ \E c \in LzCalls(given) :
       LET keep == Least(Minus(Room, lz.produced), c.produced)
           left == given - c.consumed
       IN /\ lz' = [consumed |-> lz.consumed + c.consumed,
                    produced |-> lz.produced + c.produced, mode |-> c.mode]
          /\ \/ /\ keep > 0
                /\ carried' = left
                /\ done' = done + taken
                /\ cursor' = job.start + lz.produced + keep
                /\ step' = Span("Data", job.start + lz.produced, keep)
                /\ UNCHANGED <<stage, job, summed, refsDone, lastStart, firstRef, failure>>
             \/ /\ keep = 0 /\ c.mode = "done"
                /\ FinishPage(lz.produced + c.produced)
             \/ /\ keep = 0 /\ c.mode # "done"
                /\ left = 0 /\ c.mode = "reading" /\ done + taken = job.stored
                /\ Fail
                /\ UNCHANGED <<stage, job, done, summed, carried, cursor, refsDone,
                               lastStart, firstRef>>
             \/ /\ keep = 0 /\ c.mode # "done"
                /\ ~(left = 0 /\ c.mode = "reading" /\ done + taken = job.stored)
                /\ carried' = left
                /\ done' = done + taken
                /\ step' = Quiet("Framing")
                /\ UNCHANGED <<stage, job, summed, cursor, refsDone, lastStart, firstRef,
                               failure>>

FeedPacked(n) ==
  /\ stage = "Decode" /\ section.packed
  /\ ~HasHole
  /\ NeedsInput
  /\ Decode(n, n)

PumpPacked ==
  /\ stage = "Decode" /\ section.packed
  /\ ~HasHole
  /\ ~NeedsInput
  /\ Decode(carried, 0)

\* Every page is done: what none of them covered, then the end.
PumpTail ==
  /\ stage = "Idle" /\ refsDone = section.count
  /\ \/ /\ cursor < section.size
        /\ cursor' = section.size
        /\ step' = Span("Hole", cursor, section.size - cursor)
        /\ UNCHANGED stage
     \/ /\ cursor >= section.size
        /\ stage' = "Done"
        /\ step' = Quiet("Finished")
        /\ UNCHANGED cursor
  /\ UNCHANGED <<job, done, summed, lz, carried, refsDone, lastStart, firstRef, failure>>

Pump == PumpChecked \/ PumpHole \/ PumpStoredEnd \/ PumpPacked \/ PumpTail

Feed(n) == FeedHeader(n) \/ FeedHeaderLast(n) \/ FeedCheck(n) \/ FeedStored(n) \/ FeedPacked(n)

Walk ==
  /\ ~failure
  /\ \/ Pump
     \/ \E scratch \in Scratches :
          /\ Read.len > 0
          /\ Feed(Least(scratch, Read.len))
  /\ UNCHANGED <<section, kept, restarts>>

Offer ==
  /\ \E j \in Jobs : BeginPage(j)
  /\ UNCHANGED <<section, kept, restarts>>

----------------------------------------------------------------------------
(* Checkpoint and restore. *)

Blank(k) == k.job = NoJob /\ k.done = 0 /\ k.summed = 0 /\ k.carried = 0

\* job_ok and header_fits over the restored state.
KeptJobOk(k) ==
  /\ k.refsDone < section.count
  /\ k.job.agrees
  /\ k.job.size >= HeadBytes /\ k.job.size % HeadBytes = 0
  /\ k.job.address + HeadBytes <= SourceLength
  /\ k.job.start % section.maxPage = 0
  /\ k.firstRef \/ k.job.start > k.lastStart
  /\ k.carried <= CarryBytes

KeptHeaderOk(k) ==
  /\ k.job.headerSum
  /\ k.job.header = [start |-> k.job.start, stored |-> k.job.stored, size |-> k.job.size]
  /\ HeadBytes + k.job.stored <= k.job.size
  /\ k.job.address + HeadBytes + k.job.stored <= SourceLength
  /\ section.packed \/ k.job.stored <= section.maxPage

KeptProduced(k) == IF section.packed THEN k.lz.produced ELSE k.done

CursorOk(k) ==
  LET end == Least(k.job.start + KeptProduced(k), section.size)
  IN IF KeptProduced(k) = 0 THEN k.cursor <= end ELSE k.cursor = end

StreamOk(k) ==
  IF section.packed THEN k.done <= k.job.stored /\ k.lz.consumed + k.carried = k.done
  ELSE k.done <= Least(k.job.stored, Minus(section.size, k.job.start)) /\ k.carried = 0

BadIdleOk(k) == Blank(k) /\ (k.refsDone > 0 \/ k.cursor = 0)

\* A section without pages still has its tail.
IdleOk(k) == Blank(k) /\ (k.refsDone > 0 \/ k.cursor = 0 \/ k.refsDone = section.count)

\* `consistent`
Consistent(k) ==
  /\ k.refsDone <= section.count
  /\ k.firstRef = (k.refsDone = 0)
  /\ k.lastStart % section.maxPage = 0
  /\ k.firstRef => k.lastStart = 0
  /\ k.cursor <= section.size
  /\ CASE k.stage = "Idle" -> IdleOk(k)
       [] k.stage = "Done" ->
            Blank(k) /\ k.refsDone = section.count /\ k.cursor = section.size
       [] k.stage = "Header" ->
            /\ KeptJobOk(k) /\ k.done < HeadBytes
            /\ k.summed = 0 /\ k.carried = 0
            /\ k.refsDone > 0 \/ k.cursor = 0
       [] k.stage = "Check" ->
            /\ KeptJobOk(k) /\ KeptHeaderOk(k)
            /\ k.done <= k.job.stored /\ k.carried = 0
            /\ k.refsDone > 0 \/ k.cursor = 0
       [] k.stage = "Decode" ->
            /\ KeptJobOk(k) /\ KeptHeaderOk(k)
            /\ CursorOk(k) /\ StreamOk(k)
            /\ k.summed = 0

\* A failed walk has no checkpoint.
Save ==
  /\ restarts < MaxRestarts
  /\ ~failure
  /\ kept' = Now
  /\ UNCHANGED <<section, walkVars, step, restarts>>

BadKeptLz == NewLz

\* The decoder is saved only while a page is being decoded.
KeptLz == IF kept.stage = "Decode" /\ section.packed THEN kept.lz ELSE NewLz

\* A new process restores the checkpoint.
Restart ==
  /\ restarts < MaxRestarts
  /\ restarts' = restarts + 1
  /\ Consistent(kept)
  /\ stage' = kept.stage /\ job' = kept.job /\ done' = kept.done
  /\ summed' = kept.summed /\ carried' = kept.carried
  /\ lz' = KeptLz
  /\ cursor' = kept.cursor
  /\ refsDone' = kept.refsDone /\ lastStart' = kept.lastStart /\ firstRef' = kept.firstRef
  /\ failure' = FALSE
  /\ step' = Quiet("Framing")
  /\ UNCHANGED <<section, kept>>

Next == Walk \/ Offer \/ Save \/ Restart

Spec == Init /\ [][Next]_vars

\* The walk is driven as long as it asks for source bytes or a pump.
FairSpec == Spec /\ WF_vars(Walk)

----------------------------------------------------------------------------
(* Properties. *)

LzType == [consumed : Nat, produced : Nat, mode : {"reading", "copying", "done"}]

NowType ==
  [stage : Stages, job : JobType, done : Nat, summed : Nat, lz : LzType, carried : Nat,
   cursor : Nat, refsDone : Nat, lastStart : Nat, firstRef : BOOLEAN]

\* Types of the walk, its saved state, its demand (no subtraction in `demand`
\* underflows) and its last step.
TypeOK ==
  /\ section \in SectionType
  /\ Now \in NowType
  /\ kept \in NowType
  /\ failure \in BOOLEAN
  /\ ~failure => Read.offset \in Nat /\ Read.len \in Nat
  /\ step.offset \in Nat /\ step.len \in Nat
  /\ restarts \in 0..MaxRestarts

\* "Restore-time check that a decoded state is one the walk can reach": no
\* reachable state of a walk that has not failed is refused by it.
Restorable == ~failure => Consistent(Now)

\* "Nothing is derived from a page before its checksums pass": a page whose
\* bytes are handed out has its header and data checksums verified.
VerifiedFirst ==
  (stage = "Decode" /\ ~failure) \/ step.kind = "Data" =>
    job.headerSum /\ job.dataSum /\ job.header.start = job.start

\* A read stays within the page's entry and the source: "request bytes
\* outside the source" is what the restore check must rule out as well.
ReadInPage ==
  ~failure /\ Read.len > 0 =>
    /\ Read.offset >= job.address
    /\ Read.offset + Read.len <= SourceLength
    /\ stage # "Header" => Read.offset + Read.len <= job.address + job.size

\* The walk's place in the section never passes its end, nor, before a page
\* has given a byte, the page's start: pages cannot overlap.
PagesApart ==
  ~failure =>
    /\ cursor <= section.size
    /\ stage \in {"Header", "Check"} \/ (stage = "Decode" /\ Produced = 0) =>
         cursor <= job.start
    /\ stage = "Done" => cursor = section.size

\* "A page shorter than that would leave a gap the page map does not
\* declare": a hole is never where a walked page was placed.
PagesWhole ==
  ~failure /\ stage = "Idle" /\ ~firstRef => cursor >= Least(lastStart + section.maxPage, section.size)

\* However it is driven, the walk comes to a stop: failed, finished, or
\* waiting for the caller's next page.
Waiting == stage = "Idle" /\ refsDone < section.count
Rests   == []<>(failure \/ stage = "Done" \/ Waiting)

----------------------------------------------------------------------------
(* What a sound state is: the section's bytes up to the end of the last    *)
(* page are handed out, no more before the page at hand has given any, and *)
(* then exactly what it has given.                                         *)

\* Where the walked pages end.
PagesEnd(k) ==
  IF k.firstRef THEN 0 ELSE Least(k.lastStart + section.maxPage, section.size)

Placed(k) ==
  CASE k.stage = "Idle" ->
         k.cursor = PagesEnd(k) \/ (k.refsDone = section.count /\ k.cursor = section.size)
    [] k.stage = "Done" -> PagesEnd(k) <= k.cursor
    [] k.stage \in {"Header", "Check"} -> k.cursor = PagesEnd(k)
    [] k.stage = "Decode" ->
         /\ k.job.dataSum
         /\ KeptProduced(k) <= section.maxPage
         /\ PagesEnd(k) <= k.cursor

Sound(k) == Consistent(k) /\ Placed(k)

Assembly == INSTANCE SectionAssembly WITH covered <- cursor

\* The walk implements SectionAssembly: its spans tile the section.
AssemblySpec == Assembly!Spec
=============================================================================
