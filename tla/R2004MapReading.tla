-------------------------- MODULE R2004MapReading --------------------------
(***************************************************************************)
(* What the maps of an R2004-family file commit when the file is read      *)
(* whole, and the properties that hold the walk to it.  The walk opens one *)
(* record after the other, fills it from the decoder and counts down what  *)
(* is left; the reading lays the records out in what the stream yields and *)
(* knows of each where it is and what it belongs to.                       *)
(***************************************************************************)
EXTENDS R2004Maps, FiniteSetsExt

\* The values that start with `first`, each got from the one before.
Iterated(first, step) ==
  LET value[n \in Nat] == IF n = 0 THEN first ELSE step[n - 1][value[n - 1]]
  IN value

\* What f adds up to, from `first`, before each n.
SumFrom(first, f) == Iterated(first, [n \in Nat |-> [x \in Nat |-> x + f[n]]])

----------------------------------------------------------------------------
(* Readings, one behind the other. *)

Outcome(steps, failure) == [commits |-> steps, failure |-> failure]

Join(a, b) == IF a.failure # "none" THEN a ELSE Outcome(a.commits \o b.commits, b.failure)

\* A system page of the given kind where it should be, in `size` bytes.
PageFault(p, kind, at, size) ==
  IF at + SysBytes > file.length THEN "Truncated"
  ELSE IF p.kind # kind \/ p.comp = 0 \/ p.decomp = 0 \/ SysBytes + p.comp > size
          \/ at + SysBytes + p.comp > file.length
       THEN "SystemPage"
  ELSE IF ~p.sum THEN "SystemPageChecksum" ELSE "none"

\* The records of n that are before the first that is refused.
Right(fault, n) == Min({i \in 0..n : i = n \/ fault[i] # "none"})

\* A page that holds n records whole; `end` is what is wrong behind them.
PageReading(kind, at, size, n, step, fault, end) ==
  LET bad   == PageFault(PageAt(at), kind, at, size)
      right == Right(fault, n)
  IN IF bad # "none" THEN Outcome(<<>>, bad)
     ELSE Outcome(<<[step |-> "SystemPage", kind |-> kind, at |-> at]>>
                    \o [i \in 1..right |-> step[i - 1]],
                  IF right < n THEN fault[right] ELSE end)

----------------------------------------------------------------------------
(* The page map: pages follow each other from the header's end.  A record  *)
(* is known by how many are before it.                                     *)

PageMap    == PageAt(file.pageMap)
EntryAt(n) == RecordAt(file.pageMap, n)

EntryStart == SumFrom(0, [n \in Nat |-> SizeOf(IF EntryAt(n).number < 0 THEN "Gap" ELSE "Entry")])
Address    == SumFrom(HeaderBytes, [n \in Nat |-> EntryAt(n).size])

\* How many the stream holds whole.
Entries == Max({n \in 0..PageMap.yields : EntryStart[n] <= PageMap.yields})

EntryFault(n) ==
  LET r == EntryAt(n)
  IN IF r.number = 0 \/ r.size = 0 \/ r.size % Align # 0 THEN "PageEntry"
     ELSE IF r.number = file.pageMapId
             /\ (Address[n] # file.pageMap \/ SysBytes + PageMap.comp > r.size)
          THEN "PageMapSelf" ELSE "none"

EntryStep(n) ==
  [step |-> "Page", number |-> EntryAt(n).number, size |-> EntryAt(n).size,
   address |-> Address[n]]

Numbered(number, n) == {i \in 0..(n - 1) : EntryAt(i).number = number}

PageMapEnd ==
  IF PageMap.ends # "terminator" THEN "Lz77"
  ELSE IF {PageMap.decomp} # {PageMap.yields, EntryStart[Entries]} THEN "MapLength"
  ELSE IF Numbered(file.pageMapId, Entries) = {} THEN "PageMapSelf" ELSE "none"

PageMapReading ==
  PageReading("PageMap", file.pageMap, file.length, Entries,
              [n \in Nat |-> EntryStep(n)], [n \in Nat |-> EntryFault(n)], PageMapEnd)

----------------------------------------------------------------------------
(* The section map, a page at `at`: how many sections there are, then each *)
(* section's description and its pages.                                    *)

\* The description a page follows; a description is its own.
Owner(at) ==
  Iterated(0, [n \in Nat |-> [o \in Nat |->
    IF o > 0 /\ n - o < RecordAt(at, o).count THEN o ELSE n + 1]])

IsDescription(at, n) == n > 0 /\ Owner(at)[n] = n

\* How many descriptions are before a record.
Described(at) == SumFrom(0, [n \in Nat |-> IF IsDescription(at, n) THEN 1 ELSE 0])

\* There is no such record: all that the counts speak of are before it.
Complete(at, n) == IsDescription(at, n) /\ Described(at)[n] = RecordAt(at, 0).count

FormOf(at, n) == IF n = 0 THEN "Count" ELSE IF IsDescription(at, n) THEN "Section" ELSE "Ref"

RecordStart(at) == SumFrom(0, [n \in Nat |-> SizeOf(FormOf(at, n))])

Records(at) ==
  Max({n \in 0..PageAt(at).yields :
         RecordStart(at)[n] <= PageAt(at).yields /\ \A m \in 0..(n - 1) : ~Complete(at, m)})

\* The pages of a section start at rising multiples of its page size.
RecordFault(at, n) ==
  LET r    == RecordAt(at, n)
      o    == Owner(at)[n]
      page == RecordAt(at, o).maxPage
  IN CASE FormOf(at, n) = "Count"   -> IF r.ok THEN "none" ELSE "SectionMapHeader"
       [] FormOf(at, n) = "Section" -> IF r.ok /\ page # 0 THEN "none" ELSE "SectionEntry"
       [] FormOf(at, n) = "Ref"     ->
            IF page # 0 /\ r.start % page = 0 /\ (o = n - 1 \/ r.start > RecordAt(at, n - 1).start)
            THEN "none" ELSE "SectionEntry"

RecordStep(at, n) ==
  LET r == RecordAt(at, n)
  IN CASE FormOf(at, n) = "Count"   -> [step |-> "Sections", count |-> r.count]
       [] FormOf(at, n) = "Section" -> [step |-> "Section", index |-> Described(at)[n], id |-> r.id]
       [] FormOf(at, n) = "Ref"     ->
            [step |-> "SectionPage", id |-> RecordAt(at, Owner(at)[n]).id, number |-> r.number,
             start |-> r.start]

SectionMapEnd(at) ==
  LET n == Records(at)
  IN IF Complete(at, n) /\ PageAt(at).decomp # RecordStart(at)[n] THEN "MapLength"
     ELSE IF PageAt(at).ends # "terminator" THEN "Lz77"
     ELSE IF Complete(at, n) THEN "none" ELSE "MapLength"

SectionsReading(at, size) ==
  PageReading("SectionMap", at, size, Records(at),
              [n \in Nat |-> RecordStep(at, n)], [n \in Nat |-> RecordFault(at, n)],
              SectionMapEnd(at))

\* The last of its entries in the page map places it.
SectionMapReading ==
  LET entries == Numbered(file.sectionMapId, Entries)
  IN IF entries = {} THEN Outcome(<<>>, "SectionMapMissing")
     ELSE SectionsReading(Address[Max(entries)], EntryAt(Max(entries)).size)

----------------------------------------------------------------------------

HeaderFaults ==
  IF file.length < MagicBytes THEN "Truncated"
  ELSE IF file.magic # "none" THEN file.magic
  ELSE IF file.length < HeaderBytes THEN "Truncated"
  ELSE IF file.header # "none" THEN file.header
  ELSE IF file.pageMap % Align # 0 \/ file.pageMap + SysBytes > file.length THEN "R2004Field"
  ELSE "none"

HeaderReading ==
  IF HeaderFaults = "none" THEN Outcome(<<[step |-> "Header"]>>, "none")
  ELSE Outcome(<<>>, HeaderFaults)

Finish == Outcome(<<[step |-> "Finished"]>>, "none")

\* Both maps; and the page map alone, as the second pass goes through it.
FirstPass  == Join(HeaderReading, Join(PageMapReading, Join(SectionMapReading, Finish)))
SecondPass == Join(PageMapReading, Finish)

Reading == IF walk.pagesOnly THEN SecondPass ELSE FirstPass

Ending == IF walk.failure = "none" /\ Truncated THEN "Truncated" ELSE walk.failure

\* "Every chunk schedule produces the same steps, error, and offset": a walk
\* that stops has committed what a reading of the whole file commits, and
\* stops with its error.
SameSteps ==
  Stopped => commits = Reading.commits /\ Ending = Reading.failure

\* The decoder meets the malformed byte of a stream in the call that
\* completes the record before it, which is lost with it.
CutShort ==
  /\ walk.failure = "Lz77" /\ Page.ends = "malformed"
  /\ LET whole == Reading.commits
     IN commits \in {whole, SubSeq(whole, 1, Len(whole) - 1)}

\* But for that last record of a malformed stream, however the file is cut
\* into reads, its maps compressed, and whatever restarts came between, the
\* walk commits what a reading of the whole file commits, in that order, and
\* stops with its error; going through the page map again, it commits the
\* same pages.
Agrees == Stopped => SameSteps \/ CutShort
=============================================================================
