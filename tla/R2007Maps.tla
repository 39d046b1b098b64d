------------------------------ MODULE R2007Maps ------------------------------
(***************************************************************************)
(* streaming/r2007.rs, R2007Walker: the state of the walk over an R2007    *)
(* file, and its way through the two maps.  The page map is walked once to *)
(* find the section map, and again for every page a section refers to; the *)
(* section map's records say which pages there are.                        *)
(*                                                                         *)
(* A map is the entries or records its page decodes to, and `tail` bytes   *)
(* of one more, which its end cuts off.  Its page is read by the Reader of *)
(* R2007Reader, as a data page is; here that reader is how far the decoded *)
(* bytes have come, in pieces of any length, and whether the page passes   *)
(* its checks.  A file is                                                  *)
(*   length          the source's declared length                          *)
(*   sound           do the checks of the header hold, and is the page map *)
(*                   inside the source                                     *)
(*   own, ownAt      the page map's id and place                           *)
(*   maps            the section map's id                                  *)
(*   amount, maxId   entries of the page map, and the largest id           *)
(*   described       SectionsAmount                                        *)
(*   entries, tail   the page map: ids, sizes, are these multiples of 0x20 *)
(*   records, rest   the section map                                       *)
(*   holds           the maps whose pages are inside the source and pass   *)
(*                   their checks                                          *)
(* and a record of the section map                                         *)
(*   Descriptor   name (its bytes), size, pages, fault (what refuses it)   *)
(*   Name         trimmed (its bytes without what is cut off), fault       *)
(*   Reference    page, one of R2007Reader with its id and its place in    *)
(*                the section (dataOffset); base and entrySize come from   *)
(*                the page map                                             *)
(***************************************************************************)
EXTENDS FileSource, R2007Reader

CONSTANTS
  Files,
  HeadBytes,         \* HEAD_BYTES
  PageBase,          \* PAGE_BASE
  EntryBytes,        \* ENTRY
  DescriptorBytes,   \* DESCRIPTOR
  ReferenceBytes     \* REFERENCE

\* What a reference says of its page: there are codewords for all it stores,
\* and its stream is over where it has given all of the page's bytes.
Sized(p) ==
  LET n     == Len(p.stream)
      given == Between(p, "out", 0, n)
  IN /\ p \in PageType
     /\ Coded(p) => p.stored <= p.blocks * Message
     /\ given <= p.plain
     /\ given = p.plain /\ n > 0 => p.stream[n] = "out"

RecordOk(r) ==
  CASE r.kind = "Descriptor" -> r.name \in Nat /\ r.size \in Nat /\ r.pages \in Nat
    [] r.kind = "Name"       -> r.trimmed \in Nat
    [] r.kind = "Reference"  -> Sized(r.page) /\ r.page.base = 0 /\ r.page.entrySize = 0

ASSUME MapsAssumption ==
  /\ HeadBytes \in Nat \ {0} /\ PageBase \in Nat
  /\ EntryBytes \in Nat \ {0} /\ DescriptorBytes \in Nat \ {0} /\ ReferenceBytes \in Nat \ {0}
  /\ \A f \in Files :
       /\ Len(f.entries) \in Nat /\ DOMAIN f.entries = 1..Len(f.entries)
       /\ \A i \in DOMAIN f.entries : f.entries[i].size \in Nat
       /\ f.tail \in 0..(EntryBytes - 1)
       /\ Len(f.records) \in Nat /\ DOMAIN f.records = 1..Len(f.records)
       /\ \A i \in DOMAIN f.records : RecordOk(f.records[i])
       /\ f.described \in Nat /\ f.rest \in Nat

VARIABLES
  file,
  source,
  stage,      \* "Head", "Map", "Sections", "Lookup", "Page" or "Done"
  head,       \* bytes of the header so far
  facts,      \* MapFacts
  scan,       \* the page map's reader: pass, entries behind it, bytes of the next
  entryHave,
  sec,        \* the section map's
  rec,        \* the record being assembled: kind and bytes
  cur,        \* the section being walked
  page,       \* refd, with the geometry derived from it
  described, sections, pages,
  reader,     \* the data page's
  pending,    \* a step still to hand out
  emitted,
  failure,
  out         \* what the caller was handed

counters == <<described, sections, pages>>
mapVars  == <<facts, scan, entryHave, sec, rec, cur, page, described, sections>>
walkVars == <<stage, head, mapVars, pages, reader, pending, emitted, failure, out>>

NoFacts   == [entries |-> 0, maxId |-> 0, acc |-> 0, own |-> FALSE, maps |-> FALSE]
NoScan    == [pass |-> "Verify", whole |-> 0, part |-> 0]
NoRecord  == [kind |-> "Descriptor", have |-> 0]
NoSection == [index |-> 0, name |-> 0, trimmed |-> 0, size |-> 0, pages |-> 0, done |-> 0, end |-> 0]
NoPage    == [id |-> 0]
Waiting(kind, from, len) == [kind |-> kind, from |-> from, len |-> len]
NoPending == Waiting("None", 0, 0)

Magnitude(id) == IF id < 0 THEN -id ELSE id

Hand(steps) == out' = out \o steps

----------------------------------------------------------------------------
(* A map's stream. *)

AtEnd(pos, all, tail) == pos.whole = Len(all) /\ pos.part = tail

\* Bytes the stream still has of the entry it is in.
Left(pos, all, size, tail) == (IF pos.whole < Len(all) THEN size ELSE tail) - pos.part

Advanced(pos, n, size) ==
  IF pos.part + n = size THEN [pos EXCEPT !.whole = @ + 1, !.part = 0] ELSE [pos EXCEPT !.part = @ + n]

\* Some of the bytes an item lacks.
SomeOf(pos, got, all, size, tail) == 1..Lesser(size - got, Left(pos, all, size, tail))

----------------------------------------------------------------------------
(* The page map: the first pass (on_entry, finish_map), and a lookup. *)

MapVerify ==
  /\ failure = "none" /\ stage = "Map" /\ scan.pass = "Verify"
  /\ IF "Map" \in file.holds
     THEN scan' = [scan EXCEPT !.pass = "Emit"] /\ UNCHANGED failure
     ELSE failure' = "R2007Crc64" /\ UNCHANGED scan
  /\ UNCHANGED <<stage, head, facts, entryHave, sec, rec, cur, page, counters, reader, pending,
                 emitted, out, source>>

\* The page map's own entry is the first with its id.
Own(e) == Magnitude(e.id) = file.own /\ ~facts.own

OnEntry(e) ==
  /\ UNCHANGED <<stage, page, reader>>
  /\ \/ /\ e.id = 0 \/ ~e.aligned
        /\ failure' = "PageEntry" /\ UNCHANGED <<facts, out>>
     \/ /\ e.id # 0 /\ e.aligned /\ Own(e) /\ facts.acc # file.ownAt
        /\ failure' = "PageMapSelf" /\ UNCHANGED <<facts, out>>
     \/ /\ e.id # 0 /\ e.aligned /\ (Own(e) => facts.acc = file.ownAt)
        /\ facts' = [entries |-> facts.entries + 1,
                     maxId   |-> Greater(facts.maxId, Magnitude(e.id)),
                     acc     |-> facts.acc + e.size,
                     own     |-> facts.own \/ Own(e),
                     maps    |-> facts.maps \/ Magnitude(e.id) = file.maps]
        /\ Hand(<<[step |-> "Entry", id |-> e.id, offset |-> facts.acc]>>)
        /\ UNCHANGED failure

\* data_geom of the page an entry places.
Span(p)    == IF Coded(p) THEN p.blocks * CodeWord ELSE p.stored
Outside(p) == Span(p) > p.entrySize \/ p.base + Span(p) > file.length

Named(e) == Magnitude(e.id) = Magnitude(page.id)

\* The page is where the sizes of the entries before its own lead.
Located(e) == [page EXCEPT !.base = PageBase + facts.acc, !.entrySize = e.size]

OnLookup(e) ==
  /\ facts' = [facts EXCEPT !.acc = @ + e.size]
  /\ UNCHANGED out
  /\ \/ ~Named(e) /\ UNCHANGED <<stage, page, reader, failure>>
     \/ /\ Named(e) /\ Outside(Located(e))
        /\ failure' = IF Span(Located(e)) > e.size THEN "R2007Page" ELSE "Truncated"
        /\ UNCHANGED <<stage, page, reader>>
     \/ /\ Named(e) /\ ~Outside(Located(e))
        /\ page' = Located(e)
        /\ stage' = "Page"
        /\ reader' = Started("Verify")
        /\ UNCHANGED failure

\* pump_entry
PumpEntry ==
  /\ failure = "none" /\ stage \in {"Map", "Lookup"} /\ scan.pass # "Verify"
  /\ ~AtEnd(scan, file.entries, file.tail)
  /\ \E n \in SomeOf(scan, entryHave, file.entries, EntryBytes, file.tail) :
       LET next == Advanced(scan, n, EntryBytes)
           e    == file.entries[scan.whole + 1]
       IN \/ /\ entryHave + n < EntryBytes
             /\ scan' = next /\ entryHave' = entryHave + n
             /\ failure' = IF AtEnd(next, file.entries, file.tail) THEN "MapLength" ELSE "none"
             /\ UNCHANGED <<stage, facts, page, reader, out>>
          \/ /\ entryHave + n = EntryBytes
             /\ entryHave' = 0
             /\ IF stage = "Map" THEN OnEntry(e) ELSE OnLookup(e)
             /\ scan' = IF stage = "Lookup" /\ Named(e) THEN NoScan ELSE next
  /\ UNCHANGED <<head, sec, rec, cur, counters, pending, emitted, source>>

\* What the page map's end finds missing: finish_map, in its order.
MapFault ==
  IF entryHave # 0 THEN "MapLength"
  ELSE IF facts.entries # file.amount \/ facts.maxId # file.maxId THEN "PageEntry"
  ELSE IF ~facts.own THEN "PageMapSelf"
  ELSE IF ~facts.maps THEN "SectionMapMissing"
  ELSE IF "Placed" \notin file.holds THEN "R2007Page" ELSE "none"

FinishMap ==
  /\ failure = "none" /\ stage = "Map" /\ scan.pass = "Emit"
  /\ AtEnd(scan, file.entries, file.tail)
  /\ failure' = MapFault
  /\ IF MapFault = "none" THEN stage' = "Sections" /\ scan' = NoScan ELSE UNCHANGED <<stage, scan>>
  /\ UNCHANGED <<head, facts, entryHave, sec, rec, cur, page, counters, reader, pending, emitted,
                 out, source>>

\* The map has no page of that id.
Missing ==
  /\ failure = "none" /\ stage = "Lookup"
  /\ AtEnd(scan, file.entries, file.tail)
  /\ failure' = "R2007PageMissing"
  /\ UNCHANGED <<stage, head, mapVars, pages, reader, pending, emitted, out, source>>

----------------------------------------------------------------------------
(* The section map. *)

SectionsVerify ==
  /\ failure = "none" /\ stage = "Sections" /\ pending = NoPending /\ sec.pass = "Verify"
  /\ IF "Sections" \in file.holds
     THEN sec' = [sec EXCEPT !.pass = "Emit"] /\ UNCHANGED failure
     ELSE failure' = "R2007Crc64" /\ UNCHANGED sec
  /\ UNCHANGED <<stage, head, facts, scan, entryHave, rec, cur, page, counters, reader, pending,
                 emitted, out, source>>

Records == file.records

RecordSize ==
  CASE rec.kind = "Descriptor" -> DescriptorBytes
    [] rec.kind = "Name"       -> cur.name
    [] rec.kind = "Reference"  -> ReferenceBytes

Expect(kind) == rec' = [kind |-> kind, have |-> 0]

RefuseRecord(error) == failure' = error /\ UNCHANGED <<stage, scan, facts, rec, cur, page, sections, pending, out>>

\* An unnamed descriptor describes no page.
DescriptorFault(d) ==
  IF described = file.described \/ (d.name = 0 /\ d.pages # 0) THEN "SectionEntry"
  ELSE IF d.name = 0 THEN "none" ELSE d.fault

OnDescriptor(d) ==
  /\ described' = described + 1
  /\ IF DescriptorFault(d) # "none" THEN RefuseRecord(DescriptorFault(d))
     ELSE /\ IF d.name = 0 THEN Expect("Descriptor") /\ UNCHANGED cur
             ELSE /\ cur' = [NoSection EXCEPT !.index = sections, !.name = d.name, !.size = d.size,
                                              !.pages = d.pages]
                  /\ Expect("Name")
          /\ UNCHANGED <<stage, scan, facts, page, sections, pending, failure, out>>

SectionEndOf(c) == Waiting("SectionEnd", c.index, Lesser(c.end, c.size))

\* A section whose name is empty is dropped, and may have no pages.
OnName(d) ==
  /\ UNCHANGED described
  /\ IF d.fault # "none" \/ (d.trimmed = 0 /\ cur.pages # 0) THEN RefuseRecord("SectionEntry")
     ELSE IF d.trimmed = 0
     THEN /\ cur' = NoSection
          /\ Expect("Descriptor")
          /\ UNCHANGED <<stage, scan, facts, page, sections, pending, failure, out>>
     ELSE /\ cur' = [cur EXCEPT !.trimmed = d.trimmed]
          /\ sections' = sections + 1
          /\ Hand(<<[step |-> "Section", index |-> cur.index]>>)
          /\ pending' = IF cur.pages = 0 THEN SectionEndOf(cur) ELSE NoPending
          /\ Expect(IF cur.pages = 0 THEN "Descriptor" ELSE "Reference")
          /\ UNCHANGED <<stage, scan, facts, page, failure>>

Misplaced(p) == p.id = 0 \/ p.stored > p.plain \/ p.dataOffset < cur.end

\* A lookup is a scan of the page map from its start.
OnReference(d) ==
  /\ UNCHANGED described
  /\ IF Misplaced(d.page) THEN RefuseRecord("SectionEntry")
     ELSE /\ page' = d.page
          /\ stage' = "Lookup"
          /\ scan' = [NoScan EXCEPT !.pass = "Scan"]
          /\ facts' = [facts EXCEPT !.acc = 0]
          /\ Expect("Reference")
          /\ UNCHANGED <<cur, sections, pending, failure, out>>

\* pump_record
PumpRecord ==
  /\ failure = "none" /\ stage = "Sections" /\ pending = NoPending /\ sec.pass = "Emit"
  /\ ~AtEnd(sec, Records, file.rest)
  /\ \E n \in SomeOf(sec, rec.have, Records, RecordSize, file.rest) :
       LET next == Advanced(sec, n, RecordSize)
           d    == Records[sec.whole + 1]
       IN /\ sec' = next
          /\ \/ /\ rec.have + n < RecordSize
                /\ rec' = [rec EXCEPT !.have = @ + n]
                /\ failure' = IF AtEnd(next, Records, file.rest) THEN "MapLength" ELSE "none"
                /\ UNCHANGED <<stage, scan, facts, cur, page, described, sections, pending, out>>
             \/ /\ rec.have + n = RecordSize
                /\ sec.whole < Len(Records) /\ rec.kind = d.kind
                /\ \/ d.kind = "Descriptor" /\ OnDescriptor(d)
                   \/ d.kind = "Name" /\ OnName(d)
                   \/ d.kind = "Reference" /\ OnReference(d)
  /\ UNCHANGED <<head, entryHave, pages, reader, emitted, source>>

PumpSectionEnd ==
  /\ failure = "none" /\ pending.kind = "SectionEnd"
  /\ pending' = NoPending
  /\ cur' = NoSection
  /\ Hand(<<[step |-> "SectionEnd", index |-> pending.from, covered |-> pending.len]>>)
  /\ UNCHANGED <<stage, head, facts, scan, entryHave, sec, rec, page, counters, reader, emitted,
                 failure, source>>

WalkFault ==
  IF rec # NoRecord THEN "MapLength"
  ELSE IF described # file.described THEN "SectionEntry" ELSE "none"

FinishWalk ==
  /\ failure = "none" /\ stage = "Sections" /\ pending = NoPending /\ sec.pass = "Emit"
  /\ AtEnd(sec, Records, file.rest)
  /\ failure' = WalkFault
  /\ IF WalkFault = "none"
     THEN /\ sec' = NoScan /\ cur' = NoSection /\ stage' = "Done"
          /\ Hand(<<[step |-> "Finished", sections |-> sections, pages |-> pages]>>)
     ELSE UNCHANGED <<sec, cur, stage, out>>
  /\ UNCHANGED <<head, facts, scan, entryHave, rec, page, counters, reader, pending, emitted, source>>

MapPump ==
  MapVerify \/ PumpEntry \/ FinishMap \/ Missing \/ SectionsVerify \/ PumpRecord
    \/ PumpSectionEnd \/ FinishWalk
=============================================================================
