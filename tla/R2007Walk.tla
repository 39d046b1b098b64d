------------------------------ MODULE R2007Walk ------------------------------
(***************************************************************************)
(* streaming/r2007.rs, R2007Walker: the walk over a whole R2007 file: its  *)
(* header and maps (R2007Maps), and the data pages of every section, each  *)
(* walked twice, over a FileSource (poll_r2007_walk, byte_source.rs), with *)
(* checkpoints between any two steps (r2007_checkpoint.rs).                *)
(***************************************************************************)
EXTENDS R2007Maps

CONSTANTS
  Scratches,      \* the caller's buffers
  MaxFailures,    \* bound: hard errors of the reader
  Interrupted,    \* bound: files whose walk is restored
  MaxRestores     \* bound: how often

ASSUME WalkAssumption ==
  Scratches \subseteq Nat \ {0} /\ MaxFailures \in Nat /\ MaxRestores \in Nat

VARIABLES
  kept,      \* the caller's checkpoint, and what it had been handed then
  restores,
  failures

vars == <<file, source, walkVars, kept, restores, failures>>

\* What a checkpoint holds; the bytes in a reader's buffer that are in use.
Now == [stage |-> stage, head |-> head, facts |-> facts, scan |-> scan, entryHave |-> entryHave,
        sec |-> sec, rec |-> rec, cur |-> cur, page |-> page, described |-> described,
        sections |-> sections, pages |-> pages, reader |-> Kept(reader), pending |-> pending,
        emitted |-> emitted, out |-> out]

Init ==
  /\ file \in Files
  /\ source = Fresh
  /\ stage = "Head" /\ head = <<>>
  /\ facts = NoFacts /\ scan = NoScan /\ entryHave = 0
  /\ sec = NoScan /\ rec = NoRecord
  /\ cur = NoSection /\ page = NoPage
  /\ described = 0 /\ sections = 0 /\ pages = 0
  /\ reader = Started("Verify")
  /\ pending = NoPending
  /\ emitted = 0
  /\ failure = "none"
  /\ out = <<>>
  /\ kept = Now
  /\ restores = 0
  /\ failures = 0

Caller == <<file, kept, restores, failures>>

----------------------------------------------------------------------------
(* poll_r2007_walk when the walker needs source bytes. *)

InPage == failure = "none" /\ stage = "Page" /\ pending = NoPending

Needs ==
  \/ failure = "none" /\ stage = "Head" /\ HeadBytes <= file.length
  \/ InPage /\ Status(page, reader) = "Need"

Wanted == IF stage = "Head" THEN [offset |-> Len(head), stride |-> 1, len |-> HeadBytes - Len(head)]
          ELSE Want(page, reader)

Outcomes(scratch) ==
  LET n == Lesser(Lesser(Wanted.len, scratch), ChunkBytes)
  IN IF Wanted.stride = 1 THEN ReadOutcomes(source, Wanted.offset, n)
     ELSE GatherOutcomes(source, Wanted.offset, Wanted.stride, n)

\* take_head: the checks hold only of the header's own bytes.
FeedHead(bytes) ==
  LET taken == head \o bytes
      whole == Len(taken) = HeadBytes
  IN /\ failure' = IF whole /\ ~(file.sound /\ taken = BytesAt(0, HeadBytes)) THEN "R2007Header"
                   ELSE "none"
     /\ head' = IF whole THEN <<>> ELSE taken
     /\ stage' = IF whole THEN "Map" ELSE "Head"
     /\ UNCHANGED <<mapVars, pages, reader, pending, emitted, out>>

FeedPage(bytes) ==
  LET taken == Taken(reader, bytes)
      whole == taken.have = FillTotal(page, taken)
  IN /\ failure' = IF whole /\ Refused(page, taken) THEN "R2007Parity" ELSE "none"
     /\ reader' = IF ~whole THEN taken
                  ELSE IF Refused(page, taken) THEN reader ELSE Completed(page, taken)
     /\ UNCHANGED <<stage, head, mapVars, pages, pending, emitted, out>>

\* What the walker makes of the answer.  The end of the source is the
\* caller's to report: the walker stays as it is.
Answered(answer) ==
  \/ /\ answer.kind = "Ready"
     /\ IF stage = "Head" THEN FeedHead(answer.bytes) ELSE FeedPage(answer.bytes)
     /\ UNCHANGED failures
  \/ answer.kind \in {"Eof", "Pending"} /\ UNCHANGED <<walkVars, failures>>
  \/ /\ answer.kind = "Failed"
     /\ failures < MaxFailures
     /\ failures' = failures + 1
     /\ UNCHANGED walkVars

Poll(outcomes) ==
  /\ \E o \in outcomes : source' = o.source /\ Answered(o.answer)
  /\ UNCHANGED <<file, kept, restores>>

\* The reader gives at least a byte, and perhaps no more.
PollMoves ==
  /\ Needs
  /\ \E scratch \in Scratches : Poll({o \in Outcomes(scratch) : Moved(source, o)})

PollStops ==
  /\ Needs
  /\ \E scratch \in Scratches : Poll({o \in Outcomes(scratch) : ~Moved(source, o)})

----------------------------------------------------------------------------
(* pump_aux for a data page. *)

Pumps(pass, status) == InPage /\ reader.pass = pass /\ Status(page, reader) = status

PumpVerify ==
  /\ Pumps("Verify", "Work")
  /\ IF DecodeFails(page, reader, ChunkBytes) THEN failure' = "Lz77" /\ UNCHANGED reader
     ELSE reader' = Pumped(page, reader, ChunkBytes).reader /\ UNCHANGED failure
  /\ UNCHANGED <<stage, head, mapVars, pages, pending, emitted, out, source>>

\* The gap before the page, inside the section.
Gap ==
  LET from == Lesser(cur.end, cur.size)
      to   == Lesser(page.dataOffset, cur.size)
  IN IF to > from THEN Waiting("Hole", from, to - from) ELSE NoPending

\* verdict and page_verified
PumpVerdict ==
  /\ Pumps("Verify", "Finished")
  /\ IF ~Verdict(page, reader) THEN failure' = "R2007Checksum" /\ UNCHANGED <<pending, emitted, reader, out>>
     ELSE /\ pending' = Gap
          /\ emitted' = 0
          /\ reader' = Started("Emit")
          /\ Hand(<<[step |-> "Page", id |-> page.id]>>)
          /\ UNCHANGED failure
  /\ UNCHANGED <<stage, head, mapVars, pages, source>>

\* A byte of the section: byte `at` of a page, or of no page.
Byte(offset, id, at) == [step |-> "Byte", offset |-> offset, page |-> id, at |-> at]

PumpHole ==
  /\ failure = "none" /\ pending.kind = "Hole"
  /\ pending' = NoPending
  /\ Hand([i \in 1..pending.len |-> Byte(pending.from + i - 1, 0, 0)])
  /\ UNCHANGED <<stage, head, mapVars, pages, reader, emitted, failure, source>>

\* pump_data: what lies past the section's end is cut.
PumpData ==
  /\ Pumps("Emit", "Work")
  /\ LET pumped == Pumped(page, reader, ChunkBytes)
         offset == page.dataOffset + reader.produced
         keep   == Lesser(Len(pumped.bytes), Greater(0, cur.size - offset))
     IN IF DecodeFails(page, reader, ChunkBytes)
        THEN failure' = "Lz77" /\ UNCHANGED <<reader, emitted, out>>
        ELSE /\ reader' = pumped.reader
             /\ emitted' = emitted + keep
             /\ Hand([i \in 1..keep |-> Byte(offset + i - 1, page.id, pumped.bytes[i])])
             /\ UNCHANGED failure
  /\ UNCHANGED <<stage, head, mapVars, pages, pending, source>>

\* page_done
PumpDone ==
  /\ Pumps("Emit", "Finished")
  /\ cur' = [cur EXCEPT !.end = page.dataOffset + page.plain, !.done = @ + 1]
  /\ pages' = pages + 1
  /\ Hand(<<[step |-> "PageEnd", emitted |-> emitted]>>)
  /\ emitted' = 0
  /\ page' = NoPage
  /\ reader' = Started("Verify")
  /\ stage' = "Sections"
  /\ IF cur'.done = cur.pages THEN pending' = SectionEndOf(cur') /\ Expect("Descriptor")
     ELSE UNCHANGED <<pending, rec>>
  /\ UNCHANGED <<head, facts, scan, entryHave, sec, described, sections, failure, source>>

Pump ==
  /\ MapPump \/ PumpVerify \/ PumpVerdict \/ PumpHole \/ PumpData \/ PumpDone
  /\ UNCHANGED Caller

\* The walker asks no more of it: `demand` refuses a source too short for the
\* header and a stream that ends before its page, and a source may end.
Exhausted ==
  \/ failure = "none" /\ stage = "Head" /\ HeadBytes > file.length
  \/ InPage /\ Status(page, reader) = "Truncated"
  \/ Needs /\ Wanted.offset >= SourceSize

Finished == failure # "none" \/ stage = "Done" \/ Exhausted

----------------------------------------------------------------------------
(* Checkpoints *)

\* A failed walk has no checkpoint.
Save ==
  /\ file \in Interrupted /\ restores < MaxRestores
  /\ failure = "none"
  /\ kept' = Now
  /\ UNCHANGED <<file, source, walkVars, restores, failures>>

BlankPage(w) == w.page = NoPage /\ w.reader = Started("Verify") /\ w.emitted = 0

BlankParser(w) ==
  /\ w.rec = NoRecord /\ w.cur = NoSection /\ w.pending = NoPending
  /\ BlankPage(w)
  /\ w.described = 0 /\ w.sections = 0 /\ w.pages = 0

MapDone(w) ==
  /\ w.facts.maps /\ w.facts.own
  /\ w.facts.entries = file.amount /\ w.facts.maxId = file.maxId

\* section_ok: the section being described or walked is one the parser can
\* be in.
BetweenSections(w) ==
  IF w.pending.kind = "SectionEnd"
  THEN /\ w.cur.name > 0 /\ w.cur.trimmed > 0 /\ w.cur.done = w.cur.pages
       /\ w.pending = SectionEndOf(w.cur)
       /\ w.rec.have = 0
       /\ w.cur.index + 1 = w.sections
  ELSE w.pending = NoPending /\ w.cur = NoSection /\ w.rec.have < DescriptorBytes

InName(w) ==
  /\ w.cur.name > 0 /\ w.cur.trimmed = 0 /\ w.cur.done = 0 /\ w.cur.end = 0
  /\ w.cur.index = w.sections
  /\ w.rec.have < w.cur.name
  /\ w.pending = NoPending

\* Faulty variants, named Bad..., are the slips the properties must notice;
\* nothing but the mutation table of PROJECT.json uses them.

BadInReferences(w) ==
  /\ w.cur.name > 0 /\ w.cur.trimmed > 0 /\ w.cur.index + 1 = w.sections
  /\ w.cur.done < w.cur.pages
  /\ w.rec.have < ReferenceBytes
  /\ w.pending = NoPending

InReferences(w) ==
  /\ w.cur.name > 0 /\ w.cur.trimmed > 0 /\ w.cur.index + 1 = w.sections
  /\ w.cur.done < w.cur.pages
  /\ w.rec.have < ReferenceBytes
  /\ w.pending.kind \in {"None", "Hole"}

SectionOk(w) ==
  CASE w.rec.kind = "Descriptor" -> BetweenSections(w)
    [] w.rec.kind = "Name"       -> InName(w)
    [] w.rec.kind = "Reference"  -> InReferences(w)

ReferenceOk(w) ==
  w.page.id # 0 /\ w.page.stored <= w.page.plain /\ w.page.dataOffset >= w.cur.end

\* A map's reader and the entry it is assembling.
ScanOk(w) == w.entryHave = w.scan.part

HeadOk(w) ==
  /\ Len(w.head) < HeadBytes
  /\ w.facts = NoFacts /\ w.scan = NoScan /\ w.sec = NoScan /\ w.entryHave = 0
  /\ BlankParser(w)

MapOk(w) ==
  /\ w.sec = NoScan
  /\ IF w.scan.pass = "Verify" THEN w.facts = NoFacts /\ w.entryHave = 0
     ELSE w.scan.pass = "Emit" /\ ScanOk(w) /\ w.facts.entries = w.scan.whole
  /\ BlankParser(w)

SectionsOk(w) ==
  /\ w.scan = NoScan /\ BlankPage(w) /\ MapDone(w) /\ w.entryHave = 0
  /\ IF w.sec.pass = "Verify" THEN BlankParser(w) ELSE SectionOk(w)

LookupOk(w) ==
  /\ w.sec.pass = "Emit" /\ w.scan.pass = "Scan" /\ MapDone(w)
  /\ w.rec = [kind |-> "Reference", have |-> 0]
  /\ SectionOk(w) /\ ReferenceOk(w)
  /\ w.page.base = 0 /\ w.page.entrySize = 0
  /\ ScanOk(w)
  /\ w.emitted = 0 /\ w.pending = NoPending

HoleOk(w) ==
  LET from == Lesser(w.cur.end, w.cur.size)
      to   == Lesser(w.page.dataOffset, w.cur.size)
  IN w.pending.kind = "Hole" =>
       /\ w.reader.pass = "Emit" /\ w.reader.produced = 0
       /\ w.pending.from = from /\ to > from /\ w.pending.len = to - from

PageOk(w) ==
  /\ w.sec.pass = "Emit" /\ MapDone(w)
  /\ ProgressOk(w.page, w.reader)
  /\ w.rec = [kind |-> "Reference", have |-> 0]
  /\ SectionOk(w) /\ ReferenceOk(w)
  /\ w.page.base >= PageBase /\ ~Outside(w.page)
  /\ w.entryHave = 0
  /\ w.pending.kind # "SectionEnd" /\ HoleOk(w)
  /\ w.emitted <= w.reader.produced
  /\ w.reader.pass = "Emit" \/ w.emitted = 0

DoneOk(w) ==
  /\ w.scan = NoScan /\ w.sec = NoScan /\ BlankPage(w) /\ MapDone(w) /\ w.entryHave = 0
  /\ w.rec = NoRecord /\ w.cur = NoSection /\ w.pending = NoPending
  /\ w.described = file.described

\* `consistent`
Consistent(w) ==
  /\ w.stage # "Head" => w.head = <<>> /\ w.described <= file.described /\ w.sections <= w.described
  /\ CASE w.stage = "Head"     -> HeadOk(w)
       [] w.stage = "Map"      -> MapOk(w)
       [] w.stage = "Sections" -> SectionsOk(w)
       [] w.stage = "Lookup"   -> LookupOk(w)
       [] w.stage = "Page"     -> PageOk(w)
       [] w.stage = "Done"     -> DoneOk(w)

\* A restored walk goes on with the same FileSource, or in a new process.
Restore ==
  /\ file \in Interrupted /\ restores < MaxRestores
  /\ Consistent(kept)
  /\ stage' = kept.stage /\ head' = kept.head
  /\ facts' = kept.facts /\ scan' = kept.scan /\ entryHave' = kept.entryHave
  /\ sec' = kept.sec /\ rec' = kept.rec /\ cur' = kept.cur /\ page' = kept.page
  /\ described' = kept.described /\ sections' = kept.sections /\ pages' = kept.pages
  /\ reader' = kept.reader /\ pending' = kept.pending /\ emitted' = kept.emitted
  /\ failure' = "none"
  /\ out' = kept.out
  /\ source' \in {source, Fresh}
  /\ restores' = restores + 1
  /\ UNCHANGED <<file, kept, failures>>

Rest == Finished /\ UNCHANGED vars

Step == PollMoves \/ Pump

Next == Step \/ PollStops \/ Save \/ Restore \/ Rest

Spec == Init /\ [][Next]_vars

\* What a Step does and no other action: the walk goes on, or the window grows.
Progresses ==
  /\ restores' = restores
  /\ \/ walkVars' # walkVars
     \/ /\ Len(source'.window) > 0
        /\ \/ source'.windowAt # source.windowAt
           \/ Len(source'.window) > Len(source.window)

\* The host keeps calling, and the reader gives some byte, perhaps one, of
\* every so many polls: WF_vars(Step), written out because Step is enabled
\* just while the walk is not finished.
FairSpec == Spec /\ ([]<>Finished \/ []<><<Progresses>>_vars)

\* Places in a stream of a kind.
Places(p, kind) == {i \in DOMAIN p.stream : p.stream[i] = kind}

\* The stream needs bytes of the page's last codeword or chunk, as an
\* encoder's does.
Snug(p) ==
  LET unit == IF p.blocks > 0 THEN Message ELSE ChunkBytes
  IN p.lz => Cardinality(Places(p, "in")) > ((p.stored - 1) \div unit) * unit

\* "Restore-time check that a decoded state is one the walk can reach": it
\* accepts every state the walk reaches, with the header, an entry, a record,
\* a codeword, a message or a run half done, a hole or a section's end still
\* to hand out, when pages' streams fill them.
Restorable ==
  failure = "none" /\ (stage = "Page" => Snug(page)) => Consistent(Now)

\* Between any two polls, whatever the last one met, the reader is where the
\* adapter believes it is, and the window holds the file's own bytes.
SourceTrue == True(source)
=============================================================================
