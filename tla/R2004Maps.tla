----------------------------- MODULE R2004Maps -----------------------------
(***************************************************************************)
(* streaming/r2004.rs, R2004HeaderParser, and streaming/r2004_maps.rs,     *)
(* R2004MapWalker: the file header, the page map and the section map of an *)
(* R2004-family file, and the walk's checkpoint (checkpoint.rs, "DWGM").   *)
(* A map is read twice: once for its checksum, then decompressed, record   *)
(* by record.                                                              *)
(*                                                                         *)
(* A file is                                                               *)
(*   length                                                                *)
(*   magic, header       what its magic and its header are refused for, or *)
(*                       "none"                                            *)
(*   pageMap             the page map's address, as the header has it      *)
(*   pageMapId, sectionMapId                                               *)
(*   pages               what lies at the addresses of its system pages:   *)
(*     kind, at                                                            *)
(*     comp, decomp      declared sizes                                    *)
(*     sum               does the checksum hold                            *)
(*     needs, yields     the LZ77 stream: bytes to its end, bytes of output*)
(*     ends              how: "terminator", "malformed" in its last byte,  *)
(*                       or "cut", past comp                               *)
(*     records           what the output holds; bytes behind the last of   *)
(*                       them are zero                                     *)
(* The sizes of the format are parameters.                                 *)
(***************************************************************************)
EXTENDS Integers, Sequences

CONSTANTS
  Files,
  MagicBytes, HeaderBytes,  \* the file header; pages start behind it
  Align,                    \* 0x20, the unit of page sizes
  SysBytes,                 \* SYS_HEADER, a system page's header
  EntryBytes, GapBytes,     \* records of a page map
  CountBytes, SectionBytes, RefBytes,  \* and of a section map
  CarryBytes,               \* CARRY, the most compressed bytes held
  ChunkBytes,               \* the most one read of the checksum pass asks for
  Scratches,                \* how many bytes the caller reads at a time, at most
  Interrupted, MaxRestarts  \* bound: files whose walk is restarted, how often

Kinds     == {"PageMap", "SectionMap"}

\* What the bytes of a record read as, in each of the forms that may be
\* asked of them: an entry or gap (number, size), a section count (ok, count),
\* a section (ok, id, count, maxPage) or one of its pages (number, start).
RecordType ==
  [ok : BOOLEAN, number : Int, size : Nat, count : Nat, id : Nat, maxPage : Nat, start : Nat]

PageType ==
  [kind : Kinds, at : Nat, comp : Nat, decomp : Nat, sum : BOOLEAN, needs : Nat \ {0},
   yields : Nat, ends : {"terminator", "malformed", "cut"},
   records : Seq(RecordType)]

ASSUME SizesAssumption ==
  /\ {MagicBytes, Align, SysBytes, EntryBytes, GapBytes, CountBytes, SectionBytes, RefBytes,
      CarryBytes, ChunkBytes} \subseteq Nat \ {0}
  /\ HeaderBytes \in Nat /\ HeaderBytes > MagicBytes
  /\ GapBytes > EntryBytes
  /\ Scratches \subseteq Nat \ {0}
  /\ MaxRestarts \in Nat

\* A page's stream ends inside it unless it is cut, and has at most the
\* declared output: an overrun is malformed.
ASSUME FilesAssumption ==
  \A f \in Files :
    /\ {f.length, f.pageMap, f.pageMapId, f.sectionMapId} \subseteq Nat
    /\ f.pageMap >= HeaderBytes
    /\ f.magic \in {"none", "InvalidMagic", "UnsupportedLayout"}
    /\ f.header \in {"none", "R2004Field", "R2004HeaderCrc"}
    /\ \A p \in f.pages :
         /\ p \in PageType
         /\ p.yields <= p.decomp
         /\ IF p.ends = "cut" THEN p.needs = p.comp + 1 ELSE p.needs <= p.comp

VARIABLES
  file,
  walk,     \* the walker's fields
  commits,  \* the steps that commit something, in order
  kept,     \* the caller's checkpoint, and its commits then
  restarts

vars == <<file, walk, commits, kept, restarts>>

Least(a, b) == IF a <= b THEN a ELSE b

----------------------------------------------------------------------------
(* The walker. *)

Stages   == {"Header", "SysHeader", "Check", "Decode", "Done"}
Openings == {"None", "Entry", "Gap", "Count", "Section", "Ref"}

\* record_need of the record that is open.
SizeOf(open) ==
  CASE open = "None"    -> 0
    [] open = "Entry"   -> EntryBytes
    [] open = "Gap"     -> GapBytes
    [] open = "Count"   -> CountBytes
    [] open = "Section" -> SectionBytes
    [] open = "Ref"     -> RefBytes

\* mode: "reading" takes input; "copying" owes output (has_pending_output);
\* "done" has seen the terminator.
NewLz == [consumed |-> 0, produced |-> 0, mode |-> "reading"]

\* filled: header bytes taken; at, size: the page and its map entry's size;
\* done: bytes taken of its header, or of its data this pass; open, have: the
\* open record and its bytes so far; nth: records of the page before it.
NewWalk ==
  [filled |-> 0, stage |-> "Header", kind |-> "PageMap", at |-> 0, size |-> 0, done |-> 0,
   summed |-> 0, lz |-> NewLz, carried |-> 0, open |-> "None", have |-> 0, nth |-> 0,
   address |-> HeaderBytes, entries |-> 0, selfSeen |-> FALSE, mapAt |-> 0, mapSize |-> 0,
   sections |-> 0, refs |-> 0, index |-> 0, id |-> 0, maxPage |-> 0, lastStart |-> 0,
   firstRef |-> TRUE, pagesOnly |-> FALSE, failure |-> "none"]

Init ==
  /\ file \in Files
  /\ walk = NewWalk
  /\ commits = <<>>
  /\ kept = [walk |-> NewWalk, commits |-> <<>>]
  /\ restarts = 0

\* What a read at an address that is no system page's finds.
NoPage ==
  [kind |-> "None", at |-> 0, comp |-> 0, decomp |-> 0, sum |-> FALSE, needs |-> 1, yields |-> 0,
   ends |-> "cut", records |-> <<>>]

PageAt(at) ==
  IF \E p \in file.pages : p.at = at THEN CHOOSE p \in file.pages : p.at = at ELSE NoPage

Page == PageAt(walk.at)

\* A call that leaves the walker as w and commits `new`.
Then(w, new) ==
  /\ walk' = w
  /\ commits' = commits \o new
  /\ UNCHANGED <<file, kept, restarts>>

Fail(error) == Then([walk EXCEPT !.failure = error], <<>>)

\* Faulty variants, named Bad..., are the slips the properties must notice;
\* nothing but the mutation table of PROJECT.json uses them.

BadEnter(w, kind, at, size) ==
  [w EXCEPT !.stage = "SysHeader", !.kind = kind, !.at = at, !.size = size, !.carried = 0,
            !.open = "None", !.have = 0, !.nth = 0]

\* enter_page
Enter(w, kind, at, size) ==
  [w EXCEPT !.stage = "SysHeader", !.kind = kind, !.at = at, !.size = size, !.done = 0,
            !.carried = 0, !.open = "None", !.have = 0, !.nth = 0]

----------------------------------------------------------------------------
(* demand *)

Span(offset, len) == [offset |-> offset, len |-> len]
NoRead == Span(0, 0)

Left == Page.comp - walk.done

\* Input is asked for only when nothing else can move.
NeedsInput ==
  /\ walk.carried = 0 /\ walk.lz.mode = "reading"
  /\ walk.open = "None" \/ walk.have < SizeOf(walk.open)
  /\ Left > 0

\* `target`
Target == IF walk.filled < MagicBytes THEN MagicBytes ELSE HeaderBytes

\* The read asked for; without one there is a pump, or nothing.
Read ==
  CASE walk.stage = "Header"    -> Span(walk.filled, Target - walk.filled)
    [] walk.stage = "SysHeader" -> Span(walk.at + walk.done, SysBytes - walk.done)
    [] walk.stage = "Check"     ->
         Span(walk.at + SysBytes + walk.done, Least(Left, ChunkBytes))
    [] walk.stage = "Decode" /\ NeedsInput ->
         Span(walk.at + SysBytes + walk.done, Least(Left, CarryBytes))
    [] OTHER -> NoRead

\* The source has no byte for the read, or ends within the header's field.
Truncated ==
  /\ Read.len > 0
  /\ Read.offset >= file.length \/ (walk.stage = "Header" /\ Target > file.length)

----------------------------------------------------------------------------
(* feed and pump, one action per thing they can do. *)

\* §4.3: the page map is aligned, its header inside the source.
MapAddress == file.pageMap % Align = 0 /\ file.pageMap + SysBytes <= file.length

\* `transition`, when header bytes 0..end are read.
HeaderFault(end) ==
  IF end = MagicBytes THEN file.magic
  ELSE IF end < HeaderBytes THEN "none"
  ELSE IF file.header # "none" THEN file.header
  ELSE IF MapAddress THEN "none" ELSE "R2004Field"

FeedHeader(n) ==
  /\ walk.stage = "Header"
  /\ Then([walk EXCEPT !.filled = @ + n, !.failure = HeaderFault(walk.filled + n)], <<>>)

PumpHeader ==
  /\ walk.stage = "Header" /\ walk.filled = HeaderBytes
  /\ Then(Enter(walk, "PageMap", file.pageMap, 0), <<[step |-> "Header"]>>)

\* The page lies inside its map entry, where it has one.
Fits == walk.kind = "PageMap" \/ SysBytes + Page.comp <= walk.size

BadSystemHeader ==
  /\ Page.kind = walk.kind
  /\ Page.comp > 0 /\ Page.decomp > 0
  /\ Fits

\* system_header
SystemHeader ==
  /\ Page.kind = walk.kind
  /\ Page.comp > 0 /\ Page.decomp > 0
  /\ walk.at + SysBytes + Page.comp <= file.length
  /\ Fits

FeedSysHeader(n) ==
  /\ walk.stage = "SysHeader"
  /\ \/ /\ walk.done + n < SysBytes
        /\ Then([walk EXCEPT !.done = @ + n], <<>>)
     \/ /\ walk.done + n = SysBytes /\ SystemHeader
        /\ Then([walk EXCEPT !.done = 0, !.summed = 0, !.stage = "Check"], <<>>)
     \/ /\ walk.done + n = SysBytes /\ ~SystemHeader
        /\ Fail("SystemPage")

FeedCheck(n) ==
  /\ walk.stage = "Check"
  /\ Then([walk EXCEPT !.done = @ + n, !.summed = @ + n], <<>>)

SumHolds == Page.sum /\ walk.summed = Page.comp

\* `checked`: from here on the page's bytes may be used.
PumpChecked ==
  /\ walk.stage = "Check" /\ Left = 0
  /\ \/ /\ ~SumHolds
        /\ Fail("SystemPageChecksum")
     \/ /\ SumHolds
        /\ Then([walk EXCEPT !.stage = "Decode", !.done = 0, !.summed = 0, !.carried = 0,
                             !.lz = NewLz, !.have = 0,
                             !.open = IF walk.kind = "PageMap" THEN "Entry" ELSE "Count"],
                <<[step |-> "SystemPage", kind |-> walk.kind, at |-> walk.at]>>)

----------------------------------------------------------------------------
(* Records. *)

\* `open`, after the record at hand.
Open(w, kind) == [w EXCEPT !.open = kind, !.have = 0, !.nth = @ + 1]

Zeros ==
  [ok |-> FALSE, number |-> 0, size |-> 0, count |-> 0, id |-> 0, maxPage |-> 0, start |-> 0]

\* The record that is read after n others of the page at `at`.
RecordAt(at, n) ==
  LET records == PageAt(at).records
  IN IF n + 1 \in DOMAIN records THEN records[n + 1] ELSE Zeros

Whole(w) == RecordAt(w.at, w.nth)

\* The page map's entry for itself.
IsSelf(w, r) ==
  r.number = file.pageMapId => w.address = file.pageMap /\ SysBytes + Page.comp <= r.size

EntryOk(r) == r.number # 0 /\ r.size # 0 /\ r.size % Align = 0

BadEntered(w, r) ==
  LET v == IF r.number = file.sectionMapId THEN [w EXCEPT !.mapAt = w.address, !.mapSize = r.size]
           ELSE w
  IN [v EXCEPT !.address = IF r.number > 0 THEN @ + r.size ELSE @, !.entries = @ + 1,
               !.selfSeen = @ \/ r.number = file.pageMapId]

\* What an entry leaves behind.
Entered(w, r) ==
  LET v == IF r.number = file.sectionMapId THEN [w EXCEPT !.mapAt = w.address, !.mapSize = r.size]
           ELSE w
  IN [v EXCEPT !.address = @ + r.size, !.entries = @ + 1,
               !.selfSeen = @ \/ r.number = file.pageMapId]

\* page_record: a gap carries four more longs before it is committed.
PageRecord(w) ==
  LET r == Whole(w)
  IN \/ /\ r.number < 0 /\ w.open = "Entry"
        /\ Then([w EXCEPT !.open = "Gap"], <<>>)
     \/ /\ r.number >= 0 \/ w.open = "Gap"
        /\ \/ ~EntryOk(r) /\ Fail("PageEntry")
           \/ EntryOk(r) /\ ~IsSelf(w, r) /\ Fail("PageMapSelf")
           \/ /\ EntryOk(r) /\ IsSelf(w, r)
              /\ Then(Open(Entered(w, r), "Entry"),
                      <<[step |-> "Page", number |-> r.number, size |-> r.size,
                         address |-> w.address]>>)

\* next_record
NextRecord(w) ==
  Open(w, IF w.refs > 0 THEN "Ref" ELSE IF w.sections > 0 THEN "Section" ELSE "None")

\* section_record, by what is open.
CountRecord(w) ==
  LET r == Whole(w)
  IN /\ w.open = "Count"
     /\ \/ ~r.ok /\ Fail("SectionMapHeader")
        \/ r.ok /\ Then(NextRecord([w EXCEPT !.sections = r.count]),
                        <<[step |-> "Sections", count |-> r.count]>>)

Description(w) ==
  LET r == Whole(w)
      v == [w EXCEPT !.index = @ + 1, !.id = r.id, !.maxPage = r.maxPage, !.refs = r.count,
                     !.firstRef = TRUE, !.sections = @ - 1]
      ok == r.ok /\ r.maxPage # 0
  IN /\ w.open = "Section"
     /\ \/ ~ok /\ Fail("SectionEntry")
        \/ ok /\ Then(NextRecord(v), <<[step |-> "Section", index |-> w.index, id |-> r.id]>>)

\* Start offsets rise and are whole pages.
RefOk(w, r) == r.start % w.maxPage = 0 /\ (w.firstRef \/ r.start > w.lastStart)

Reference(w) ==
  LET r == Whole(w)
      v == [w EXCEPT !.lastStart = r.start, !.firstRef = FALSE, !.refs = @ - 1]
  IN /\ w.open = "Ref"
     /\ \/ ~RefOk(w, r) /\ Fail("SectionEntry")
        \/ /\ RefOk(w, r)
           /\ Then(NextRecord(v), <<[step |-> "SectionPage", id |-> w.id, number |-> r.number,
                                     start |-> r.start]>>)

SectionRecord(w) == CountRecord(w) \/ Description(w) \/ Reference(w)

\* The stream has given the declared size, and ends between records.
PageWhole(w) ==
  /\ w.lz.produced = Page.decomp /\ w.have = 0
  /\ w.kind = "SectionMap" => w.open = "None"

\* finish_page
FinishPage(w) ==
  LET quiet == [w EXCEPT !.carried = 0]
      done  == Then([quiet EXCEPT !.stage = "Done"], <<[step |-> "Finished"]>>)
  IN \/ ~PageWhole(w) /\ Fail("MapLength")
     \/ PageWhole(w) /\ w.kind = "SectionMap" /\ done
     \/ /\ PageWhole(w) /\ w.kind = "PageMap"
        /\ \/ ~w.selfSeen /\ Fail("PageMapSelf")
           \/ w.selfSeen /\ w.pagesOnly /\ done
           \/ w.selfSeen /\ ~w.pagesOnly /\ w.mapSize = 0 /\ Fail("SectionMapMissing")
           \/ /\ w.selfSeen /\ ~w.pagesOnly /\ w.mapSize > 0
              /\ Then(Enter(quiet, "SectionMap", w.mapAt, w.mapSize), <<>>)

----------------------------------------------------------------------------
(* decode *)

\* One call of the decoder with `given` bytes and `room` for output: it stops
\* when they are used up, at the end of the stream, or, inside a literal run
\* or a copy, when the output is full.
LzCalls(given, room) ==
  {c \in [consumed : 0..given, produced : 0..room, mode : {"reading", "copying", "done"}] :
     LET consumed == walk.lz.consumed + c.consumed
         produced == walk.lz.produced + c.produced
         owes     == c.produced = room /\ produced < Page.yields
     IN /\ produced <= Page.yields
        /\ CASE c.mode = "done"    ->
                  /\ consumed = Page.needs /\ produced = Page.yields
                  /\ Page.ends = "terminator"
             [] c.mode = "copying" -> consumed < Page.needs /\ owes
             [] c.mode = "reading" ->
                  /\ consumed < Page.needs
                  /\ c.consumed = given \/ owes
                  /\ consumed + 1 = Page.needs => produced = Page.yields
        /\ walk.lz.mode = "copying" => c.produced > 0 \/ room = 0
        /\ walk.lz.mode = "reading" /\ c.consumed = 0 => c.produced = 0}

\* Outside a run the decoder reads on after its output is full: it meets a
\* malformed byte in the call that is given it.
LzFails(given, room) ==
  /\ Page.ends = "malformed"
  /\ walk.lz.consumed + given >= Page.needs
  /\ walk.lz.produced + room >= Page.yields

BadDrained == TRUE

\* With every record read, output still to come has nowhere to go.
Drained == walk.open = "None" => walk.lz.produced = Page.decomp

\* The decoder has what was given it, and the walk what it put out.
Decoded(w) ==
  \/ /\ w.open # "None" /\ w.have = SizeOf(w.open)
     /\ IF w.kind = "PageMap" THEN PageRecord(w) ELSE SectionRecord(w)
  \/ /\ w.open = "None" \/ w.have < SizeOf(w.open)
     /\ \/ w.lz.mode = "done" /\ FinishPage(w)
        \/ /\ w.lz.mode # "done"
           /\ IF w.carried = 0 /\ w.lz.mode = "reading" /\ w.done = Page.comp
              THEN Fail("Lz77") ELSE Then(w, <<>>)

\* `decode`, after `given` carried bytes of which `taken` were just fed.
Decode(given, taken) ==
  LET room == SizeOf(walk.open) - walk.have
  IN \/ ~Drained /\ Fail("MapLength")
     \/ Drained /\ LzFails(given, room) /\ Fail("Lz77")
     \/ /\ Drained /\ ~LzFails(given, room)
        /\ \E c \in LzCalls(given, room) :
             Decoded([walk EXCEPT !.done = @ + taken, !.carried = given - c.consumed,
                                  !.have = @ + c.produced,
                                  !.lz = [consumed |-> @.consumed + c.consumed,
                                          produced |-> @.produced + c.produced,
                                          mode |-> c.mode]])

FeedDecode(n) == walk.stage = "Decode" /\ NeedsInput /\ Decode(n, n)

PumpDecode == walk.stage = "Decode" /\ ~NeedsInput /\ Decode(walk.carried, 0)

Feed(n) == FeedHeader(n) \/ FeedSysHeader(n) \/ FeedCheck(n) \/ FeedDecode(n)

Pump == PumpHeader \/ PumpChecked \/ PumpDecode

Walk ==
  /\ walk.failure = "none"
  /\ \/ Pump
     \/ /\ Read.len > 0 /\ ~Truncated
        /\ \E scratch \in Scratches :
             Feed(Least(scratch, Least(Read.len, file.length - Read.offset)))

\* `pages`: the walk over the whole file goes through the page map again.
Again ==
  /\ walk.stage = "Done" /\ ~walk.pagesOnly
  /\ walk' = Enter([NewWalk EXCEPT !.filled = walk.filled, !.pagesOnly = TRUE],
                   "PageMap", file.pageMap, 0)
  /\ commits' = <<>>
  /\ UNCHANGED <<file, kept, restarts>>

----------------------------------------------------------------------------
(* Checkpoint and restore. *)

Quiet(k) == k.carried = 0 /\ k.open = "None" /\ k.have = 0

\* page_ok and in_source
KeptPageOk(k) ==
  /\ k.have <= SizeOf(k.open) /\ k.carried <= CarryBytes
  /\ k.address >= HeaderBytes
  /\ k.at + SysBytes <= file.length
  /\ CASE k.kind = "PageMap"    -> k.at = file.pageMap /\ k.size = 0
       [] k.kind = "SectionMap" ->
            k.selfSeen /\ k.at = k.mapAt /\ k.size = k.mapSize /\ k.size > 0

\* sys_ok
KeptSysOk(k) ==
  LET p == PageAt(k.at)
  IN /\ p.kind = k.kind
     /\ p.comp > 0 /\ p.decomp > 0
     /\ k.at + SysBytes + p.comp <= file.length
     /\ k.kind = "SectionMap" => SysBytes + p.comp <= k.size

BadRecordsOk(k) ==
  CASE k.kind = "PageMap"  -> k.open = "Entry"
    [] OTHER -> TRUE

\* records_ok
RecordsOk(k) ==
  IF k.kind = "PageMap"
  THEN k.open = "Entry" \/ (k.open = "Gap" /\ RecordAt(k.at, k.nth).number < 0)
  ELSE CASE k.open = "Count"   -> k.index = 0 /\ k.sections = 0 /\ k.refs = 0
         [] k.open = "Section" -> k.refs = 0 /\ k.sections > 0
         [] k.open = "Ref"     -> k.refs > 0 /\ k.index > 0 /\ k.maxPage > 0
         [] k.open = "None"    -> k.refs = 0 /\ k.sections = 0
         [] OTHER              -> FALSE

\* `consistent`
Consistent(k) ==
  IF k.stage = "Header" THEN k = [NewWalk EXCEPT !.filled = k.filled]
  ELSE /\ k.filled = HeaderBytes
       /\ KeptPageOk(k)
       /\ CASE k.stage = "SysHeader" -> k.done < SysBytes /\ Quiet(k)
            [] k.stage = "Check"     ->
                 KeptSysOk(k) /\ k.done <= PageAt(k.at).comp /\ Quiet(k)
            [] k.stage = "Decode"    ->
                 /\ KeptSysOk(k) /\ RecordsOk(k)
                 /\ k.done <= PageAt(k.at).comp
                 /\ k.lz.consumed + k.carried = k.done
                 /\ k.summed = 0
            [] k.stage = "Done"      -> k.kind = "SectionMap"

\* A failed walk has no checkpoint, nor has a second pass of its own.
Save ==
  /\ file \in Interrupted /\ restarts < MaxRestarts
  /\ walk.failure = "none" /\ ~walk.pagesOnly
  /\ kept' = [walk |-> walk, commits |-> commits]
  /\ UNCHANGED <<file, walk, commits, restarts>>

\* The decoder is saved only while a page is decoded.
Restored(k) == IF k.stage = "Decode" THEN k ELSE [k EXCEPT !.lz = NewLz]

\* A new process restores the checkpoint.
Restart ==
  /\ file \in Interrupted /\ restarts < MaxRestarts
  /\ restarts' = restarts + 1
  /\ Consistent(kept.walk)
  /\ walk' = Restored(kept.walk)
  /\ commits' = kept.commits
  /\ UNCHANGED <<file, kept>>

Next == Walk \/ Again \/ Save \/ Restart

Spec == Init /\ [][Next]_vars

\* The walk is driven as long as it asks for source bytes or a pump.
FairSpec == Spec /\ WF_vars(Walk)

----------------------------------------------------------------------------
(* Properties. *)

LzType == [consumed : Nat, produced : Nat, mode : {"reading", "copying", "done"}]

Errors ==
  {"none", "InvalidMagic", "UnsupportedLayout", "R2004Field", "R2004HeaderCrc", "SystemPage",
   "SystemPageChecksum", "Lz77", "MapLength", "PageEntry", "PageMapSelf", "SectionMapHeader",
   "SectionEntry", "SectionMapMissing"}

WalkType ==
  [filled : 0..HeaderBytes, stage : Stages, kind : Kinds, at : Nat, size : Nat, done : Nat,
   summed : Nat, lz : LzType, carried : Nat, open : Openings, have : Nat, nth : Nat,
   address : Nat, entries : Nat, selfSeen : BOOLEAN, mapAt : Nat, mapSize : Nat,
   sections : Nat, refs : Nat, index : Nat, id : Nat, maxPage : Nat, lastStart : Nat,
   firstRef : BOOLEAN, pagesOnly : BOOLEAN, failure : Errors]

\* Types of the walker and its saved state: no counter of records that are
\* left, and no subtraction in `demand`, goes below zero.
TypeOK ==
  /\ file \in Files
  /\ walk \in WalkType
  /\ kept.walk \in WalkType
  /\ walk.failure = "none" => Read.offset \in Nat /\ Read.len \in Nat
  /\ restarts \in 0..MaxRestarts

\* "Restore-time check that a decoded state is one the walk can reach": no
\* state of a walk that has not failed is refused by it, as long as the page
\* the walk is at starts in the source.
RestorableInSource ==
  walk.failure = "none" /\ ~walk.pagesOnly /\ walk.at + SysBytes <= file.length =>
    Consistent(walk)

\* After a system page's header, no read leaves the source, the page, or its
\* entry in the page map: nothing is decoded that no checksum covers.
ReadsInPage ==
  walk.failure = "none" /\ walk.stage \in {"Check", "Decode"} =>
    LET end == Read.offset + Read.len
    IN /\ end <= file.length
       /\ Read.len > 0 => Read.offset >= walk.at + SysBytes
                          /\ end <= walk.at + SysBytes + Page.comp
       /\ walk.kind = "SectionMap" => end <= walk.mapAt + walk.mapSize

\* However it is driven, the walk fails, finishes, or is at the end of the
\* source: "output still to come has nowhere to go and would never drain" must
\* not keep it pumping.
Stopped == walk.failure # "none" \/ walk.stage = "Done" \/ Truncated
Rests   == []<>Stopped
=============================================================================
