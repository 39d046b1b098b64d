----------------------------- MODULE R2004Walk -----------------------------
(***************************************************************************)
(* streaming/r2004_walk.rs, R2004Walker: an R2004-family file in two       *)
(* passes, and its checkpoint (checkpoint.rs, "DWGF").  Pass A reads the   *)
(* page map and the section map and keeps a table of sections: how many    *)
(* pages each lists, and a digest of which.  Pass B reads the page map     *)
(* again and walks each data page it finds there.  At the end what was     *)
(* found must be what was listed.                                          *)
(*                                                                         *)
(* A file is what its maps and page headers say:                           *)
(*   sections  the section map, each with the pages it lists               *)
(*   pages     the page map: per entry its number, whether a header fits   *)
(*             the source at its address (fits), and what is there: is the *)
(*             header's checksum right (sum), is it a data page (typed),   *)
(*             the section id and place it names, whether the page walks   *)
(*             to its end (sound) and in how many Data steps (parts)       *)
(*   system    the numbers of the page map's and section map's own pages   *)
(*                                                                         *)
(* The map walker is its records in their order; the section walker is     *)
(* what it hands out for one page (SectionWalk models it).  A digest of    *)
(* page references is the multiset of them: two multisets whose 64-bit     *)
(* sums collide are left out.                                              *)
(***************************************************************************)
EXTENDS Integers, Sequences, FiniteSets

CONSTANTS
  Files,
  MaxSections,  \* MAX_SECTIONS, the table's size
  HeadBytes,    \* HEAD, a page header's size
  Scratches,    \* how many bytes the caller reads at a time, at most
  MaxRestarts   \* bound: restarts of the process

Ref         == [number : Nat \ {0}, start : Nat, data : Nat]
SectionType == [id : Nat, count : Nat, maxPage : Nat \ {0}, encrypted : BOOLEAN, refs : Seq(Ref)]
PageType ==
  [number : Int, fits : BOOLEAN, sum : BOOLEAN, typed : BOOLEAN, id : Nat, start : Nat,
   data : Nat, sound : BOOLEAN, parts : Nat]
FileType == [sections : Seq(SectionType), pages : Seq(PageType), system : SUBSET Nat]

\* What the map walker lets through: as many references as declared, their
\* starts rising.
ASSUME FilesAssumption ==
  \A f \in Files :
    /\ f \in FileType
    /\ \A s \in DOMAIN f.sections :
         LET refs == f.sections[s].refs
         IN /\ Len(refs) = f.sections[s].count
            /\ \A i \in DOMAIN refs : \A j \in 1..(i - 1) : refs[j].start < refs[i].start
ASSUME SizesAssumption ==
  /\ MaxSections \in Nat
  /\ HeadBytes \in Nat \ {0}
  /\ Scratches \subseteq Nat \ {0}
  /\ MaxRestarts \in Nat

VARIABLES
  file,
  stage,
  maps,      \* where the map walker is
  slots,     \* the table of sections
  entry,     \* the page map entry at hand, or 0
  peeked,    \* bytes of its header read
  page,      \* the section walker: the page it was started on, parts handed out
  pages,     \* data pages walked
  failure,
  handed,    \* per page map entry, the parts the caller was handed
  kept,      \* the checkpoint, with what the caller had then
  restarts

walkVars == <<stage, maps, slots, entry, peeked, page, pages, failure>>
vars     == <<file, walkVars, handed, kept, restarts>>

Least(a, b) == IF a < b THEN a ELSE b

\* Faulty variants, named Bad..., are the slips the properties must notice;
\* nothing but the mutation table of PROJECT.json uses them.

Stages == {"Maps", "Pages", "Peek", "Walk", "Verify", "Done"}

NoPage == [id |-> 0, number |-> 0, start |-> 0, given |-> 0]

\* header: is the file header read; entries: page map records read;
\* sectionIndex, refsLeft: sections described, references still to come.
NewMaps == [header |-> FALSE, entries |-> 0, sectionIndex |-> 0, refsLeft |-> 0]

\* R2004MapWalker::pages: at the page map again.
PagesAgain == [NewMaps EXCEPT !.header = TRUE]

\* What a page's header says of it, as a reference would.
RefAt(p) == [number |-> p.number, start |-> p.start, data |-> p.data]

ListedRefs(f) ==
  UNION {{f.sections[s].refs[j] : j \in DOMAIN f.sections[s].refs} : s \in DOMAIN f.sections}
PageRefs(f) == {RefAt(f.pages[i]) : i \in DOMAIN f.pages}

Refs == UNION {ListedRefs(f) \cup PageRefs(f) : f \in Files}

NoDigest == [r \in Refs |-> 0]

\* wrapping_add of a reference's mix
Mixed(digest, r) == [digest EXCEPT ![r] = @ + 1]

Now ==
  [stage |-> stage, maps |-> maps, slots |-> slots, entry |-> entry, peeked |-> peeked,
   page |-> page, pages |-> pages, handed |-> handed]

Init ==
  /\ file \in Files
  /\ stage = "Maps"
  /\ maps = NewMaps
  /\ slots = <<>>
  /\ entry = 0 /\ peeked = 0
  /\ page = NoPage
  /\ pages = 0
  /\ failure = FALSE
  /\ handed = [i \in DOMAIN file.pages |-> <<>>]
  /\ kept = Now
  /\ restarts = 0

Fail == failure' = TRUE

----------------------------------------------------------------------------
(* Pass A. *)

MapHeader ==
  /\ stage = "Maps" /\ ~maps.header
  /\ maps' = [maps EXCEPT !.header = TRUE]
  /\ UNCHANGED <<stage, slots, entry, peeked, page, pages, failure, handed>>

PageRecord == maps.header /\ maps.entries < Len(file.pages)

\* Pass A only hears of the pages.
MapPage ==
  /\ stage = "Maps" /\ PageRecord
  /\ maps' = [maps EXCEPT !.entries = @ + 1]
  /\ UNCHANGED <<stage, slots, entry, peeked, page, pages, failure, handed>>

InSections == maps.header /\ maps.entries = Len(file.pages)

BadTableFull == Len(slots) > MaxSections

TableFull == Len(slots) = MaxSections

\* add_section
Admits(s) == ~s.encrypted /\ ~TableFull /\ \A i \in DOMAIN slots : slots[i].id # s.id

SlotOf(s) ==
  [id |-> s.id, count |-> s.count, maxPage |-> s.maxPage, refs |-> 0, listed |-> NoDigest,
   seen |-> 0, found |-> NoDigest]

MapSection ==
  /\ stage = "Maps" /\ InSections
  /\ maps.refsLeft = 0 /\ maps.sectionIndex < Len(file.sections)
  /\ LET s == file.sections[maps.sectionIndex + 1]
     IN /\ maps' = [maps EXCEPT !.sectionIndex = @ + 1, !.refsLeft = s.count]
        /\ \/ Admits(s) /\ slots' = Append(slots, SlotOf(s)) /\ UNCHANGED failure
           \/ ~Admits(s) /\ Fail /\ UNCHANGED slots
  /\ UNCHANGED <<stage, entry, peeked, page, pages, handed>>

\* add_reference
MapReference ==
  /\ stage = "Maps" /\ InSections
  /\ maps.refsLeft > 0
  /\ LET s == file.sections[maps.sectionIndex]
         r == s.refs[s.count - maps.refsLeft + 1]
     IN slots' = [slots EXCEPT ![Len(slots)].refs = @ + 1,
                               ![Len(slots)].listed = Mixed(@, r)]
  /\ maps' = [maps EXCEPT !.refsLeft = @ - 1]
  /\ UNCHANGED <<stage, entry, peeked, page, pages, failure, handed>>

\* A finished map pass turns to the second.
MapFinished ==
  /\ stage = "Maps" /\ InSections
  /\ maps.refsLeft = 0 /\ maps.sectionIndex = Len(file.sections)
  /\ maps' = PagesAgain
  /\ stage' = "Pages"
  /\ UNCHANGED <<slots, entry, peeked, page, pages, failure, handed>>

\* The header or a map may turn out malformed; the second pass reads what
\* the first has found sound.
MapFails ==
  /\ stage = "Maps"
  /\ Fail
  /\ UNCHANGED <<stage, maps, slots, entry, peeked, page, pages, handed>>

----------------------------------------------------------------------------
(* Pass B. *)

\* Gaps, and the maps' own pages.
Skipped(p) == p.number <= 0 \/ p.number \in file.system

BadPassed(m) == IF Skipped(file.pages[m.entries + 1]) THEN m ELSE [m EXCEPT !.entries = @ + 1]

\* The map walker's record is read, whatever becomes of the page.
Passed(m) == [m EXCEPT !.entries = @ + 1]

PageFound ==
  /\ stage = "Pages" /\ PageRecord
  /\ maps' = Passed(maps)
  /\ LET p == file.pages[maps.entries + 1]
     IN \/ /\ Skipped(p)
           /\ UNCHANGED <<stage, entry, peeked, failure>>
        \/ /\ ~Skipped(p) /\ p.fits
           /\ entry' = maps.entries + 1
           /\ peeked' = 0
           /\ stage' = "Peek"
           /\ UNCHANGED failure
        \/ /\ ~Skipped(p) /\ ~p.fits
           /\ Fail
           /\ UNCHANGED <<stage, entry, peeked>>
  /\ UNCHANGED <<slots, page, pages, handed>>

PagesFinished ==
  /\ stage = "Pages" /\ InSections
  /\ stage' = "Verify"
  /\ UNCHANGED <<maps, slots, entry, peeked, page, pages, failure, handed>>

PeekPart(n) ==
  /\ stage = "Peek"
  /\ peeked + n < HeadBytes
  /\ peeked' = peeked + n
  /\ UNCHANGED <<stage, maps, slots, entry, page, pages, failure, handed>>

\* The header at the entry is whole: it names the section and the page's
\* place there.
HeaderNames(p) == p.sum /\ p.typed /\ \E i \in DOMAIN slots : slots[i].id = p.id

\* begin_page, for a section taken to be this one page.
Begins(p, slot) == p.start % slot.maxPage = 0

Counted(slot, r) == [slot EXCEPT !.seen = @ + 1, !.found = Mixed(@, r)]

PeekWhole(n) ==
  /\ stage = "Peek"
  /\ peeked + n = HeadBytes
  /\ peeked' = 0
  /\ LET p == file.pages[entry]
     IN \/ /\ ~HeaderNames(p)
           /\ Fail
           /\ UNCHANGED <<stage, slots, page>>
        \/ /\ p.sum /\ p.typed
           /\ \E i \in DOMAIN slots :
                /\ slots[i].id = p.id
                /\ slots' = [slots EXCEPT ![i] = Counted(@, RefAt(p))]
                /\ \/ /\ Begins(p, slots[i])
                      /\ page' = [id |-> p.id, number |-> p.number, start |-> p.start, given |-> 0]
                      /\ stage' = "Walk"
                      /\ UNCHANGED failure
                   \/ /\ ~Begins(p, slots[i])
                      /\ Fail
                      /\ UNCHANGED <<stage, page>>
  /\ UNCHANGED <<maps, entry, pages, handed>>

\* on_page: the section walker's steps, each tagged with its section.
PageData ==
  /\ stage = "Walk"
  /\ page.given < file.pages[entry].parts
  /\ page' = [page EXCEPT !.given = @ + 1]
  /\ handed' = [handed EXCEPT ![entry] =
       Append(@, [id |-> page.id, start |-> page.start, part |-> page.given + 1])]
  /\ UNCHANGED <<stage, maps, slots, entry, peeked, pages, failure>>

PageEnds ==
  /\ stage = "Walk"
  /\ file.pages[entry].sound /\ page.given = file.pages[entry].parts
  /\ pages' = pages + 1
  /\ entry' = 0
  /\ stage' = "Pages"
  /\ UNCHANGED <<maps, slots, peeked, page, failure, handed>>

PageFails ==
  /\ stage = "Walk"
  /\ ~file.pages[entry].sound /\ page.given = file.pages[entry].parts
  /\ Fail
  /\ UNCHANGED <<stage, maps, slots, entry, peeked, page, pages, handed>>

BadMatches(slot) == slot.seen = slot.refs

Matches(slot) == slot.seen = slot.refs /\ slot.found = slot.listed

Verify ==
  /\ stage = "Verify"
  /\ \/ /\ \A i \in DOMAIN slots : Matches(slots[i])
        /\ stage' = "Done"
        /\ UNCHANGED failure
     \/ /\ \E i \in DOMAIN slots : ~Matches(slots[i])
        /\ Fail
        /\ UNCHANGED stage
  /\ UNCHANGED <<maps, slots, entry, peeked, page, pages, handed>>

Maps  == MapHeader \/ MapPage \/ MapSection \/ MapReference \/ MapFinished \/ MapFails
Peek  == \E scratch \in Scratches :
           LET n == Least(scratch, HeadBytes - peeked) IN PeekPart(n) \/ PeekWhole(n)
Pages == PageFound \/ PagesFinished \/ PageData \/ PageEnds \/ PageFails

Walk ==
  /\ ~failure
  /\ Maps \/ Pages \/ Peek \/ Verify
  /\ UNCHANGED <<file, kept, restarts>>

----------------------------------------------------------------------------
(* Checkpoint and restore. *)

\* The table: ids unique, no more listed than declared, no more found than
\* listed.
SlotsOk(k) ==
  /\ Len(k.slots) <= MaxSections
  /\ \A i \in DOMAIN k.slots :
       /\ k.slots[i].refs <= k.slots[i].count
       /\ k.slots[i].seen <= k.slots[i].refs
       /\ k.slots[i].seen = 0 => k.slots[i].found = NoDigest
       /\ k.slots[i].refs = 0 => k.slots[i].listed = NoDigest
       /\ \A j \in 1..(i - 1) : k.slots[j].id # k.slots[i].id

BadLastOk(k) == k.slots # <<>> => k.slots[Len(k.slots)].refs = k.slots[Len(k.slots)].count

\* What the map walker is still to say of the last section.
LastOk(k) ==
  k.slots # <<>> =>
    LET last == k.slots[Len(k.slots)] IN last.refs + k.maps.refsLeft = last.count

TableWhole(k) == \A i \in DOMAIN k.slots : k.slots[i].refs = k.slots[i].count

Blank(k) == k.entry = 0 /\ k.peeked = 0

EntryOk(k) ==
  k.entry \in DOMAIN file.pages /\ ~Skipped(file.pages[k.entry]) /\ file.pages[k.entry].fits

\* `consistent`
Consistent(k) ==
  /\ SlotsOk(k)
  /\ CASE k.stage = "Maps" ->
            /\ k.maps.sectionIndex = Len(k.slots)
            /\ \A i \in DOMAIN k.slots : k.slots[i].seen = 0
            /\ \A i \in 1..(Len(k.slots) - 1) : k.slots[i].refs = k.slots[i].count
            /\ LastOk(k)
            /\ Blank(k) /\ k.pages = 0
       [] k.stage = "Pages" -> TableWhole(k) /\ Blank(k)
       [] k.stage = "Peek"  -> TableWhole(k) /\ EntryOk(k) /\ k.peeked < HeadBytes
       [] k.stage = "Walk"  ->
            /\ TableWhole(k) /\ EntryOk(k) /\ k.peeked = 0
            /\ \E i \in DOMAIN k.slots : k.slots[i].id = k.page.id /\ k.slots[i].seen > 0
            /\ k.page.number = file.pages[k.entry].number
       [] k.stage = "Verify" -> TableWhole(k) /\ Blank(k) /\ k.maps.header
       [] k.stage = "Done"   ->
            /\ TableWhole(k) /\ Blank(k) /\ k.maps.header
            /\ \A i \in DOMAIN k.slots : Matches(k.slots[i])

\* A failed walk has no checkpoint.
Save ==
  /\ restarts < MaxRestarts
  /\ ~failure
  /\ kept' = Now
  /\ UNCHANGED <<file, walkVars, handed, restarts>>

BadKeptMaps == IF kept.stage = "Maps" THEN kept.maps ELSE PagesAgain

\* A map pass that is over leaves only its header.
KeptMaps == IF kept.stage \in {"Verify", "Done"} THEN PagesAgain ELSE kept.maps

\* The section walker is saved only in the middle of a page.
KeptPage == IF kept.stage = "Walk" THEN kept.page ELSE NoPage

Restart ==
  /\ restarts < MaxRestarts
  /\ restarts' = restarts + 1
  /\ Consistent(kept)
  /\ stage' = kept.stage /\ maps' = KeptMaps /\ slots' = kept.slots
  /\ entry' = kept.entry /\ peeked' = kept.peeked /\ page' = KeptPage
  /\ pages' = kept.pages /\ handed' = kept.handed
  /\ failure' = FALSE
  /\ UNCHANGED <<file, kept>>

Next == Walk \/ Save \/ Restart

Spec == Init /\ [][Next]_vars

\* The walk is driven as long as it asks for source bytes or a pump.
FairSpec == Spec /\ WF_vars(Walk)

----------------------------------------------------------------------------
(* Properties. *)

MapsType == [header : BOOLEAN, entries : Nat, sectionIndex : Nat, refsLeft : Nat]
SlotType ==
  [id : Nat, count : Nat, maxPage : Nat \ {0}, refs : Nat, listed : [Refs -> Nat],
   seen : Nat, found : [Refs -> Nat]]
WalkerType == [id : Nat, number : Nat, start : Nat, given : Nat]
PartType   == [id : Nat, start : Nat, part : Nat]
NowType ==
  [stage : Stages, maps : MapsType, slots : Seq(SlotType), entry : Nat, peeked : Nat,
   page : WalkerType, pages : Nat, handed : [DOMAIN file.pages -> Seq(PartType)]]

\* Types of the walk and of its saved state; the table never outgrows its
\* fixed size.
TypeOK ==
  /\ file \in Files
  /\ Now \in NowType
  /\ kept \in NowType
  /\ Len(slots) <= MaxSections
  /\ entry <= Len(file.pages)
  /\ peeked < HeadBytes
  /\ failure \in BOOLEAN
  /\ restarts \in 0..MaxRestarts

\* The first n parts of the page at entry i.
Parts(i, n) ==
  [m \in 1..n |-> [id |-> file.pages[i].id, start |-> file.pages[i].start, part |-> m]]

DataPages == {i \in DOMAIN file.pages : ~Skipped(file.pages[i])}

\* Page map entries behind the walk.
Behind(k) ==
  CASE k.stage = "Maps" -> 0
    [] k.stage \in {"Verify", "Done"} -> Len(file.pages)
    [] k.stage = "Pages" -> k.maps.entries
    [] OTHER -> k.entry - 1

\* How many parts of the page at entry i the caller must have.
Due(k, i) ==
  IF i \in DataPages /\ i <= Behind(k) /\ file.pages[i].fits THEN file.pages[i].parts
  ELSE IF i = k.entry /\ k.stage = "Walk" THEN k.page.given
  ELSE 0

HandedOk(k) == \A i \in DOMAIN file.pages : k.handed[i] = Parts(i, Due(k, i))

\* "Each page's bytes come out tagged with their section and offset in the
\* section, in page-map order": every data page behind the walk was handed
\* out whole and once, the one it is on up to where it is, and nothing else,
\* wherever the walk was stopped and resumed.  (One past the source's end
\* stops the walk.)
InMapOrder == HandedOk(Now)

\* The data pages up to entry n that name a section and a reference.
Found(id, r, n) ==
  {i \in DataPages : i <= n /\ file.pages[i].id = id /\ RefAt(file.pages[i]) = r}

\* "Every page the page map holds was walked and every section's pages are
\* exactly the ones the section map listed": once the walk says Finished,
\* each reference has its one page and no other page was handed out.
Accounted ==
  stage = "Done" =>
    /\ pages = Cardinality(DataPages)
    /\ \A i \in DataPages :
         /\ Len(handed[i]) = file.pages[i].parts
         /\ \E s \in DOMAIN file.sections :
              /\ file.sections[s].id = file.pages[i].id
              /\ \E j \in DOMAIN file.sections[s].refs :
                   file.sections[s].refs[j] = RefAt(file.pages[i])
    /\ \A s \in DOMAIN file.sections :
         \A j \in DOMAIN file.sections[s].refs :
           Cardinality(Found(file.sections[s].id, file.sections[s].refs[j], Len(file.pages))) = 1

\* "Restore requires a state the walk can reach": no state of a walk that has
\* not failed should be refused.
Restorable == ~failure => Consistent(Now)

\* Restore accepts every state in which no section has been found to have
\* more pages than it lists.
RestorableListed ==
  ~failure /\ (\A i \in DOMAIN slots : slots[i].seen <= slots[i].refs) => Consistent(Now)

\* A driven walk fails or finishes.
Ends == <>(failure \/ stage = "Done")
----------------------------------------------------------------------------
(* What a sound state is.  The table holds the sections described so far,  *)
(* each with the references read of it; and each slot has found exactly    *)
(* the pages of its section whose headers were read.                       *)

\* Page map entries whose headers were taken.
Taken(k) == IF k.stage = "Walk" THEN k.entry ELSE Behind(k)

RefsRead(i, n, r) == {j \in 1..n : file.sections[i].refs[j] = r}

SlotSound(k, i) ==
  LET slot == k.slots[i]
      s    == file.sections[i]
  IN /\ slot.id = s.id /\ slot.count = s.count /\ slot.maxPage = s.maxPage
     /\ slot.refs <= s.count
     /\ slot.seen = 0 => slot.found = NoDigest
     /\ \A j \in 1..(i - 1) : k.slots[j].id # slot.id
     /\ \A r \in Refs :
          /\ slot.listed[r] = Cardinality(RefsRead(i, slot.refs, r))
          /\ slot.found[r] = Cardinality(Found(slot.id, r, Taken(k)))

PageSound(k, i) ==
  /\ file.pages[i].fits
  /\ \E m \in DOMAIN k.slots : k.slots[m].id = file.pages[i].id

MapsSound(k) ==
  IF k.stage = "Maps" THEN
    /\ k.maps.sectionIndex = Len(k.slots)
    /\ k.slots # <<>> \/ k.maps.refsLeft > 0 => k.maps.header /\ k.maps.entries = Len(file.pages)
    /\ k.maps.refsLeft > 0 => k.slots # <<>>
    /\ \A i \in DOMAIN k.slots : k.slots[i].seen = 0
    /\ \A i \in 1..(Len(k.slots) - 1) : k.slots[i].refs = k.slots[i].count
    /\ LastOk(k)
  ELSE k.maps.header /\ Len(k.slots) = Len(file.sections) /\ TableWhole(k)

EntrySound(k) ==
  IF k.stage \in {"Peek", "Walk"} THEN
    /\ k.entry = k.maps.entries /\ k.entry \in DataPages /\ file.pages[k.entry].fits
  ELSE Blank(k)

WalkSound(k) ==
  k.stage = "Walk" =>
    /\ k.peeked = 0
    /\ k.page.id = file.pages[k.entry].id /\ k.page.number = file.pages[k.entry].number
    /\ k.page.start = file.pages[k.entry].start
    /\ k.page.given <= file.pages[k.entry].parts
    /\ \E m \in DOMAIN k.slots : k.slots[m].id = k.page.id /\ k.slots[m].seen > 0

Sound(k) ==
  /\ k.maps.entries <= Len(file.pages)
  /\ Len(k.slots) <= Len(file.sections) /\ Len(k.slots) <= MaxSections
  /\ k.peeked < HeadBytes
  /\ MapsSound(k) /\ EntrySound(k) /\ WalkSound(k)
  /\ \A i \in DOMAIN k.slots : SlotSound(k, i)
  /\ \A i \in DataPages : i <= Taken(k) => PageSound(k, i)
  /\ k.pages = Cardinality({i \in DataPages : i <= Behind(k)})
  /\ k.stage = "Maps" => k.pages = 0
  /\ k.stage = "Done" => \A i \in DOMAIN k.slots : Matches(k.slots[i])
  /\ HandedOk(k)

WalkInv ==
  /\ TypeOK
  /\ ~failure => Sound(Now)
  /\ failure => stage # "Done"
  /\ InMapOrder
  /\ Sound(kept)
=============================================================================
