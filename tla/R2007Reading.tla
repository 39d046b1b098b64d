---------------------------- MODULE R2007Reading ----------------------------
(***************************************************************************)
(* What an R2007 file holds when it is read whole: every map at once,      *)
(* every page from its place, and the properties of the walk over it.      *)
(***************************************************************************)
EXTENDS R2007Walk, SequencesExt

\* The stream decodes to the page's bytes, from the bytes it stores.
Decodes(p) ==
  ~p.lz \/ /\ Places(p, "bad") = {}
           /\ Cardinality(Places(p, "out")) = p.plain
           /\ Cardinality(Places(p, "in")) <= p.stored

----------------------------------------------------------------------------
(* The page map. *)

\* Where entry i is, behind the ones before it.
PlaceOf(i) == FoldFunctionOnSet(+, 0, [j \in DOMAIN file.entries |-> file.entries[j].size], 1..(i - 1))

OfId(id) == {i \in DOMAIN file.entries : Magnitude(file.entries[i].id) = Magnitude(id)}

\* Is entry i one, and where the header says if it is the map's own?
EntrySound(i) ==
  LET e == file.entries[i]
  IN /\ e.id # 0 /\ e.aligned
     /\ Magnitude(e.id) = file.own /\ i = Min(OfId(file.own)) => PlaceOf(i) = file.ownAt

\* The entries up to the first that is not.
SoundEntries ==
  LET bad == {i \in DOMAIN file.entries : ~EntrySound(i)}
  IN IF bad = {} THEN Len(file.entries) ELSE Min(bad) - 1

MapSound ==
  /\ SoundEntries = Len(file.entries) /\ file.tail = 0
  /\ Len(file.entries) = file.amount
  /\ Max({0} \cup {Magnitude(file.entries[i].id) : i \in DOMAIN file.entries}) = file.maxId
  /\ OfId(file.own) # {} /\ OfId(file.maps) # {}
  /\ "Placed" \in file.holds

----------------------------------------------------------------------------
(* A section's pages.  A reading goes through the records with what they   *)
(* have described so far: the section and how much of it, the steps, and   *)
(* whether all was sound.                                                  *)

Reached == [good |-> TRUE, steps |-> <<>>, next |-> "Descriptor", described |-> 0, sections |-> 0,
            pages |-> 0, size |-> 0, left |-> 0, end |-> 0]

Bad(r) == [r EXCEPT !.good = FALSE]

Told(r, steps) == [r EXCEPT !.steps = @ \o steps]

Inside(x, r) == Lesser(x, r.size)

\* The section has no page to come.
Closed(r) ==
  IF r.left > 0 THEN [r EXCEPT !.next = "Reference"]
  ELSE [Told(r, <<[step |-> "SectionEnd", index |-> r.sections - 1, covered |-> Inside(r.end, r)]>>)
          EXCEPT !.next = "Descriptor"]

Descriptor(r, d) ==
  IF r.described = file.described \/ (IF d.name = 0 THEN d.pages > 0 ELSE d.fault # "none") THEN Bad(r)
  ELSE [r EXCEPT !.described = @ + 1, !.next = IF d.name = 0 THEN "Descriptor" ELSE "Name",
                 !.size = d.size, !.left = d.pages, !.end = 0]

Name(r, d) ==
  IF d.fault # "none" \/ (d.trimmed = 0 /\ r.left > 0) THEN Bad(r)
  ELSE IF d.trimmed = 0 THEN [r EXCEPT !.next = "Descriptor"]
  ELSE Closed([Told(r, <<[step |-> "Section", index |-> r.sections]>>) EXCEPT !.sections = @ + 1])

\* The page of a reference, in the place its entry gives it.
PageOf(p) == LET i == Min(OfId(p.id))
             IN [p EXCEPT !.base = PageBase + PlaceOf(i), !.entrySize = file.entries[i].size]

\* It is in its place, whole, and every check of it holds.
PageSound(p) ==
  LET span == IF p.blocks = 0 THEN p.stored ELSE p.blocks * CodeWord
  IN /\ span <= p.entrySize
     /\ p.base + span <= Lesser(file.length, SourceSize)
     /\ p.spoilt = {} /\ p.crc /\ p.sum /\ Decodes(p)

Bytes(from, to, id, start) == [i \in 1..(to - from) |-> Byte(from + i - 1, id, IF id = 0 THEN 0 ELSE from + i - 1 - start)]

\* Zeros up to the page and its bytes, as far as the section goes.
Reference(r, p) ==
  IF p.id = 0 \/ p.stored > p.plain \/ p.dataOffset < r.end \/ OfId(p.id) = {} \/ ~PageSound(PageOf(p))
  THEN Bad(r)
  ELSE LET at  == Inside(p.dataOffset, r)
           to  == Inside(p.dataOffset + p.plain, r)
           all == <<[step |-> "Page", id |-> p.id]>> \o Bytes(Inside(r.end, r), at, 0, 0)
                  \o Bytes(at, to, p.id, p.dataOffset) \o <<[step |-> "PageEnd", emitted |-> to - at]>>
       IN Closed([Told(r, all) EXCEPT !.pages = @ + 1, !.left = @ - 1, !.end = p.dataOffset + p.plain])

Record(r, d) ==
  IF ~r.good THEN r
  ELSE CASE r.next = "Descriptor" -> Descriptor(r, d)
         [] r.next = "Name"       -> Name(r, d)
         [] r.next = "Reference"  -> Reference(r, d.page)

Sections == FoldLeft(Record, Reached, file.records)

\* The map ends behind a section, and described as many as the header says.
SectionsSound(r) == r.good /\ file.rest = 0 /\ r.next = "Descriptor" /\ r.described = file.described

----------------------------------------------------------------------------
(* The file. *)

Headed == HeadBytes <= Lesser(file.length, SourceSize) /\ file.sound

Entries == [i \in 1..SoundEntries |->
              [step |-> "Entry", id |-> file.entries[i].id, offset |-> PlaceOf(i)]]

Reading ==
  LET r == Sections
  IN IF ~Headed \/ "Map" \notin file.holds THEN [good |-> FALSE, steps |-> <<>>]
     ELSE IF ~MapSound \/ "Sections" \notin file.holds THEN [good |-> FALSE, steps |-> Entries]
     ELSE [good  |-> SectionsSound(r),
           steps |-> Entries \o r.steps
                     \o IF SectionsSound(r)
                        THEN <<[step |-> "Finished", sections |-> r.sections, pages |-> r.pages]>>
                        ELSE <<>>]

\* However the reader cuts, blocks or drops the reads, whichever of them come
\* out of the window, and whatever checkpoint the walk goes back to: the
\* caller is handed the sections in the map's order and each one's bytes from
\* its start, no byte of a page before every codeword and sum of that page
\* held, and all of them up to the first thing that is refused; and only the
\* whole file is called finished.
Agrees ==
  LET reading == Reading
  IN /\ IsPrefix(out, reading.steps)
     /\ Finished => out = reading.steps
     /\ Finished => (stage = "Done" <=> reading.good)

\* The walk comes to an end though the reader never gives more than a byte
\* at a time, blocks in every gather, and fails now and then.
Rests == <>[]Finished
=============================================================================
