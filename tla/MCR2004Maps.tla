---------------------------- MODULE MCR2004Maps ----------------------------
(* Files of 28 bytes: a header of 8, then pages of 4, 8 and 8 bytes, the    *)
(* second the page map and the third the section map.  Each variant of the *)
(* sound file has what one check of the walk is for.                       *)
EXTENDS R2004MapReading

Entry(n, size)   == [Zeros EXCEPT !.number = n, !.size = size]
Count(n)         == [Zeros EXCEPT !.ok = TRUE, !.count = n]
Section(id, n) == [Zeros EXCEPT !.ok = TRUE, !.id = id, !.count = n, !.maxPage = 4]
Refer(start)     == [Zeros EXCEPT !.number = 1, !.start = start]

SoundPages ==
  [kind |-> "PageMap", at |-> 12, comp |-> 4, decomp |-> 6, sum |-> TRUE, needs |-> 4,
   yields |-> 6, ends |-> "terminator", records |-> <<Entry(1, 4), Entry(2, 8), Entry(3, 8)>>]

SoundSections ==
  [kind |-> "SectionMap", at |-> 20, comp |-> 5, decomp |-> 9, sum |-> TRUE, needs |-> 4,
   yields |-> 9, ends |-> "terminator",
   records |-> <<Count(1), Section(7, 2), Refer(0), Refer(4)>>]

\* A file whose maps are p and s.
Maps(p, s) ==
  [length |-> 28, magic |-> "none", header |-> "none", pageMap |-> 12, pageMapId |-> 2,
   sectionMapId |-> 3, pages |-> {p, s}]

Sound == Maps(SoundPages, SoundSections)

\* Streams: one byte in the terminator's place, or the end of the page.
Malformed(p)        == [p EXCEPT !.ends = "malformed"]
Cut(p)              == [p EXCEPT !.ends = "cut", !.needs = p.comp + 1]
Yields(p, n)        == [p EXCEPT !.yields = n]
Declares(p, n)      == [p EXCEPT !.decomp = n]
Holds(p, size, rs)  == [p EXCEPT !.decomp = size, !.yields = size, !.records = rs]

PageMaps ==
  {Holds(SoundPages, 7, <<Entry(-1, 4), Entry(2, 8), Entry(3, 8)>>),
   Holds(SoundPages, 8, <<Entry(1, 4), Entry(2, 8), Entry(3, 4), Entry(3, 8)>>),
   Holds(SoundPages, 4, <<Entry(1, 4), Entry(2, 8)>>),
   Holds(SoundPages, 4, <<Entry(1, 12), Entry(3, 8)>>),
   Holds(SoundPages, 6, <<Entry(1, 8), Entry(2, 8), Entry(3, 8)>>),
   Holds(SoundPages, 6, <<Entry(1, 4), Entry(2, 4), Entry(3, 8)>>),
   Holds(SoundPages, 6, <<Entry(1, 4), Entry(2, 8), Entry(3, 6)>>),
   Holds(SoundPages, 6, <<Entry(1, 4), Entry(2, 8), Entry(0, 8)>>),
   Holds(SoundPages, 7, <<Entry(1, 4), Entry(2, 8), Entry(-3, 0)>>),
   Malformed(SoundPages), Cut(SoundPages), Yields(SoundPages, 4), Yields(SoundPages, 5),
   Declares(SoundPages, 7), Malformed(Yields(SoundPages, 3)),
   [SoundPages EXCEPT !.sum = FALSE], [SoundPages EXCEPT !.kind = "SectionMap"],
   [SoundPages EXCEPT !.comp = 14, !.needs = 4], [SoundPages EXCEPT !.comp = 6, !.needs = 5]}

SectionMaps ==
  {Holds(SoundSections, 2, <<Count(0)>>),
   Holds(SoundSections, 8, <<Count(2), Section(7, 0), Section(8, 0)>>),
   Holds(SoundSections, 12, <<Count(2), Section(7, 1), Refer(4), Section(8, 1), Refer(0)>>),
   Holds(SoundSections, 9, <<Count(1), Section(7, 2), Refer(4), Refer(4)>>),
   Holds(SoundSections, 9, <<Count(1), Section(7, 2), Refer(0), Refer(3)>>),
   Holds(SoundSections, 7, <<Count(1), Section(7, 2), Refer(0)>>),
   Holds(SoundSections, 9, <<Count(1), Section(7, 1), Refer(0)>>),
   Holds(SoundSections, 9, <<[Count(1) EXCEPT !.ok = FALSE], Section(7, 2), Refer(0)>>),
   Holds(SoundSections, 9, <<Count(1), [Section(7, 2) EXCEPT !.maxPage = 0]>>),
   Malformed(SoundSections), Cut(SoundSections), Malformed(Yields(SoundSections, 7)),
   Declares(SoundSections, 10), Yields(SoundSections, 8),
   [SoundSections EXCEPT !.sum = FALSE], [SoundSections EXCEPT !.comp = 6],
   [SoundSections EXCEPT !.decomp = 0, !.yields = 0], [SoundSections EXCEPT !.at = 16]}

\* The source ends in the header, before, in and behind the section map's
\* header, or the file header is refused.
Ends    == {[Sound EXCEPT !.length = n] : n \in {1, 5, 14, 16, 20, 22, 23, 24, 27}}
Headers ==
  {[Sound EXCEPT !.magic = "InvalidMagic"], [Sound EXCEPT !.header = "R2004HeaderCrc"],
   [Sound EXCEPT !.pageMap = 10]}

Variants == {Maps(p, SoundSections) : p \in PageMaps} \cup {Maps(SoundPages, s) : s \in SectionMaps}

MCFiles == {Sound} \cup Variants \cup Ends \cup Headers

\* A section map of records of every kind, and a page map with a gap, are
\* those whose walk is interrupted.
ResumedFiles ==
  {Sound} \cup {[Sound EXCEPT !.length = n] : n \in {22, 27}}
  \cup {Maps(Holds(SoundPages, 7, <<Entry(-1, 4), Entry(2, 8), Entry(3, 8)>>),
             Holds(SoundSections, 8, <<Count(2), Section(7, 0), Section(8, 0)>>))}

\* A section map whose stream goes wrong behind its last record.
AllFiles == MCFiles \cup ResumedFiles
=============================================================================
