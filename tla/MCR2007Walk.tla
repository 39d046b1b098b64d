----------------------------- MODULE MCR2007Walk -----------------------------
(* Files of a header of two bytes and one or two pages behind it, in a source *)
(* of thirteen bytes: codewords of three bytes, two of them message; a gather *)
(* of three bytes two apart is more than the window of three spans, one of     *)
(* two is not.  The page map lists both pages, itself and the section map.    *)
EXTENDS R2007Reading

In  == "in"
Out == "out"

Coded2 ==  \* two codewords, three stored bytes that decode to four
  [id |-> 1, base |-> 0, entrySize |-> 0, blocks |-> 2, stored |-> 3, plain |-> 4, lz |-> TRUE,
   stream |-> <<In, Out, In, In, Out, Out, Out>>, spoilt |-> {}, crc |-> TRUE, sum |-> TRUE,
   dataOffset |-> 0]

Coded1 ==  \* one codeword, two bytes stored as they are
  [Coded2 EXCEPT !.id = -2, !.blocks = 1, !.stored = 2, !.plain = 2, !.lz = FALSE, !.stream = <<>>,
                 !.dataOffset = 5]

Bare ==    \* four bytes stored as they are, in two chunks
  [Coded1 EXCEPT !.id = 2, !.blocks = 0, !.stored = 4, !.plain = 4, !.dataOffset = 4]

BareLz ==
  [Coded2 EXCEPT !.id = 2, !.blocks = 0, !.stored = 4, !.plain = 5,
                 !.stream = <<In, Out, Out, In, In, Out, In, Out, Out>>]

Empty ==   \* a page of no bytes still has a codeword
  [Coded1 EXCEPT !.stored = 0, !.plain = 0, !.dataOffset = 4]

Descriptor1(name, size, n) ==
  [kind |-> "Descriptor", name |-> name, size |-> size, pages |-> n, fault |-> "none"]
Name1(n) == [kind |-> "Name", trimmed |-> n, fault |-> "none"]
Refer(p) == [kind |-> "Reference", page |-> p]

\* The records of a section of those pages.
SectionOf(size, ps) ==
  <<Descriptor1(2, size, Len(ps)), Name1(2)>> \o [i \in 1..Len(ps) |-> Refer(ps[i])]

Entry(id, size) == [id |-> id, size |-> size, aligned |-> TRUE]

\* Pages 1 and 2 where the data is, the maps behind it.
Listed == <<Entry(1, 6), Entry(2, 4), Entry(4, 0), Entry(3, 0)>>

File(records, amount) ==
  [length |-> 13, sound |-> TRUE, own |-> 4, ownAt |-> 10, maps |-> 3, amount |-> 4, maxId |-> 4,
   described |-> amount, entries |-> Listed, tail |-> 0, records |-> records, rest |-> 0,
   holds |-> {"Map", "Placed", "Sections"}]

Section(size, ps) == File(SectionOf(size, ps), 1)
One(p) == Section(9, <<p>>)

\* The same with no page but that.
Short(p) ==
  [One(p) EXCEPT !.entries = <<Entry(p.id, 6), Entry(4, 0), Entry(3, 0)>>, !.amount = 3, !.ownAt = 6]
Sound1 == Section(7, <<Coded2, Coded1>>)

\* A page refused in each way there is.
Refuses ==
  {One([Coded2 EXCEPT !.spoilt = {0}]), One([Coded2 EXCEPT !.spoilt = {1}]),
   One([Coded2 EXCEPT !.crc = FALSE]), One([Coded2 EXCEPT !.sum = FALSE]),
   One([Coded2 EXCEPT !.stream = <<In, Out, In, "bad">>]),
   One([Coded2 EXCEPT !.stream = <<In, Out, In, In, Out, Out>>]),
   One([Coded2 EXCEPT !.stream = <<In, Out, In, In, In, Out, Out, Out>>]),
   One([Coded2 EXCEPT !.stream = <<In, Out, Out, Out, Out>>]),
   One([Coded2 EXCEPT !.id = 2]), One([Coded2 EXCEPT !.id = 5]), One([Coded2 EXCEPT !.id = 0]),
   One([Coded2 EXCEPT !.stored = 5, !.blocks = 3]),
   One([BareLz EXCEPT !.sum = FALSE]), One([Empty EXCEPT !.spoilt = {0}]),
   Section(9, <<Coded2, [Coded1 EXCEPT !.dataOffset = 3]>>),
   Section(9, <<[BareLz EXCEPT !.dataOffset = 2], [Coded2 EXCEPT !.dataOffset = 7, !.crc = FALSE]>>)}

\* Cut in the hole, in a page and before a page.
Cuts ==
  {Section(n, <<Coded2, Coded1>>) : n \in {2, 4, 6}}
    \cup {Section(5, <<Coded2, Bare>>), Section(6, <<Coded2, Empty>>)}

\* Two sections with an unnamed descriptor and one without a page between
\* them.
Several ==
  File(SectionOf(4, <<[Bare EXCEPT !.dataOffset = 0]>>) \o <<Descriptor1(0, 0, 0)>>
         \o SectionOf(0, <<>>) \o <<Descriptor1(2, 0, 0), Name1(0)>>
         \o SectionOf(2, <<[Coded1 EXCEPT !.dataOffset = 0]>>), 5)

Maps == Several.records

\* Maps refused in each way there is.
Spoilt ==
  {[Sound1 EXCEPT !.sound = FALSE], [Sound1 EXCEPT !.length = 1], [Sound1 EXCEPT !.length = 11],
   [Sound1 EXCEPT !.length = 14, !.entries[2].size = 5, !.entries[1].size = 9, !.ownAt = 14],
   [Sound1 EXCEPT !.holds = {"Placed", "Sections"}], [Sound1 EXCEPT !.holds = {"Map", "Sections"}],
   [Sound1 EXCEPT !.holds = {"Map", "Placed"}],
   [Sound1 EXCEPT !.entries[2].id = 0], [Sound1 EXCEPT !.entries[2].aligned = FALSE],
   [Sound1 EXCEPT !.ownAt = 0], [Sound1 EXCEPT !.own = 5], [Sound1 EXCEPT !.maps = 5],
   [Sound1 EXCEPT !.amount = 3], [Sound1 EXCEPT !.maxId = 3], [Sound1 EXCEPT !.tail = 1],
   [Sound1 EXCEPT !.entries[4].id = 4],
   [Several EXCEPT !.described = 4], [Several EXCEPT !.described = 6], [Several EXCEPT !.rest = 1],
   [Several EXCEPT !.records[4].pages = 1], [Several EXCEPT !.records[7].pages = 1],
   [Several EXCEPT !.records[5].fault = "SectionEncrypted"],
   [Several EXCEPT !.records[6].fault = "SectionEntry"],
   [Several EXCEPT !.records[9].pages = 2], [Several EXCEPT !.records = SubSeq(Maps, 1, 9)]}

\* A page of two codewords, and one of two chunks behind a hole, each in a
\* section of its own.
ResumedFiles ==
  {Short([Coded2 EXCEPT !.plain = 3, !.lz = FALSE, !.stream = <<>>]),
   Short([BareLz EXCEPT !.dataOffset = 2])}
MCFiles      == {Sound1, Several, Section(9, <<BareLz, [Coded2 EXCEPT !.dataOffset = 5]>>)}
AllFiles     == MCFiles \cup Refuses \cup Cuts \cup Spoilt \cup ResumedFiles
=============================================================================
