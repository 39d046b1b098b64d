----------------------------- MODULE MCFlatWalk -----------------------------
(* Flat files for TLC: a well-formed one and the ways it can be malformed.  *)
EXTENDS FlatReading

\* Encoding of the map's deltas, of at most two groups.
HandleDelta(d) == IF d < 128 THEN <<d>> ELSE <<128 + (d % 128), d \div 128>>
LocDelta(d) ==
  LET a    == IF d < 0 THEN -d ELSE d
      sign == IF d < 0 THEN 64 ELSE 0
  IN IF a < 64 THEN <<a + sign>> ELSE <<128 + (a % 128), (a \div 128) + sign>>

Entry(h, at) == [handle |-> h, loc |-> at]

\* The data bytes of a chunk with these entries.
Encoded(entries) ==
  FoldLeft(LAMBDA bytes, i :
             LET before == IF i = 1 THEN Entry(0, 0) ELSE entries[i - 1]
             IN bytes \o HandleDelta(entries[i].handle - before.handle)
                      \o LocDelta(entries[i].loc - before.loc),
           <<>>, [i \in DOMAIN entries |-> i])

ChunkEnding(entries, more, ends) ==
  LET data == Encoded(entries) \o more
  IN [size |-> 2 + Len(data), data |-> data, crc |-> TRUE, entries |-> entries, ends |-> ends]

Chunk(entries) == ChunkEnding(entries, <<>>, "none")
LastChunk      == [size |-> 2, data |-> <<>>, crc |-> TRUE, entries |-> <<>>, ends |-> "none"]

\* Chunks one after the other from an offset, and the length of them all.
RECURSIVE Laid(_, _)
Laid(at, chunks) ==
  IF chunks = <<>> THEN <<>> ELSE (at :> chunks[1]) @@ Laid(at + chunks[1].size + 2, Tail(chunks))

MapSize(chunks) == FoldLeft(LAMBDA n, c : n + c.size + 2, 0, chunks)

OneWord(n) == <<[bits |-> n, more |-> FALSE]>>
TwoWords(n) == <<[bits |-> n, more |-> TRUE], [bits |-> 0, more |-> FALSE]>>

Record(ms, h) == [words |-> ms, handle |-> h, crc |-> TRUE]

\* 70 bytes of header, sections at 70 and 109, records at 147 and 153.
Loc(number, offset, bytes) == [number |-> number, offset |-> offset, size |-> bytes]

WholeSection(bytes) == [start |-> 16, end |-> 16, size |-> bytes, crc |-> TRUE]

Records == 147 :> Record(OneWord(2), 300) @@ 153 :> Record(TwoWords(4), 5)

FileWith(chunks) ==
  [length |-> 163 + MapSize(chunks), magic |-> "flat", count |-> 3,
   locators |-> <<Loc(0, 70, 39), Loc(1, 109, 38), Loc(2, 163, MapSize(chunks))>>,
   crc |-> TRUE, end |-> TRUE,
   sections |-> 0 :> WholeSection(1) @@ 1 :> WholeSection(0),
   chunks |-> Laid(163, chunks), records |-> Records]

TwoEntries == Chunk(<<Entry(5, 153), Entry(300, 147)>>)
OneEntry   == Chunk(<<Entry(5, 153)>>)
Good       == FileWith(<<TwoEntries, OneEntry, LastChunk>>)

\* A delta of more groups than a handle has.
Overlong == FileWith(<<ChunkEnding(<<>>, [i \in 1..9 |-> 128] \o <<1, 1>>, "MapEntry"), LastChunk>>)

\* A delta padded to nine groups, the most it may have.
Padded ==
  LET data == <<133>> \o [i \in 1..7 |-> 128] \o <<0>> \o LocDelta(153)
  IN FileWith(<<[OneEntry EXCEPT !.size = 2 + Len(data), !.data = data], LastChunk>>)

\* One entry that is refused after a good one.
After(more) == FileWith(<<ChunkEnding(<<Entry(5, 153)>>, more, "MapEntry"), LastChunk>>)

\* One entry for a record elsewhere.
Pointing(h, at) == FileWith(<<Chunk(<<Entry(h, at)>>), LastChunk>>)

BadHeaders ==
  {[Good EXCEPT !.magic = "UnsupportedLayout"], [Good EXCEPT !.length = 60],
   [Good EXCEPT !.count = 2], [Good EXCEPT !.crc = FALSE], [Good EXCEPT !.end = FALSE],
   [Good EXCEPT !.locators[2].number = 6], [Good EXCEPT !.locators[2].number = 0],
   [Good EXCEPT !.locators[2].number = 5], [Good EXCEPT !.locators[3].size = 60],
   [Good EXCEPT !.locators[1].offset = 69],
   [Good EXCEPT !.count = 4, !.locators = Append(@, Loc(3, 0, 0))]}

BadSections ==
  {[Good EXCEPT !.locators[1].size = 37], [Good EXCEPT !.locators[2].size = 37],
   [Good EXCEPT !.locators[1].size = 40],
   [Good EXCEPT !.sections[0].start = 3], [Good EXCEPT !.sections[1].crc = FALSE],
   [Good EXCEPT !.sections[1].end = 9]}

BadMaps ==
  {[Good EXCEPT !.locators[3].size = 3], [Good EXCEPT !.locators[3].size = 9],
   [Good EXCEPT !.locators[3].size = @ - 1], [Good EXCEPT !.chunks[163].size = 1],
   [Good EXCEPT !.chunks[163].crc = FALSE],
   FileWith(<<OneEntry, LastChunk, LastChunk>>), FileWith(<<OneEntry>>),
   FileWith(<<Chunk([i \in 1..7 |-> Entry(5, 153)]), LastChunk>>),
   After(<<1>>), After(<<1, 128>>), After(<<130>>), After(<<1, 192, 65>>),
   After(<<255, 127, 1>>), After(<<1, 255, 63>>)}

BadRecords ==
  {Pointing(5, 69), Pointing(5, 163), Pointing(5, 162), Pointing(5, 173), Pointing(6, 153),
   Pointing(5, 155), [Good EXCEPT !.records[147].crc = FALSE],
   [Good EXCEPT !.records[147].handle = NoHandle],
   [Good EXCEPT !.records[147].words = OneWord(0)],
   [Good EXCEPT !.records[147].words = OneWord(40)],
   [Good EXCEPT !.records[147].words = OneWord(13)],
   [Good EXCEPT !.records[153].words = TwoWords(5)],
   [Good EXCEPT !.records[153].words[2].more = TRUE]}

\* The map first, and a record whose MS size has a second word at the very
\* end of the source.
RecordLast(room) ==
  LET chunks == <<Chunk(<<Entry(5, 160)>>), LastChunk>>
  IN [FileWith(chunks) EXCEPT !.length = 160 + room,
        !.locators[3].offset = 147, !.chunks = Laid(147, chunks),
        !.records = 160 :> Record(TwoWords(1), 5)]

RecordsLast == {RecordLast(room) : room \in {1, 2, 3, 6, 7}}

MCFiles == {Good, Padded, Overlong} \cup BadHeaders \cup BadSections \cup BadMaps \cup BadRecords
           \cup RecordsLast

ResumedFiles ==
  {Good, Padded, Overlong, After(<<1, 128>>), Pointing(6, 153), [Good EXCEPT !.chunks[163].crc = FALSE]}

OverlongFile == {Overlong}
NoFiles == {}
=============================================================================
