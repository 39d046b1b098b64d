---------------------------- MODULE FlatReading ----------------------------
(***************************************************************************)
(* What a flat file commits when it is read whole, and the properties that *)
(* hold the walk to it.  A file's map is described twice: `entries` of a   *)
(* chunk are the handles and locations its data bytes are meant to encode, *)
(* and `ends` what those bytes are refused for after the last of them, or  *)
(* "none".  The reading knows the entries, the walk only the bytes.        *)
(***************************************************************************)
EXTENDS FlatWalk, Units

\* A checked field: the bytes that must be read for it and its error.
Field(upTo, error) == [upTo |-> upTo, error |-> error]

LocatorFault(i) ==
  LET l     == file.locators[i]
      start == 25 + 9 * file.count + 18
  IN IF l.number > 5 THEN "LocatorNumber"
     ELSE IF \E j \in 1..(i - 1) : file.locators[j].number = l.number
          THEN "DuplicateLocator"
     ELSE IF (l.size # 0 /\ l.offset < start) \/ l.offset + l.size > file.length
          THEN "LocatorRange"
     ELSE "none"

MandatoryFault ==
  IF {0, 1, 2} \subseteq {l.number : l \in ToSet(file.locators)} THEN "none"
  ELSE "MissingLocator"

HeaderFields ==
  <<Field(6, IF file.magic = "flat" THEN "none" ELSE file.magic),
    Field(21, "none"),
    Field(25, IF file.count \in 3..6 THEN "none" ELSE "LocatorCount")>>
  \o (IF file.count \notin 3..6 THEN <<>>
      ELSE LET n   == file.count
               top == 25 + 9 * n
           IN [i \in 1..n |-> Field(25 + 9 * i, LocatorFault(i))]
              \o <<Field(top, MandatoryFault),
                   Field(top + 2, IF file.crc THEN "none" ELSE "HeaderCrc"),
                   Field(top + 18, IF file.end THEN "none" ELSE "HeaderSentinel")>>)

\* The first error in the order the fields are read; a field that ends past
\* the source's end stops the reading without one.
FirstFault(fields) ==
  LET stops == {i \in DOMAIN fields :
                  fields[i].upTo > file.length \/ fields[i].error # "none"}
  IN IF stops = {} THEN "none"
     ELSE LET f == fields[Min(stops)]
          IN IF f.upTo > file.length THEN "Truncated" ELSE f.error

SectionFault(part) ==
  LET l == Locator(part)
      s == file.sections[part]
  IN IF l.size < Frame THEN "SectionSize"
     ELSE IF s.start < 16 THEN "SectionSentinel"
     ELSE IF Frame + s.size # l.size THEN "SectionSize"
     ELSE IF ~s.crc THEN "SectionCrc"
     ELSE IF s.end < 16 THEN "SectionSentinel"
     ELSE "none"

ChunkFault(at) ==
  LET c == ChunkAt(at)
  IN IF at + 4 > MapEnd \/ c.size \notin 2..MaxChunk \/ at + c.size + 2 > MapEnd
     THEN "MapChunk"
     ELSE IF ~c.crc THEN "MapCrc"
     ELSE IF c.size = 2 /\ at + 4 # MapEnd THEN "MapChunk"
     ELSE "none"

Overlaps(start, end) == start < MapEnd /\ end > Map.offset

RecordSize(at) ==
  LET w == RecordAt(at).words
  IN IF Len(w) = 1 THEN w[1].bits ELSE w[1].bits + 32768 * w[2].bits

\* What the record an entry points to is refused for.
RecordFault(entry) ==
  LET at   == entry.loc
      r    == RecordAt(at)
      last == r.words[Len(r.words)]
      end  == at + 2 * Len(r.words) + RecordSize(at) + 2
  IN IF at < 25 + 9 * file.count + 18 \/ at + 2 > file.length \/ Overlaps(at, at + 1)
     THEN "ObjectRange"
     ELSE IF at + 2 * Len(r.words) > file.length THEN "Truncated"
     ELSE IF last.more \/ RecordSize(at) = 0 THEN "ObjectSize"
     ELSE IF end > file.length \/ Overlaps(at, end) THEN "ObjectRange"
     ELSE IF ~r.crc THEN "ObjectCrc"
     ELSE IF r.handle = NoHandle THEN "ObjectHeader"
     ELSE IF r.handle # entry.handle THEN "ObjectHandle"
     ELSE "none"

EntryUnits(c) ==
  [i \in DOMAIN c.entries |->
     Unit([part |-> "Object", handle |-> c.entries[i].handle, offset |-> c.entries[i].loc,
           size |-> RecordSize(c.entries[i].loc)],
          RecordFault(c.entries[i]))]
  \o <<Unit(Nothing, c.ends)>>

\* The chunks lie one after the other, each with its checksum between.
ChunkUnits ==
  LET from[at \in 0..MapEnd] ==
        LET c == ChunkAt(at)
        IN IF ChunkFault(at) # "none" THEN <<Unit(Nothing, ChunkFault(at))>>
           ELSE IF c.size = 2 THEN <<>>
           ELSE EntryUnits(c) \o from[at + c.size + 2]
  IN from[Map.offset]

SectionUnit(part, name) ==
  Unit([part |-> name, offset |-> Locator(part).offset + 20,
        size |-> file.sections[part].size],
       SectionFault(part))

\* The whole file, read in order.
Reading ==
  LET header == Unit([part |-> "Header"], FirstFault(HeaderFields))
  IN IF header.fault # "none" THEN Reads(<<header>>)
     ELSE Reads(<<header, SectionUnit(0, "Vars"), SectionUnit(1, "Classes")>>
                \o ChunkUnits)

Outcome == IF failure = "none" /\ Truncated THEN "Truncated" ELSE failure

\* However the file is cut into reads and whatever restarts came between,
\* the walk commits what a reading of the whole file commits, in that order,
\* and stops with its error: "A committed step stands even when the unit
\* after it is malformed".
Agrees ==
  /\ IsPrefix(commits, Reading.commits)
  /\ Stopped /\ failure # "InvalidCheckpoint" =>
       commits = Reading.commits /\ Outcome = Reading.failure
=============================================================================
