------------------------------ MODULE FlatWalk ------------------------------
(***************************************************************************)
(* streaming/flat.rs, FlatWalker: the suspendable walk over an R13-R2000   *)
(* file (header, header-variable and class sections, object map, each      *)
(* mapped record) and its checkpoint (checkpoint.rs, "DWGW").              *)
(*                                                                         *)
(* `request` is Demand; `feed` is Feed with any prefix of the demand, so   *)
(* that every way of cutting the file into reads is a behaviour.  What     *)
(* feed commits is appended to `commits`; a record that was committed      *)
(* stands even when the unit after it is refused on entry.  A checksum is  *)
(* the number of bytes folded since it was seeded, a byte of the record's  *)
(* retained head is the offset it came from.  The rest of the file:        *)
(*   sections   part 0, 1: how many bytes of each sentinel match, the size *)
(*              field, does the checksum hold                              *)
(*   chunks     map chunks by offset: size field, data bytes, checksum     *)
(*   records    records by offset: MS words, handle in the prologue, or    *)
(*              NoHandle, checksum                                         *)
(***************************************************************************)
EXTENDS FlatHeader

\* Faulty variants, named Bad..., are the slips the properties must notice;
\* nothing but the mutation table of PROJECT.json uses them.

CONSTANTS
  Scratches,    \* how many bytes the caller reads at a time, at most
  MaxChunk,     \* MAX_MAP_CHUNK
  HeadBytes,    \* HEAD: bytes of a record kept for its prologue
  MaxHandle,    \* u64::MAX
  MaxLocation,  \* i64::MAX
  Interrupted,  \* bound: the files whose walk is saved and restarted,
  MaxRestarts   \* and how often

ASSUME BoundsAssumption ==
  /\ {MaxChunk, HeadBytes, MaxHandle, MaxLocation, MaxRestarts} \subseteq Nat
  /\ Scratches \subseteq Nat \ {0}

\* What a read can find: the fields have their types, as many locators as are
\* counted, as many data bytes as a chunk says, a word behind every word but
\* the second that calls for more.
ASSUME FilesAssumption ==
  \A f \in Files :
    /\ f.length \in Nat /\ f.count \in Nat
    /\ f.magic \in {"flat", "InvalidMagic", "UnsupportedLayout"}
    /\ f.locators \in Seq([number : Nat, offset : Nat, size : Nat])
    /\ f.count \in 3..6 => f.count <= Len(f.locators)
    /\ f.sections \in [{0, 1} -> [start : Nat, end : Nat, size : Nat, crc : BOOLEAN]]
    /\ \A at \in DOMAIN f.chunks :
         LET c == f.chunks[at]
         IN c.size \in Nat /\ c.data \in Seq(0..255) /\ c.size <= Len(c.data) + 2
    /\ \A at \in DOMAIN f.records :
         LET w == f.records[at].words
         IN /\ w \in Seq([bits : Nat, more : BOOLEAN]) /\ w # <<>>
            /\ w[1].more => Len(w) >= 2

VARIABLES
  stage,
  done, size,     \* bytes taken of the current unit, its declared size
  crc,            \* bytes folded into the running checksum
  head,           \* where the retained bytes of a record came from
  object,         \* offset of the record being visited
  msLen, words,   \* length of its MS size once known, words of it read
  map,            \* the object-map cursor
  commits,        \* what the walk has committed
  kept,           \* the caller's last checkpoint, with the commits it has
  restarts

cursorVars == <<stage, done, size, crc, head, object, msLen, words, map>>
vars == <<file, parser, failure, cursorVars, commits, kept, restarts>>

Frame    == 38   \* FRAME: sentinels, size field and checksum of a section
NoHandle == -1

Stages == {"Header", "Vars", "Classes", "Chunk", "Entry", "Object", "Done"}

FreshMap == [chunk |-> 0, len |-> 0, at |-> 0, handle |-> 0, loc |-> 0,
             mc |-> 0, shift |-> 0, field |-> 0]

FreshHead == [i \in 1..HeadBytes |-> 0]

Least(a, b) == IF a < b THEN a ELSE b

BytesAt(offset, n) == [i \in 1..n |-> offset + i - 1]

----------------------------------------------------------------------------
(* The file, as the walk looks it up. *)

\* The verified header's locator of that number; an absent one is empty.
Locator(number) ==
  LET found == {i \in DOMAIN file.locators : file.locators[i].number = number}
  IN IF found = {} THEN [number |-> number, offset |-> 0, size |-> 0]
     ELSE file.locators[CHOOSE i \in found : \A j \in found : i <= j]

Map    == Locator(2)
MapEnd == Map.offset + Map.size

PartOf(s) == IF s = "Vars" THEN 0 ELSE 1
Part      == PartOf(stage)
Section   == Locator(Part)
Content   == file.sections[Part]

\* Bytes nothing was laid out in read as a chunk or a record of size 0.
ChunkAt(at) ==
  IF at \in DOMAIN file.chunks THEN file.chunks[at]
  ELSE [size |-> 0, data |-> <<>>, crc |-> FALSE]
RecordAt(at) ==
  IF at \in DOMAIN file.records THEN file.records[at]
  ELSE [words |-> <<[bits |-> 0, more |-> FALSE]>>, handle |-> NoHandle, crc |-> FALSE]

----------------------------------------------------------------------------
(* request *)

\* The first of the unit's boundaries not yet reached.
Boundary(ends) == CHOOSE e \in ends : e > done /\ \A f \in ends : f > done => e <= f

Until(start, end) == [offset |-> start + done, len |-> end - done]

Demand ==
  CASE stage = "Header" -> HeaderDemand
    [] stage \in {"Vars", "Classes"} ->
         Until(Section.offset, Boundary({16, 20, 20 + size, 22 + size, Frame + size}))
    [] stage = "Chunk"  -> Until(map.chunk, Boundary({2, size, size + 2}))
    [] stage = "Entry"  -> [offset |-> map.at, len |-> 1]
    [] stage = "Object" ->
         Until(object, IF msLen = 0 THEN (done - (done % 2)) + 2
                       ELSE Boundary({msLen + size, msLen + size + 2}))

\* The source ends before the demand does: known beforehand in the header,
\* elsewhere when end_of_input is told of it.  Only the second word of an MS
\* size can get there, every other range being checked on entry.
Truncated ==
  \/ stage = "Header" /\ HeaderTruncated
  \/ stage # "Done" /\ Demand.offset >= file.length

\* No request is left, or no byte to answer it with.
Stopped == failure # "none" \/ stage = "Done" \/ Truncated

Init ==
  /\ file \in Files
  /\ parser = NewParser
  /\ failure = "none"
  /\ stage = "Header"
  /\ done = 0 /\ size = 0 /\ crc = 0
  /\ head = FreshHead
  /\ object = 0 /\ msLen = 0 /\ words = 0
  /\ map = FreshMap
  /\ commits = <<>>
  /\ kept = [parser |-> parser, stage |-> stage, done |-> 0, size |-> 0, crc |-> 0,
             head |-> head, object |-> 0, msLen |-> 0, words |-> 0, map |-> map,
             commits |-> <<>>]
  /\ restarts = 0

----------------------------------------------------------------------------
(* Entering a unit.  The range it names is checked before any byte of it   *)
(* is asked for.                                                           *)

Check(ok, error) == failure' = IF ok THEN "none" ELSE error

Refuse(error) == failure' = error

Commit(record) == commits' = Append(commits, record)

EnterSection(s) ==
  /\ stage' = s
  /\ done' = 0 /\ size' = 0
  /\ Check(Locator(PartOf(s)).size >= Frame, "SectionSize")
  /\ UNCHANGED <<crc, head, object, msLen, words, map>>

EnterChunk(at) ==
  /\ stage' = "Chunk"
  /\ done' = 0 /\ size' = 0
  /\ object' = 0 /\ msLen' = 0 /\ words' = 0
  /\ head' = FreshHead
  /\ map' = [FreshMap EXCEPT !.chunk = at]
  /\ Check(at + 4 <= MapEnd, "MapChunk")
  /\ UNCHANGED crc

BadInMap(at) == at > Map.offset /\ at < MapEnd

InMap(at) == at >= Map.offset /\ at < MapEnd

\* The record at the map's location, with its checksum seeded.
EnterObject(at) ==
  /\ stage' = "Object"
  /\ object' = at
  /\ done' = 0 /\ size' = 0 /\ msLen' = 0 /\ words' = 0 /\ crc' = 0
  /\ Check(at >= HeaderEnd(parser) /\ at + 2 <= file.length /\ ~InMap(at), "ObjectRange")
  /\ UNCHANGED head

----------------------------------------------------------------------------
(* feed, one action per field of a unit.  When a field is refused the walk *)
(* is over and only `failure` is read again.                               *)

FeedHeader(n) ==
  /\ stage = "Header"
  /\ parser' = Fed(parser, n)
  /\ \/ /\ FeedError(parser, n) # "none" \/ parser'.phase # "Done"
        /\ Refuse(FeedError(parser, n))
        /\ UNCHANGED <<cursorVars, commits>>
     \/ /\ FeedError(parser, n) = "none" /\ parser'.phase = "Done"
        /\ Commit([part |-> "Header"])
        /\ EnterSection("Vars")

inSection == stage \in {"Vars", "Classes"}

\* The rest of the cursor stands still while a section is read.
sectionUnchanged == UNCHANGED <<parser, head, object, msLen, words, map>>

FeedSectionStart(n) ==
  /\ inSection /\ done < 16
  /\ done' = done + n
  /\ crc' = 0
  /\ Check(done + n <= Content.start, "SectionSentinel")
  /\ UNCHANGED <<stage, size, commits>> /\ sectionUnchanged

FeedSectionSize(n) ==
  /\ inSection /\ done \in 16..19
  /\ done' = done + n
  /\ crc' = crc + n
  /\ size' = IF done + n = 20 THEN Content.size ELSE size
  /\ Check(done + n = 20 => Frame + Content.size = Section.size, "SectionSize")
  /\ UNCHANGED <<stage, commits>> /\ sectionUnchanged

FeedSectionData(n) ==
  /\ inSection /\ done >= 20 /\ done < 20 + size
  /\ done' = done + n
  /\ crc' = crc + n
  /\ UNCHANGED <<failure, stage, size, commits>> /\ sectionUnchanged

FeedSectionCrc(n) ==
  /\ inSection /\ done >= 20 + size /\ done < 22 + size
  /\ done' = done + n
  /\ Check(done + n = 22 + size => Content.crc /\ crc = 4 + size, "SectionCrc")
  /\ UNCHANGED <<stage, size, crc, commits>> /\ sectionUnchanged

FeedSectionEnd(n) ==
  /\ inSection /\ done >= 22 + size
  /\ UNCHANGED parser
  /\ \/ /\ done + n - 22 - size > Content.end
        /\ Refuse("SectionSentinel")
        /\ UNCHANGED <<cursorVars, commits>>
     \/ /\ done + n - 22 - size <= Content.end
        /\ done + n < Frame + size
        /\ done' = done + n
        /\ UNCHANGED <<failure, stage, size, crc, head, object, msLen, words, map, commits>>
     \/ /\ done + n - 22 - size <= Content.end
        /\ done + n = Frame + size
        /\ Commit([part |-> stage, offset |-> Section.offset + 20, size |-> size])
        /\ IF stage = "Vars" THEN EnterSection("Classes") ELSE EnterChunk(Map.offset)

chunkUnchanged == UNCHANGED <<parser, head, object, msLen, words, commits>>

FeedChunkSize(n) ==
  /\ stage = "Chunk" /\ done < 2
  /\ done' = done + n
  /\ IF done + n = 2
     THEN LET s == ChunkAt(map.chunk).size
          IN /\ size' = s
             /\ crc' = 2
             /\ Check(s \in 2..MaxChunk /\ map.chunk + s + 2 <= MapEnd, "MapChunk")
     ELSE UNCHANGED <<size, crc, failure>>
  /\ UNCHANGED <<stage, map>> /\ chunkUnchanged

FeedChunkData(n) ==
  /\ stage = "Chunk" /\ done >= 2 /\ done < size
  /\ done' = done + n
  /\ crc' = crc + n
  /\ UNCHANGED <<failure, stage, size, map>> /\ chunkUnchanged

ChunkHolds == ChunkAt(map.chunk).crc /\ crc = size

\* The chunk's checksum.  Only then are its entries read, a second time
\* from its first; the chunk without entries ends the map and the walk.
FeedChunkCrc(n) ==
  /\ stage = "Chunk" /\ done >= 2 /\ done >= size
  /\ done' = done + n
  /\ \/ /\ done + n < size + 2
        /\ UNCHANGED <<failure, stage, map>>
     \/ /\ done + n = size + 2 /\ ~ChunkHolds
        /\ Refuse("MapCrc")
        /\ UNCHANGED <<stage, map>>
     \/ /\ done + n = size + 2 /\ ChunkHolds /\ size = 2
        /\ Check(map.chunk + 4 = MapEnd, "MapChunk")
        /\ stage' = IF map.chunk + 4 = MapEnd THEN "Done" ELSE stage
        /\ UNCHANGED map
     \/ /\ done + n = size + 2 /\ ChunkHolds /\ size > 2
        /\ stage' = "Entry"
        /\ map' = [FreshMap EXCEPT !.chunk = map.chunk, !.len = size, !.at = map.chunk + 2]
        /\ UNCHANGED failure
  /\ UNCHANGED <<size, crc>> /\ chunkUnchanged

EntriesEnd == map.chunk + map.len

Byte == ChunkAt(map.chunk).data[map.at - map.chunk - 1]
LastByte == Byte < 128
BadBits == Byte % 128

Bits == IF LastByte /\ map.field = 1 THEN Byte % 64 ELSE Byte % 128

\* x << n, nothing of x being shifted out.
ShiftedLeft(x, n) ==
  LET after[i \in 0..n] == IF i = 0 THEN x ELSE 2 * after[i - 1]
  IN after[n]

Mc == map.mc + ShiftedLeft(Bits, map.shift)

\* The location a delta leads to; its sign is a bit of the last byte.
Location == IF Byte % 128 >= 64 THEN map.loc - Mc ELSE map.loc + Mc

BadHandleFits == TRUE

HandleFits == map.handle + Mc <= MaxHandle

NextByte == [map EXCEPT !.at = @ + 1]

entryUnchanged == UNCHANGED <<parser, commits>>

\* A byte the entry goes on after: seven more bits of a delta, or the last
\* of the handle's.
FeedEntryByte ==
  /\ stage = "Entry" /\ map.shift <= 56
  /\ map.at + 1 < EntriesEnd
  /\ \/ /\ ~LastByte
        /\ map' = [NextByte EXCEPT !.mc = Mc, !.shift = @ + 7]
     \/ /\ LastByte /\ map.field = 0 /\ HandleFits
        /\ map' = [NextByte EXCEPT !.mc = 0, !.shift = 0, !.field = 1,
                                   !.handle = @ + Mc]
  /\ UNCHANGED <<failure, stage, done, size, crc, head, object, msLen, words>>
  /\ entryUnchanged

BadFeedEntryRefused ==
  /\ stage = "Entry"
  /\ \/ map.shift > 56
     \/ /\ map.shift <= 56 /\ LastByte
        /\ \/ map.field = 0 /\ ~HandleFits
           \/ map.field = 1 /\ Location \notin 0..MaxLocation
  /\ Refuse("MapEntry")
  /\ UNCHANGED cursorVars /\ entryUnchanged

\* An entry of more than nine groups, one cut off by the chunk's end, or one
\* whose sums leave their type.
FeedEntryRefused ==
  /\ stage = "Entry"
  /\ \/ map.shift > 56
     \/ map.at + 1 = EntriesEnd /\ (~LastByte \/ map.field = 0)
     \/ /\ map.shift <= 56 /\ LastByte
        /\ \/ map.field = 0 /\ ~HandleFits
           \/ map.field = 1 /\ Location \notin 0..MaxLocation
  /\ Refuse("MapEntry")
  /\ UNCHANGED cursorVars /\ entryUnchanged

FeedEntryLast ==
  /\ stage = "Entry" /\ map.shift <= 56
  /\ LastByte /\ map.field = 1 /\ Location \in 0..MaxLocation
  /\ map' = [NextByte EXCEPT !.mc = 0, !.shift = 0, !.field = 0, !.loc = Location]
  /\ EnterObject(Location)
  /\ entryUnchanged

recordUnchanged == UNCHANGED <<parser, map, object>>

\* The MS size, a word at a time.
FeedObjectSize(n) ==
  /\ stage = "Object" /\ msLen = 0
  /\ done' = done + n
  /\ crc' = crc + n
  /\ IF (done + n) % 2 # 0 THEN UNCHANGED <<size, words, msLen, failure>>
     ELSE LET word == RecordAt(object).words[words + 1]
              s    == size + word.bits * 2^(15 * words)
              end  == object + done + n + s + 2
          IN /\ size' = s
             /\ words' = words + 1
             /\ IF word.more
                THEN Check(words + 1 < 2, "ObjectSize") /\ UNCHANGED msLen
                ELSE /\ msLen' = done + n
                     /\ failure' =
                          IF s = 0 THEN "ObjectSize"
                          ELSE IF end > file.length \/ (object < MapEnd /\ end > Map.offset)
                          THEN "ObjectRange" ELSE "none"
  /\ UNCHANGED <<stage, head, commits>> /\ recordUnchanged

HeadAfter(n) ==
  [i \in 1..HeadBytes |->
     IF i > done - msLen /\ i <= done + n - msLen THEN object + msLen + i - 1 ELSE head[i]]

\* Payload: the caller's, but for the bytes the prologue is read from.
FeedObjectBody(n) ==
  /\ stage = "Object" /\ msLen > 0 /\ done < msLen + size
  /\ done' = done + n
  /\ crc' = crc + n
  /\ head' = HeadAfter(n)
  /\ UNCHANGED <<failure, stage, size, msLen, words, commits>> /\ recordUnchanged

\* What the prologue finds in the retained bytes.
Prologue ==
  LET len == Least(size, HeadBytes)
  IN IF SubSeq(head, 1, len) = BytesAt(object + msLen, len)
     THEN RecordAt(object).handle ELSE NoHandle

RecordError ==
  IF ~(RecordAt(object).crc /\ crc = msLen + size) THEN "ObjectCrc"
  ELSE IF Prologue = NoHandle THEN "ObjectHeader"
  ELSE IF Prologue # map.handle THEN "ObjectHandle"
  ELSE "none"

FeedObjectCrc(n) ==
  /\ stage = "Object" /\ msLen > 0 /\ done >= msLen + size
  /\ UNCHANGED parser
  /\ \/ /\ done + n < msLen + size + 2
        /\ done' = done + n
        /\ UNCHANGED <<failure, stage, size, crc, head, object, msLen, words, map, commits>>
     \/ /\ done + n = msLen + size + 2
        /\ RecordError # "none"
        /\ Refuse(RecordError)
        /\ UNCHANGED <<cursorVars, commits>>
     \/ /\ done + n = msLen + size + 2
        /\ RecordError = "none"
        /\ Commit([part |-> "Object", handle |-> map.handle, offset |-> object, size |-> size])
        /\ \/ /\ map.at = EntriesEnd
              /\ EnterChunk(map.at + 2)
           \/ /\ map.at # EntriesEnd
              /\ stage' = "Entry"
              /\ done' = done + n
              /\ UNCHANGED <<failure, size, crc, head, object, msLen, words, map>>

\* One feed, of n bytes at the demanded offset.
FeedBytes(n) ==
  \/ FeedHeader(n)
  \/ FeedSectionStart(n) \/ FeedSectionSize(n) \/ FeedSectionData(n)
  \/ FeedSectionCrc(n) \/ FeedSectionEnd(n)
  \/ FeedChunkSize(n) \/ FeedChunkData(n) \/ FeedChunkCrc(n)
  \/ FeedEntryByte \/ FeedEntryRefused \/ FeedEntryLast
  \/ FeedObjectSize(n) \/ FeedObjectBody(n) \/ FeedObjectCrc(n)

Feed ==
  /\ ~Stopped
  /\ \E scratch \in Scratches :
       FeedBytes(Least(scratch, Least(Demand.len, file.length - Demand.offset)))
  /\ UNCHANGED <<file, kept, restarts>>

----------------------------------------------------------------------------
(* Checkpoint and restore. *)

Cursor == [parser |-> parser, stage |-> stage, done |-> done, size |-> size,
           crc |-> crc, head |-> head, object |-> object, msLen |-> msLen,
           words |-> words, map |-> map, commits |-> commits]

\* Nothing of the walk beyond its stage's own unit has been touched.
NoRecord(k) == k.object = 0 /\ k.msLen = 0 /\ k.words = 0 /\ k.head = FreshHead

InVerifiedChunk(k) ==
  /\ k.map.len \in 3..MaxChunk
  /\ k.map.chunk >= Map.offset
  /\ k.map.chunk + k.map.len + 2 <= MapEnd
  /\ k.map.at <= k.map.chunk + k.map.len

ConsistentSection(k) ==
  LET total == Locator(PartOf(k.stage)).size
  IN /\ NoRecord(k)
     /\ k.map = FreshMap
     /\ total >= Frame /\ k.done < total
     /\ IF k.done < 20 THEN k.size = 0 ELSE Frame + k.size = total

ConsistentChunk(k) ==
  /\ NoRecord(k)
  /\ k.map = [FreshMap EXCEPT !.chunk = k.map.chunk]
  /\ k.map.chunk >= Map.offset /\ k.map.chunk + 4 <= MapEnd
  /\ IF k.done < 2 THEN k.size = 0
     ELSE /\ k.size \in 2..MaxChunk
          /\ k.map.chunk + k.size + 2 <= MapEnd
          /\ k.done < k.size + 2

BadConsistentEntry(k) ==
  /\ InVerifiedChunk(k)
  /\ k.map.at > k.map.chunk + 2 /\ k.map.at < k.map.chunk + k.map.len
  /\ k.map.field \in 0..1
  /\ k.map.shift <= 56 /\ k.map.shift % 7 = 0
  /\ k.map.loc <= MaxLocation

ConsistentEntry(k) ==
  /\ InVerifiedChunk(k)
  /\ k.map.at >= k.map.chunk + 2 /\ k.map.at < k.map.chunk + k.map.len
  /\ k.map.field \in 0..1
  /\ k.map.shift <= 56 /\ k.map.shift % 7 = 0
  /\ k.map.loc <= MaxLocation

ConsistentObject(k) ==
  LET end == k.object + k.msLen + k.size + 2
  IN /\ InVerifiedChunk(k)
     /\ k.map.at > k.map.chunk + 2
     /\ k.map.field = 0 /\ k.map.shift = 0 /\ k.map.mc = 0
     /\ k.object = k.map.loc
     /\ k.object >= HeaderEnd(k.parser)
     /\ k.object <= MaxLocation
     /\ k.object + 2 <= file.length
     /\ ~InMap(k.object)
     /\ IF k.msLen = 0
        THEN k.words <= 1 /\ k.done >= 2 * k.words /\ k.done < 2 * k.words + 2
        ELSE /\ k.words \in 1..2
             /\ k.msLen = 2 * k.words
             /\ k.size > 0
             /\ end <= file.length
             /\ ~(k.object < MapEnd /\ end > Map.offset)
             /\ k.done >= k.msLen /\ k.done < end - k.object

\* `consistent`, over the header the saved bytes replay to.
Consistent(k) ==
  CASE k.stage = "Header" ->
         /\ k.parser.phase # "Done"
         /\ NoRecord(k) /\ k.map = FreshMap
         /\ k.done = 0 /\ k.size = 0 /\ k.crc = 0
    [] k.stage \in {"Vars", "Classes"} -> k.parser.phase = "Done" /\ ConsistentSection(k)
    [] k.stage = "Chunk"  -> k.parser.phase = "Done" /\ ConsistentChunk(k)
    [] k.stage = "Entry"  -> k.parser.phase = "Done" /\ ConsistentEntry(k)
    [] k.stage = "Object" -> k.parser.phase = "Done" /\ ConsistentObject(k)
    [] k.stage = "Done"   -> k.parser.phase = "Done"

\* restore takes the checkpoint back.
Restores(k) == Replayed(k.parser.filled) = k.parser /\ Consistent(k)

\* A failed walk has no checkpoint.
Save ==
  /\ file \in Interrupted /\ restarts < MaxRestarts
  /\ failure = "none"
  /\ kept' = Cursor
  /\ UNCHANGED <<file, parser, failure, cursorVars, commits, restarts>>

\* The process dies; a new one restores the checkpoint, which brings back
\* the commits the caller saved with it.
Restart ==
  /\ file \in Interrupted /\ restarts < MaxRestarts
  /\ restarts' = restarts + 1
  /\ \/ /\ Restores(kept)
        /\ parser' = Replayed(kept.parser.filled)
        /\ stage' = kept.stage /\ done' = kept.done /\ size' = kept.size
        /\ crc' = kept.crc /\ head' = kept.head /\ object' = kept.object
        /\ msLen' = kept.msLen /\ words' = kept.words /\ map' = kept.map
        /\ commits' = kept.commits
        /\ failure' = "none"
     \/ /\ ~Restores(kept)
        /\ failure' = "InvalidCheckpoint"
        /\ UNCHANGED <<parser, cursorVars, commits>>
  /\ UNCHANGED <<file, kept>>

Next == Feed \/ Save \/ Restart

Spec == Init /\ [][Next]_vars

\* The caller keeps feeding what is asked for.
FairSpec == Spec /\ WF_vars(Feed)

----------------------------------------------------------------------------
(* Properties. *)

MapType == [chunk : Nat, len : Nat, at : Nat, handle : 0..MaxHandle, loc : Nat,
            mc : Nat, shift : Nat, field : 0..1]

Errors ==
  HeaderErrors \cup
  {"SectionSize", "SectionSentinel", "SectionCrc", "MapChunk", "MapCrc", "MapEntry", "ObjectRange",
   "ObjectSize", "ObjectCrc", "ObjectHeader", "ObjectHandle", "InvalidCheckpoint"}

CommitType ==
  [part : {"Header"}]
    \cup [part : {"Vars", "Classes"}, offset : Nat, size : Nat]
    \cup [part : {"Object"}, handle : 0..MaxHandle, offset : Nat, size : Nat]

CheckpointType ==
  [parser : ParserType, stage : Stages, done : Nat, size : Nat, crc : Nat,
   head : [1..HeadBytes -> Nat], object : Nat, msLen : 0..4, words : 0..2, map : MapType,
   commits : Seq(CommitType)]

\* Types of the parser, of the walk's cursor, of what it has committed and of
\* the checkpoint last saved, commits included.
TypeOK ==
  /\ file \in Files
  /\ parser \in ParserType
  /\ stage \in Stages
  /\ done \in Nat /\ size \in Nat /\ crc \in Nat
  /\ head \in [1..HeadBytes -> Nat]
  /\ object \in Nat /\ msLen \in 0..4 /\ words \in 0..2
  /\ map \in MapType
  /\ failure \in Errors
  /\ commits \in Seq(CommitType)
  /\ kept \in CheckpointType
  /\ restarts \in 0..MaxRestarts

\* A demand stays inside what has been verified: the section's locator, the
\* map's, and for a record the source outside the header and the map
\* ("request bytes outside the verified locators").  Of a record's MS size
\* only the first word is known to be in the source, and only its start to be
\* outside the map.
DemandInBounds ==
  ~Stopped =>
    LET start == Demand.offset
        end   == Demand.offset + Demand.len
        inMs  == stage = "Object" /\ msLen = 0
        Inside(l) == start >= l.offset /\ end <= l.offset + l.size
    IN /\ Demand.len > 0
       /\ ~inMs => end <= file.length
       /\ inMs => object + 2 <= file.length /\ end <= object + 4
       /\ inMs => object < Map.offset \/ object >= MapEnd
       /\ inSection => Inside(Section)
       /\ stage \in {"Chunk", "Entry"} => Inside(Map)
       /\ stage = "Object" => start >= HeaderEnd(parser)
       /\ stage = "Object" /\ msLen > 0 => start >= MapEnd \/ end <= Map.offset

\* "Restore-time check that a decoded state is one the walk can reach": a
\* walk that has not failed can be saved and restored at any byte; in the
\* header, the bytes the parser has taken determine its cursor.
Restorable == failure = "none" => Restores(Cursor)

\* The same but for an entry of more than nine groups, which is refused with
\* its next byte.
RestorableEntry == map.shift <= 56 => Restorable

\* A walk that is fed what it asks for comes to an end.
Ends == <>Stopped
=============================================================================
