# A TLA+ development of the streaming reader of dwg-rs

dwg-rs reads and writes AutoCAD DWG files in Rust. Most of its 110k lines are
sequential code over a buffer in memory: entity decoders, DXF, SVG, writers. One
part is different: `src/src/streaming/` and `src/src/byte_source.rs` read a file
too large to hold, from a source that answers when it can, with fixed buffers and
no allocation, and can be stopped at any byte, written down and resumed in another
process. That part has state, interleavings, restarts, retries and checks that must
agree with each other. This project models it: what the modules say, what TLC
checks of them and what TLAPS proves of them is below, with what is left out.

Below, source paths are relative to the crate's own `src/`: `streaming/lz77.rs` is
`src/src/streaming/lz77.rs`.

## 1. Inventory

How the streaming reader is put together. A *grammar* (walker, parser) is a
passive state machine: `request` (`demand` in the R2004 and R2007 walkers) says
which source bytes it wants next, `feed` takes a prefix of them, `pump` gives output
that needs no input. A *source* (`ByteSource`) is asked for them. `poll_once` and its siblings
(byte_source.rs) join one step of each: ask, read into the caller's scratch, feed.
`checkpoint`/`restore` write and read a grammar's state, at any step.

    transport  <-take/complete/fail-  AsyncSource  <-poll_read-  poll_once  -feed->  walker
                                                                                     |
    R2004Walker = R2004HeaderParser + R2004MapWalker + section table + R2004SectionWalker
    R2004SectionWalker = page machine + Lz77Decoder          R2004ObjectWalker = R2004Walker + ObjectFramer
    R2007Walker = two map readers + page reader (codes, R2007Lz)   R2007ObjectWalker = R2007Walker + ObjectFramer
    FlatWalker = FlatHeaderParser + map cursor + object visits   FileSource <-poll_read, poll_gather- any of them

| Component | State | Operations | What is hard | Correct when |
|---|---|---|---|---|
| `AsyncSource`, `poll_once` (byte_source.rs) | one posted request, one chunk of held bytes and their offset, a recorded end of source, a pending failure | `poll_read`, `take_request`, `complete`, `complete_eof`, `fail`, `with_held` | late, repeated, short and missing answers; changing scratch sizes; a process that dies with bytes held | each demand gets its bytes, once and in order; nothing is fetched twice; the caller is never refused; walks end |
| `FlatHeaderParser` (streaming/mod.rs) | phase, bytes filled, target, locators seen | `feed`, `request`, `checkpoint` (by replay) | fields cut anywhere; replay must reach the saved cursor | the errors and the end of a reading in one piece |
| `FlatWalker` (streaming/flat.rs) | stage, bytes done of the unit, running checksum, retained head of a record, object map cursor | `feed`, `request`, `checkpoint` | a checksum that comes after what it covers; chunk, entry and record nested; signed and unsigned deltas at their limits | commits what the whole file says; nothing derived from unverified bytes; demands in bounds; ends; restorable |
| `R2004HeaderParser` (streaming/r2004.rs) | a 0x100-byte buffer | `feed` | little | as the whole-buffer header |
| `R2004MapWalker` (streaming/r2004_maps.rs) | page machine like the section walker's, partial record, counts left | `feed`, `pump`, `pages` (a walker of the page map again) | records that straddle output pieces; declared sizes against decoded ones | records in order, verified first |
| `R2004SectionWalker` (streaming/r2004_sections.rs) | stage, job, bytes of header/stored, checksum, carry buffer, decoder, cursor, references done | `begin_page`, `feed`, `pump`, `checkpoint` | two passes over each page; decoder and carry in step; holes; pages short, overlapping or over the end | data and holes tile the section; verified before use; restorable; ends |
| `Lz77Decoder` (streaming/lz77.rs) | mode, pending length, count and distance, ring window, counters | `decode`, `checkpoint` | input or room gone between any two bytes; the ring's wrap; limits | the output of `lz77::decompress`; restorable |
| `lz77::decompress` (lz77.rs) | none | one function | | the reference for the above |
| `R2004Walker` (streaming/r2004_walk.rs) | stage, map walker, table of sections with counts and digests, peeked header, section walker, pages walked | `feed`, `pump`, `checkpoint` | two passes over the page map with only a count and a digest between | every listed page once, in page-map order, none other, or no `Finished` |
| `R2004ObjectWalker`, `R2007ObjectWalker`, `ObjectFramer` (streaming/r2004_objects.rs, r2007_objects.rs, records.rs) | staged section bytes, record cursor, two machines | `feed`, `pump`, `checkpoint` | bytes owned by neither machine at a checkpoint; a record cut anywhere | records are those of the section's bytes; restorable |
| `R2007Walker` (streaming/r2007.rs, r2007_codes.rs, r2007_lz.rs, r2007_checkpoint.rs) | header, page map facts, a reader for each map and one for the page, the open record, current section, pending hole or end | `feed`, `pump`, `demand` of a gather, `checkpoint` | strided reads given in part; two passes over each page; the page map scanned again for each reference | what a reading of the whole file gives, verified first; restorable; ends |
| `FileSource`, `SliceSource`, `gather_by_reads` (byte_source.rs) | a read window and a file position | `poll_read`, `poll_gather` | a gather that stops half way; a position a failed seek leaves | the bytes at the offsets asked for; a gather gets on |
| `HandleAllocator` (handle_allocator.rs) | next handle, used set | `allocate`, `reserve` | the last `u64` | no handle given twice; allocation ends |
| Graph, block expansion (graph.rs, block_expansion.rs ...) | none | queries, recursion with a depth cap | cycles | visits each reference; ends |
| Whole-buffer reader, R2007 container, Reed-Solomon; writers; bit cursor and entity decoders; DXF; SVG, glTF; programs, WASM; tests | none between calls | functions | volume | not the subject here |

`PROJECT.json` lists each component with its files, status and reason, and every
hazard with the line where it bites and the properties that cover it.

## 2. Modules

| Module | What it is | Code |
|---|---|---|
| `AsyncSource` | the adapter's fields and methods, as actions to be composed | byte_source.rs |
| `Delivery` | adapter + polled grammar + host + a process that saves, dies and resumes | byte_source.rs, examples/stream_walk.rs |
| `ByteFeed` | what a grammar is promised, without a transport (abstract) | implemented by `Delivery` |
| `DeliveryProofs` | theorems about `Delivery` | |
| `FlatHeader` | the header parser and its replayed checkpoint | streaming/mod.rs, checkpoint.rs |
| `FlatWalk` | the flat walk and its checkpoint | streaming/flat.rs, checkpoint.rs |
| `FlatReading` | what a file commits when read whole, to compare with | the same functions, read as a definition |
| `FlatWalkProofs` | theorems about `FlatWalk` | |
| `SectionWalk` | one section of an R2004 file, page by page | streaming/r2004_sections.rs, checkpoint.rs |
| `SectionAssembly` | spans that tile a section (abstract) | implemented by `SectionWalk` |
| `SectionWalkProofs` | theorems about `SectionWalk` | |
| `Lz77` | the resumable decoder with its ring | streaming/lz77.rs, checkpoint.rs |
| `LzReading` | the whole-buffer decoder, to compare with | lz77.rs |
| `Lz77Proofs` | theorems about `Lz77` and about its agreement with `LzReading` | |
| `R2004Walk` | both passes over an R2004 file and the accounting | streaming/r2004_walk.rs, r2004_maps.rs, checkpoint.rs |
| `R2004WalkProofs` | theorems about `R2004Walk` | |
| `R2004Maps` | file header, page map and section map of an R2004 file, byte by byte | streaming/r2004.rs, r2004_maps.rs, checkpoint.rs |
| `R2004MapReading` | what such a file's maps hold when read whole, to compare with | the same functions, read as a definition |
| `R2004MapsProofs` | theorems about `R2004Maps` and about its agreement with `R2004MapReading` | |
| `Framer` | the framer of object records | streaming/records.rs |
| `ObjectWalk` | the object walks of both families: file walk, staged bytes, framer, joint checkpoint | streaming/r2004_objects.rs, r2007_objects.rs |
| `ObjectReading` | the records of a whole section, to compare with | the same functions, read as a definition |
| `ObjectWalkProofs` | theorems about `Framer` and `ObjectWalk`, and about its agreement with `ObjectReading` | |
| `FileSource` | the adapter over a seekable reader, its window, `gather_by_reads` | byte_source.rs |
| `R2007Reader` | one page read codeword by codeword, in two passes | streaming/r2007.rs, r2007_codes.rs, r2007_lz.rs |
| `R2007Maps` | the page map, the lookups in it and the section map of an R2007 file | streaming/r2007.rs |
| `R2007Walk` | the whole walk over a `FileSource`, with its checkpoints | streaming/r2007.rs, r2007_checkpoint.rs, byte_source.rs |
| `R2007Reading` | what an R2007 file holds when read whole, to compare with | the same functions, read as a definition |
| `R2007WalkProofs` | theorems about `FileSource` and `R2007Walk` | |
| `Units` | a file's reading as a list of units, each its steps and its fault; the vocabulary of `FlatReading` | |
| `MC...` | instances for TLC | |

The map from every definition to its lines is in `PROJECT.json`. Definitions named
`Bad...` are slips of the kind a patch could introduce (a dropped guard, an
off-by-one, a reset forgotten). No specification uses them; the mutation table
names, for every property, one that makes TLC find the property violated.

### Delivery

A source byte is its offset, so a byte in the wrong place shows. The adapter has
the five fields of the struct and `taken`. `poll_read` is one action per outcome,
its guards in the code's order: a pending failure, held bytes (delivered, or
refused when they are not where the request starts), a known end, a request in
flight (`Pending`), or a new one posted. `poll_once` adds the grammar's half:
complete, truncated, fed. The grammar reads `Units` in order, each to its last
byte, and a unit may read again bytes read before (a second pass over a page). The
units in `Early` may be left sooner, as the decode pass of an LZ77 page is at the
terminator of its stream. The host collects a request, answers it whole or short,
answers one it has answered or given up, reports an end, or fails. `Save` keeps the
grammar's checkpoint with the held bytes; `Crash` goes back to them through
`with_held`, while the host's answers stay on their way.

`Feed == INSTANCE ByteFeed` is the refinement: what the grammar sees is a source
that hands it the next bytes, whatever the adapter, the host and the crashes do.

### Flat files

A file is a record of what the walk reads in it: sizes, offsets, locators, which
checksum and sentinel holds, the data bytes of map chunks (their variable-length
deltas are decoded byte by byte, with the shifts and range checks of the code),
and the MS size words and handle of records. `feed` takes any prefix of the demand
up to a scratch size. What is committed (the header, each section, each object) is
appended to `commits`. `then` in the code makes the effect of a step and only
afterwards fails if the next unit cannot be entered; the model keeps that order.
`Save` and `Restart` go through `Consistent` and the header's replay.

`FlatReading` states separately what a reading in one piece commits: it knows the
entries that the chunk bytes are meant to encode, where the walk knows only the
bytes.

### Sections and LZ77

`SectionWalk` offers the walk any job of a set (`begin_page`), feeds it pieces,
pumps it, saves and restores it. Each page is read twice, once for the checksum of
its stored bytes and once to be given out. The decoder is there as its contract:
one call consumes and produces no more than it was given and pauses only when the
input is used up or the room is full (`LzCalls`, `LzFails`). `Lz77` has that
contract as a property of its own (`Bargain`), checked and proved, so the two
modules meet at a stated interface.

`Lz77` has the decoder's fields as a record, the ring as a function from places to
bytes, and one action per mode that takes a byte, plus one that puts a byte of a
copy and one of a literal run; a `decode` call is opened with what the caller hands
over and returns when it has run. Three numbers of the format are constants: where
a long literal run starts (0x0f), what a zero extension byte adds (0xff) and the
span of an offset field (0x4000), so that a stream of a dozen bytes wraps the ring.

### R2004 walk

A file is its page map and section map, and what lies at each page's address. Pass
A reads the page map (to find the section map) and the section map, and fills a
slot per section: how many pages it lists, and a digest of their references. Pass B
reads the page map again and walks each data page: peek its header, find the slot
by the section id, count and digest what it says, start the section walker, give
the page's parts. `Verify` compares counts and digests. The model has those stages,
the errors that leave each, the checkpoint's clauses one by one, and `handed`, what
the caller was given for each page map entry.

### R2004 maps

`R2004Maps` has the fields of `R2004MapWalker`: what has been read of the file
header and of a system page, the decoder by its counters and its mode, the open
record and how much of it is there, the counts of what is left. One action per
thing `feed` and `pump` can do, and one (`Again`) for the second walk through the
page map that `R2004Walk` starts. A page is what the code can tell of it: declared
sizes, whether its checksum holds, how its LZ77 stream ends (terminator, a
malformed byte, cut off) and after how many bytes, and its records as parsed. The
decoder's call is the contract of `Lz77`, narrowed to where it may pause.
`R2004MapReading` computes from the file alone what is committed and the error: each
record by how many are before it, where it starts and which description it belongs to.

### Objects

`Framer` takes each stage of a record (prologue, MS size, MC handle size, payload,
CRC) in pieces of any length and refuses as the code does. `ObjectWalk` composes it
with a file walk given as a script of the steps that walk hands out, in the order
`R2004Walk` and `SectionWalk`, or `R2007Walk`, hand them out. Section bytes are
staged by one step and framed by later ones; a checkpoint holds the file walk, the
staged bytes and the framer, and `Consistent` is the check of the three together,
which differs between the two families.

`ObjectReading` starts from the other end. It takes from the script which bytes of the
section come before the first item the walk must stop at, lays the records out one
behind the other (`Start`), and asks of each what it can be refused for and how many
bytes must be there to tell (`Checks`). What is committed is then a count: the records
that are right and whole in those bytes.

### R2007 walk and FileSource

Byte `i` of codeword `j` of `n` is at `base + n * i + j`, so a codeword is a gather.
`FileSource` answers one from its window, from a refilled window, or by single
reads, and each outcome is a set: the reader gives any part of what is asked,
blocks or fails, at every read and seek. A file byte is its offset, so a window that
is not where it claims to be shows. `R2007Reader` completes a codeword, checks it,
and decodes from it; it reads the page twice. What came of wrong stored bytes is
`Garbage` from then on. `R2007Maps` walks the page map for its facts, the section
map for its records, and the page map again for each reference; `R2007Walk` adds
the header, holes, ends, checkpoints and the adapter, which survives a restore or
is replaced by a fresh one. `R2007Reading` is the reading of a whole file.

## 3. Runs

| Run | States | Asks | Shows |
|---|---|---|---|
| `delivery` | 194,116 | one unit that may be left early, a source that may end short, one failure, one crash | no double fetch and held bytes used while units are read whole, ends reported at the end, `ByteFeed` implemented, every walk ends or is refused behind a unit left early |
| `delivery_stranded` | | the decode pass of a page, then the header of the next; `HeldServesDemand` | violated: finding 1 |
| `flat_walk` | 196,959 | 52 files, six of them with one restart at any byte | the walk agrees with the reading of the whole file, error included; demands in verified ranges; every state restorable but one kind; it ends |
| `flat_overlong` | | that kind | violated: finding 2 |
| `section` | 79,551 | 4 sections, 15 kinds of page, two restarts | spans tile the section, verified first, restorable, comes to rest |
| `lz77` | 581,691 | every opcode class, every cut; streams longer than the window with two restarts | agrees with `decompress` but for its copy limit, window, contract with the section walker, restorable, ends |
| `lz77_short` | | a limit below 15 bytes | violated: finding 3 |
| `r2004_walk` | 27,620 | 21 files, two restarts | page-map order, full accounting, restorable but one kind, ends |
| `r2004_extra` | | that kind | violated: finding 4 |
| `r2004_maps` | 47,657 | 51 files, four of them with a restart | the maps agree with the reading of the whole file, error included; reads stay in their page; restorable; comes to rest |
| `objects` | 42,712 | 37 files of both families, seven of them with two restarts | the records are those of the whole section; walk, staged bytes and framer accepted together |
| `r2007_walk` | 206,618 | 51 files, a reader that gives any part, blocks or fails, two files with a restore | agrees with the reading of the whole file; source true; restorable; ends |

The four pairs of a passing and a violated run on one subject (`HeldContinues` and
`HeldServesDemand`, `RestorableEntry`
and `Restorable`, `RestorableListed` and `Restorable`, the limits of `lz77`) are
one statement: the violated form is what the code's comment says, the passing form
is exact about what holds. `RestorableInSource` (r2004_maps) and the premises of
`Restorable` in `objects` and `r2007_walk` are exact in the same way: section 6
says which states they leave out, and why.

`Agrees` is the strongest property of a run that has it. It compares all that was
committed and the error with what a definition over the whole file gives, for every
way of cutting the reads, so a checksum compared late, a byte left over from the
record before, or a field assembled wrongly across a cut each show in it.

### Bounds, and why they are enough

- *Delivery*: a chunk of 2 bytes and scratches of 1 and 3, so a scratch is smaller
  and larger than a chunk and a held chunk takes two polls; three units, one of
  them a second reading of the first's bytes, of 3, 2 and 1 bytes, so demands are
  longer and shorter than a chunk; the second may be left after its first byte; a source that holds them all, and one that lacks
  the last; one transport failure and one crash, each at any
  step. The answers on their way are a set without a bound on repeats. The theorems
  have none of these bounds.
- *Flat*: each file is sound or wrong in one place, one file for each error the
  walk can report and each boundary a check has (an entry at the very end of the
  source, of the map, a delta of exactly nine groups). Scratches of 1 and 512 cut
  every field everywhere and nowhere, and both in one field. `MaxHandle` and
  `MaxLocation` (1000 and 5000) are the widths u64 and i64 at a size where sums can
  leave them; `MaxChunk` is 14 and `HeadBytes` 3 for the same reason. The six files
  restarted are the ones whose walk goes furthest.
- *Section*: pages of 4 bytes, output pieces of 2, carry of 2, reads of at most 3:
  every buffer fills and straddles. The pages offered are sound, short, long,
  repeated, overlapping, misplaced, off the end of the source, and wrong in each
  checksum; two restarts so that a restored walk is saved again.
- *Lz77*: `Far` of 4 makes the window 12. Streams put a literal run of no, four,
  eight or extended length, zero, one or two copies of each class, near, at the far
  end of the window and refused, and one of six endings. Feeds of one byte or all,
  rooms of 1 and 5. `MaxBackref` is 33: copies of 34 bytes fit the limit of 60 and are
  too long for `decompress` alone; a copy that fits the limit of 20 never is.
- *R2004*: a table of two slots, three data pages, one gap, one system page; each
  unsound file is wrong in one way: a page missing, extra, walked twice, misplaced,
  of another size, of another or no section, unreadable in each way, a section
  encrypted, repeated, or one too many.
- *R2004 maps*: pages of 4 and 5 bytes with records of 2 and 3, carry of 2 and
  checksum reads of 3, so a record straddles reads, carries and output pieces. One
  file per check: each record rule, each declared size one too small and one too
  large, streams that end early, late, cut, or in a malformed byte before, at and
  behind the last record, and sources that end in every part.
- *Objects*: records of one and two size words, an MC of one, two and too many
  bytes, sections of up to 24 bytes in pages of 6, in steps of 1, 3 and 4 bytes, so
  a step ends in each field. Pages out of order, with a hole, missing, and sections
  described twice or never.
- *R2007*: codewords of 3 with a message of 2, a window of 3: a gather of two
  codewords interleaved fits the window by single bytes but not in whole, so all
  three paths of `poll_gather` are taken. Pages coded and bare, compressed and
  stored, empty, behind a hole, cut by the section's end; one file per check of the
  maps and of a page; one hard failure and one restore at any step.

Every counter that would grow without limit has a bound among the constants:
`MaxFails`, `MaxCrashes`,
`MaxRestarts`, `MaxFailures`, `MaxRestores`. `CHECK_DEADLOCK FALSE` is set where a walk
may stop (finished, failed, or waiting for the caller's next page) with no restart
left.

### Fairness

A grammar does nothing by itself, so liveness is about its driver. `FairSpec` says
that the driver goes on: `WF(Poll)` (poll_walk's loop calls poll_once while it gets
`Pending` or `Fed`), `WF(Feed)`, `WF(Walk)` and `WF(Decode)` for a walk that is
driven without an adapter. For the host, `WF(HostTake)` and `WF(HostSettles)`: it
collects what is posted and in the end answers it, with bytes or an end, not only
with failures. The adapter has no timer and no retry of its own, so without the
second a request stays in flight for ever and nothing can be said. No fairness is
assumed of `Save`, `Crash`, `Restart`, of failures, or of any single outcome.

For the R2007 walk the assumption is that a walk not finished goes on making
progress now and then: the caller polls, and the reader gives at least a byte of
every so many polls. It is `WF_vars(Step)`, written out as `[]<>Finished \/
[]<><<Progresses>>_vars` because `Step` is enabled just while the walk is not
finished. Nothing else is assumed of the reader: it may give one byte and block, for
ever. `Rests` then depends on the window keeping what was filled before it blocked.

## 4. Proofs

Constants are bound only by the named assumptions in the modules that declare them
(sizes positive, inputs of their type); TLC evaluates them on every run. Where a
module takes something of its neighbour, the assumption says what that neighbour
lets through. In `R2004Walk` it is what the map walker accepts (as many references
as declared, starts rising). In `R2004Maps` it is how a stream ends: inside the page
unless it is cut, with no more output than declared. In `ObjectWalk` it is the order
in which the file walk hands out its steps: for an R2007 file, sections numbered as
they come, bytes and holes inside the section they belong to, bytes in order unless
a hole was reported; for an R2004 file, all sections before any byte, as pass A is
behind a walk before pass B begins (r2004_walk.rs:2-8). A script ends once, as finished
or refused, because a walk does: a failure is kept and returned by every later call
(r2004_objects.rs:153-157, 192-200), and a walk that has finished asks for nothing. A
record has at least one size word. In `R2007Maps` it is what a reference may say of its page
(`Sized`): codewords for every stored byte (`data_geom` computes their number), and a
stream that ends with the byte that fills the page (the decoder's limit is the page,
r2007_lz.rs:386 and 403). `FlatWalk` assumes nothing beyond types and that the bytes a
size counts are there to be read; sums, offsets and sizes are any naturals.

**Delivery** (`DeliveryProofs`). `TypeCorrect`, `InOrder`, `EndIsTheEnd` and
`Implements` hold for every grammar. `NothingFetchedTwice`, `HeldIsUsed` and
`NoMisuse` hold as long as no unit was left before its end; finding 1 is what happens
after. None of the properties is inductive: whether a held byte is the right one
depends on what was posted, saved or known to end before. The invariant comes in two
layers. `FedInv` says that what was fed and what is held, now and as saved, are source
bytes from where they claim to be: a delivery compares offsets, so this is enough for
the refinement even when held bytes were stranded. `IInv` adds, for a state that has
left no unit early, that grammar and held bytes are paired (`Paired`) and that a
posted request and a known end are the demand the grammar is at (`InStep`). A crash
may go back to a state before a unit was left, so the saved state is paired on its
own account. A late answer changes nothing because its offset is not the posted one,
or it answers the same demand.

**Flat files** (`FlatWalkProofs`). `TypeCorrect`, `DemandBounded`, `EntryRestores`.
Types are those of the walk, of its commits and of the checkpoint; the commits matter
to neither of the other two and have an invariant of their own (`Committed`).
A demand is in bounds because of checks made units earlier, so the invariant says for
each kind of unit what is already verified: the header parser's cursor (`ParserOk`),
the locator of the section, the chunk inside the map with its checksum folded
(`VerifiedChunk`), the entry between the chunk's size and its end, the record in the
source and clear of the map (`RecordUnit`). For the restore it needs two more facts.
A parser is what its saved bytes replay to (`Replayed`), which is proved by the
number of bytes taken, through each transition. And what a checkpoint says of a
chunk or a record must be what the file says there, or a restored walk would read on
under other sizes (`Reachable`). The shift of an entry stays in `Shifts`, steps of
seven, which bounds what can be shifted out; 63 is in it and is finding 2, hence the
premise of `RestorableEntry`.

**Section** (`SectionWalkProofs`). `TypeCorrect`, `RestoreAccepts`,
`VerifiedBeforeUse`, `ReadsStayInPage`, `PagesNeverOverlap`, `PagesAreWhole`, and
`Tiles` (`SectionAssembly` implemented). The invariant is that the walk is *sound*,
now and as saved: `Consistent`, which is the code's own restore check, and
`Placed`, which says where the cursor is (at the end of the pages behind it, until
the page at hand has given a byte). That the code's check is part of an inductive
invariant is itself the theorem `RestoreAccepts`. Pages do not overlap because
their starts are multiples of the page size and rise (`Multiples`).

**Lz77** (`Lz77Proofs`). `TypeCorrect`, `WindowKept`, `KeepsBargain` for every
stream, limit and slicing; `RestoreAccepts` for limits of at least `Lead` (finding
3 is below it). `LzInv`: each pending field fits the mode (`Reached`), the ring
holds the end of the output (`WindowHolds`), the saved bytes were the end of the
output when saved (`KeptHolds`). The ring argument is `PlacesApart`: two numbers
less than a window apart have different places, so a new byte only replaces one
that is out of reach, and a restore may rebuild the ring at other bytes' expense.

`AgreesHolds`: for every stream, every limit, every way of cutting the input and the
room for output, and every sequence of saves and restores, the resumable decoder gives
what `decompress` gives, but for a copy longer than `max_backref_len`, which the former
takes and the latter refuses (section 6). It assumes nothing beyond the types of the
constants. `After(longest)[n]` is the result after n opcodes of a `decompress` that
takes copies of at most `longest` bytes. No copy it takes is longer than the limit, so
`Full`, which is `After(limit)`, is `decompress` without that check, and the decoder is
first compared with it (`FullAgrees`). `AfterUnder` then says how `After(MaxBackref)`
and `Full` go together: they are the same until the former ends at a copy that is too
long, with the output it had. The invariant, `Together`, says of the decoder and of its
checkpoint that they are at a place `Full` passes (`Mid`): a decoder that has not failed is at the head of the loop (`AtHead`), in
the count of a copy (`Extends`), in its offset (`Offsets`) or in the copy (`Copies`)
of some `Full[n]`, or before or within the literals that lead to the next
(`Lengths`, `Giving`), or done with it (`Ended`); one that has failed has an n at which
`decompress` refuses, with an output that one of the two begins (`Failing`). The two
orders differ: `decompress` reads a copy's length, offset and following literal length
before it copies a byte, the resumable decoder copies as soon as it has the offset, and
stops a run of zeros once it outgrows the limit. So a place in a copy is tied to the
bytes the copy *will* give (`AllCopied`), and a failure of one is a failure of the
other that comes later. A byte copied comes from the ring and a byte of `AllCopied`
from the output `far` before it; `WindowHolds` makes these one. Each action has a lemma
that takes a place to a place (`OpcodeMid`, `ExtendedMid`, `Offset2Mid`,
`CopyByteMid`, ...). That outputs only grow and that a final result stays
(`AfterGrows`, `Settles`) then carries `Mid` to the end of the stream, and with it
`Agrees`.

`After(longest)` is recursive, and the library's theorems on recursion and induction take an
operator as a parameter, which the provers cannot instantiate. Its equation is
therefore proved from the well-foundedness of the naturals alone: a set of naturals
that has 0 and each successor is all of them (`SetInduction`), the partial functions
that satisfy the equation up to n exist for every n and agree, and their diagonal
satisfies it (`AfterDefined`). All later inductions are over sets of that kind.

**R2004 walk** (`R2004WalkProofs`). `TypeCorrect`, `InOrder`, `RestoreAccepts`,
`AllAccounted`. `WalkInv` says that the table holds the sections described so far
and that each slot has counted exactly the references read (`RefsRead`) and the
pages found (`Found`) of its section: sets of positions, whose cardinalities are the
digest's entries. Every step adds at most one member to one of them. At `Done`
equal digests give equal cardinalities; the starts of a section's references rise,
so each is listed once, hence found once.

**R2004 maps** (`R2004MapsProofs`). `TypeCorrect`, `RestorableHolds`,
`ReadsConfined`. The invariant (`WalkOk`) is by stage what the restore check demands,
less its demand that the page starts in the source, which the code does not ensure
(section 6), and more where the check is too weak to be kept: a page map is read at
the header's address and a section map at the address and with the size its own
entry gave (`Located`), nothing of a section map is counted before its page is
(`Unread`), and while decoding the bytes read are those the decoder consumed and
those carried. The last is what keeps reads in the page when the decoder leaves bytes
over: the next read starts where the carry ends. That a record is never larger than
what the output has left (`RecordsOk`) is the arithmetic of the three record sizes.

`AgreesHolds`: for every file, however it is cut into reads, its maps compressed, and
whatever restarts came between, a walk that stops has committed what `R2004MapReading`
reads and stops with its error, or it is `CutShort`: the stream is malformed and its last
record may be lost. The invariant, `AInv`, adds to the one above that the walk and its
checkpoint follow the reading (`Follows`), and that a walk which failed has come out as
the reading does or is cut short (`Agreed`). To follow it is, while decoding, to have
`nth` records behind it, all of them right; to have committed those (`EntriesTold`,
`RecordsTold`); and to have put out the bytes up to where the reading has the next start
and what there is of it. Of the page map the walk then has the address, the sight of the
map's own entry and the section map's place that the entries leave (`Listed`). Of a
section map its counters say which description a record belongs to (`Counting`): what is
left of the pages of a section and of the sections is what the reading's counts give.
`Streams` ties the decoder to how the page's stream ends, and the four ways a page can end
the walk each have a lemma (`UndrainedFollows`, `MalformedFollows`, `CutFollows`, and
`FinishPageMapFollows` with `FinishSectionMapFollows`). A reading is a sequence of parts
joined by `\o`, so a refusal in one part is the reading's own only because the parts
before it ended well (`PageMapEnds`, `SectionMapEnds`). `IteratedFacts` proves from the
well-foundedness of the naturals the equation that the sums and the owners are defined by.

**Objects** (`ObjectWalkProofs`). `TypeCorrect`, `RestorableHolds`. `TypeCorrect` also
bounds what a record has taken by its size, of a walk that has failed too (`Left`).
`FrameOk` says of
each stage of the framer what has been read of the record and what is left of it, as
the stream has it; every piece of any length keeps it. `FoundOk` ties it to the walk:
the bytes framed and the bytes staged end where the section's bytes have got to
(`Offset`), which is the page at hand if it is the section's own and the last page of
it otherwise. R2007's restore check compares the two from the walk's side, so there
the invariant adds that no hole was skipped (`Contiguous`). That the section at hand
is the object section, or a later one, is the numbering of sections: descriptions
behind the walk are counted (`SectionsNumbered`), numbers rise (`SectionsOrdered`),
and nothing of a section comes before its description (`NothingBefore`). Greatest
elements of sets of positions come from the well-foundedness of the naturals
(`LeastMember`), so none of this needs an induction over the script.

`AgreesHolds`: for every file of either family, every way of cutting its bytes into
reads and its pages into steps, and every sequence of saves and restarts, a walk that
stops has committed the records, each with its place, handle and payload, that
`ObjectReading` finds, and stops with its error or finishes with it. The invariant,
`AInv`, adds to the one above that the walk and its checkpoint follow the reading
(`Follows`), and that a walk which failed has already come out as the reading does
(`Agreed`). To follow it is to have the framer at a record of the reading (`Spells`):
the records before it are right, it started where the reading has it start, and as much
of its head as has been read is what the file spells. What is committed is then those
records and, behind the last, the end (`Told`). Each stage of the framer has a lemma for
a piece that is accepted (`MsReads`, `McReads`, `BodyReads`, `CrcReads`) and one for a
piece that is refused (`MsRefused`, `McRefused`, `CrcRefused`): the framer refuses a
record for the reason that comes first in the order of `Checks`, and not before the
bytes it needs for it are there (`RefusedFor`). `NotYet` and `CountAll` turn a place in
the bytes into the count of the reading, so a record only half delivered is never in it.
The file walk's side is that no item behind it was one to stop at, so `Offset` is the
end of the bytes delivered (`DeliveredBehind`), and that the item it stops at is the
first such (`StopsHere`). R2004 needs here that sections come before bytes; without it a
section described late would change which bytes belong to it.

`Start` is a recursive function, whose equation (`StartFacts`) is proved as that of
`After` is, from the well-foundedness of the naturals; inductions are over sets of
naturals. The same is needed of `Start'`, since the reading is of the file of the next
state: `StartUnique` proves that two functions with the same equation are one.

**R2007 walk** (`R2007WalkProofs`). `GatherAnswers`: from a true source, whatever
the reader does, each outcome of a gather leaves a true source and, if it has bytes,
they are the first of those asked for. `SourceStaysTrue` lifts that to the walk. By
itself the property is not inductive: a gather needs a natural offset and at least
one byte to ask for, which depends on what the walk has reached. `IInv` adds that:
the header has less than its size while it is read (`HeadPlaced`), the page map's
position and the entry in hand go together (`MapPlaced`), so do the section map's
(`RecordsPlaced`), and the page's reader has less than the fill it is in
(`PagePlaced`), each of the walk and of its checkpoint.

`RestorableHolds` says that `consistent` (r2007_checkpoint.rs) takes every state of the
walk, under the premise `Snug` of section 6. The check is not inductive in either
direction: what it demands of a page's reader fails for streams that end early, yet
the walk goes on from there, and elsewhere it is too weak to be kept. `WInv` therefore
says of the walk and of its checkpoint that they are `Reached`: the check by stages,
with the reader's part replaced by `ReaderOk`, and with the types, the page's size and
the count of descriptors (`Counted`) that the steps rely on. `ReaderOk` has the place
in the codewords or chunks (`FillOk`), the decoder's (`LzOk`), the sums, and the ledger
that ties them together (`FedOk`): the stored bytes the decoder has taken in and those
of the message still in hand are the bytes fed, until the stream has given the whole
page. Only for a stream that needs its last unit does the ledger give what the check
wants (`InStep`): such a stream is not decoded before all is fed (`AllFed`), which is a
count of the input places up to where the decoder stands (`Between`). Every action has
a lemma of its own (`FeedPageReached`, `DataReached`, `LookupEntryReached`, ...).

What stays with TLC. Liveness (`ComesToRest`, `Ends`, `Rests`) is about ENABLED, which
the prover does not have. Agreement with the reading of a whole file is proved of
`LzReading`, `ObjectReading` and `R2004MapReading` and only checked of `FlatReading` and
`R2007Reading`: these fold over a file's entries, chunks or pages, and each fold needs its
own equation proved from the well-foundedness of the naturals before anything can be said
of it. Every other safety invariant the passing runs check is proved.

## 5. What the models leave out

- A checksum is the count of bytes folded since its seed together with whether the
  file's field holds, so folding too few, too many or twice shows and the
  polynomial does not. The digest of page references is the multiset of them:
  collisions of its 64-bit sum are left out.
- Error kinds are kept where a run compares them (flat files, R2004 maps, objects,
  and the R2007 walk by name); elsewhere a failure is a flag. `CounterOverflow` (a u64 count of bytes) and saturating sums
  at `u64::MAX` are left out.
- In `R2007Walk` the pages of the two maps are read in one step each: their
  verdict, then their bytes in pieces of any length. The reader they go through is
  the one modelled for data pages. The LZ dialect's opcodes and the arithmetic of the codes and
  sums are its contract and a verdict. A seek that lands elsewhere than asked, which
  the adapter refuses, is left out.
- `FileSource` does not meet `AsyncSource`: the R2007 walk over the latter goes
  through `gather_by_reads`, whose stops are modelled for the reader. In `ObjectWalk`
  the file walk is the steps it hands out, and its own restore check is its module's.
- Calls the code refuses without a change of state (a delivery at the wrong offset,
  `begin_page` at the wrong time, calls after the end) are not actions.
- In `R2004Walk` the map walker is its records in order, which `R2004Maps` has in
  full, and the section walker the parts of a page, which `SectionWalk` has. In `SectionWalk`
  the decoder's own restore check is the subject of `Lz77`, so a page size below 15
  bytes (finding 3) is outside what `RestoreAccepts` says of it.
- Behind the last record a file lists, its maps and its object section hold zeros
  (`RecordAt`, `Zeros` of `R2004Maps` and `Framer`). That is a choice of files, not of
  what the walks do with them; it makes the models total, so that the theorems need no
  premise on how many records a file has.
- `Save` may come between any two steps. examples/stream_walk.rs, which writes
  checkpoints, does so between polls and refuses to with a fetch in flight; saving
  at more points covers it.
- The checkpoint's own encoding (lengths, tags, its checksum) is left out: a
  checkpoint is the fields written.

## 6. Findings

1. `delivery_stranded`, byte_source.rs:987. After a page's LZ77 stream ends before
   its last stored byte, bytes fetched for a larger scratch stay held; every later
   poll is refused, and no method drops them. The documents promise that held bytes
   are for the polls that follow.
2. `flat_overlong`, streaming/flat.rs:670. The walk reaches shift 63 in an entry;
   the restore check stops at 56. The file is malformed, but the resumed walk blames
   the checkpoint.
3. `lz77_short`, streaming/lz77.rs:398. With fewer than fifteen bytes declared, a
   long literal run passes a state the restore check refuses. Again the stream is
   malformed and the checkpoint is blamed.
4. `r2004_extra`, streaming/r2004_walk.rs:511. A page more than the section map
   lists is counted at once and refused only at the end; checkpoints in between
   cannot be restored, against the comment over the check.

Five more places where the code and what is said of it part, each of which a passing
run states exactly in a premise:

- streaming/r2007.rs:622. `progress_ok` ("Restore-time check that the progress fields
  form a state the reader can reach") wants the message consumed whenever the page is
  decoded or a fill has begun. A stream that ends before the last stored codeword or
  chunk is decoded while verification still reads the rest; a checkpoint there is
  refused. Premise `Snug` of `Restorable` in `r2007_walk`.
- streaming/r2004_maps.rs:630. `finish_page` enters a section map whose header may lie
  past the source's end; `consistent` (line 673), "one the walk can reach" by the
  comment at 643, refuses that state. Premise of `RestorableInSource`.
- streaming/r2004_maps.rs:458. A malformed byte met in the same decoder call that
  completes the last record loses that record, so whether it is committed depends on
  how the reads are cut; docs/streaming/audit.md:185 says every chunk schedule
  produces the same steps. `CutShort` in `Agrees` of `r2004_maps`.
- streaming/records.rs:461 and 499. A record cut by the section's end inside its
  size, and an MC of ten bytes not yet ended, are reached without an error and refused
  by restore, against the comment at 415. `Doomed` in `Restorable` of `objects`.

- lz77.rs:205. `decompress` refuses a copy of more than `max_backref_len` bytes, by
  default 1 MiB; `Lz77Decoder` has no such check, though "Opcode semantics are the
  crate's own `lz77::decompress`" (streaming/lz77.rs:7), and takes a copy of any length
  that fits the declared size. So one stream can be an error to the whole-buffer reader
  and a page to the streaming walkers. `tooLong` in `Agrees` of `lz77`. There, what
  bounds the output of `decompress`, `max_output_bytes`, is the declared size.

In the second, third and fourth, as in findings 2 and 3, the file is malformed and only
the error changes; in the first and the last the file may be sound.

## 7. What is left

Done, in this order: delivery, flat files, sections, LZ77, the R2004 walk, its maps,
the object walks, `FileSource` with the R2007 walk; each model-checked before
anything of it was proved.

Worth having next, in order:

1. Composition: `R2004Walk` takes the order of map records and page parts for
   granted. `R2004Maps` and `SectionWalk` have both in full; a refinement of the
   three together would close the gap.
2. The opcodes of the R2007 LZ dialect, as `Lz77` has those of R2004.

**Not modelled.** About 90k of the crate's lines are functions without state between
calls: field-by-field decoders of some 200 entity and object types, DXF and its
writers, SVG, glTF, the whole-buffer reader, the encoders. A model of them would be
their field lists again, and its properties would be about text, floating-point
numbers or bit layouts; tests and the corpus reach those better. The Reed-Solomon
and CRC arithmetic is out of TLC's reach at its real sizes. `HandleAllocator` is two
one-line methods. `PROJECT.json` gives the reason for each.
