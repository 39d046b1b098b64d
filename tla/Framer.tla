------------------------------- MODULE Framer -------------------------------
(***************************************************************************)
(* streaming/records.rs, ObjectFramer: the records of an object section    *)
(* framed from its bytes, in slices of any size.  Behind a prologue of     *)
(* four bytes each record has a size of one or two words (MS), on R2010 a  *)
(* handle-stream size (MC), that many bytes of payload, and a CRC.         *)
(*                                                                         *)
(* A stream is                                                             *)
(*   prologue  how many bytes of the prologue are right                    *)
(*   records   what its bytes spell, one record behind the other:          *)
(*     words, size   the MS, and the size it spells                        *)
(*     mc, wide      bytes of the MC, and whether the last one allowed has *)
(*                   more bits than fit                                    *)
(*     mcFits        is the handle stream inside the payload               *)
(*     crc, handle   does the CRC hold; the handle, or NoHandle when the   *)
(*                   first bytes of the payload hold none                  *)
(* It is read in a section of some format, "R2000" or "R2010", and size.   *)
(***************************************************************************)
EXTENDS Integers, Sequences

CONSTANTS
  MaxMc,     \* MAX_MC
  HeadBytes, \* HEAD, payload bytes the framer keeps
  NoHandle

Prologue  == 4
MinRecord == 5

ASSUME FramerAssumption == MaxMc \in Nat \ {0} /\ HeadBytes \in Nat \ {0}

RecordType ==
  [words : Nat \ {0}, size : Nat, mc : Nat \ {0}, wide : BOOLEAN, mcFits : BOOLEAN, crc : BOOLEAN,
   handle : Nat \cup {NoHandle}]
StreamType == [prologue : 0..Prologue, records : Seq(RecordType)]

\* What zeros spell: there is nothing else behind the last record.
Zeros ==
  [words |-> 1, size |-> 0, mc |-> 1, wide |-> FALSE, mcFits |-> FALSE, crc |-> FALSE,
   handle |-> NoHandle]

\* The record that frame f is at.
RecordAt(s, f) == IF f.records < Len(s.records) THEN s.records[f.records + 1] ELSE Zeros

Formats == {"R2000", "R2010"}
Frames  == {"Prologue", "Ms", "Body", "Crc", "Done", "Ended"}

FrameType ==
  [format : Formats, total : Nat, at : Nat, stage : Frames, start : Nat, size : Nat,
   words : 0..2, msLen : 0..4, mcLen : 0..MaxMc, mcDone : BOOLEAN, done : Nat, summed : Nat,
   fieldLen : 0..1, records : Nat]

\* summed: bytes folded into the CRC.
Idle ==
  [format |-> "R2010", total |-> 0, at |-> 0, stage |-> "Prologue", start |-> 0, size |-> 0,
   words |-> 0, msLen |-> 0, mcLen |-> 0, mcDone |-> FALSE, done |-> 0, summed |-> 0,
   fieldLen |-> 0, records |-> 0]

\* `begin`, but for its refusals.
Begin(format, total) == [Idle EXCEPT !.format = format, !.total = total]

Fewest(a, b) == IF a <= b THEN a ELSE b

Payload(f)   == (IF f.format = "R2010" THEN f.mcLen ELSE 0) + f.size

RecordEnd(f) == f.start + f.msLen + Payload(f) + 2

InMc(f) == f.stage = "Body" /\ f.format = "R2010" /\ ~f.mcDone

\* Faulty variants, named Bad..., are the slips the properties must notice;
\* nothing but the mutation table of PROJECT.json uses them.

BadNextRecord(f) == [f EXCEPT !.start = f.at, !.stage = IF f.at = f.total THEN "Done" ELSE "Ms"]

\* next_record
NextRecord(f) ==
  [Begin(f.format, f.total) EXCEPT !.at = f.at, !.records = f.records, !.start = f.at,
                                   !.stage = IF f.at = f.total THEN "Done" ELSE "Ms"]

----------------------------------------------------------------------------
(* feed: what one call makes of n bytes, at stream s.  It takes as many as *)
(* the stage can use.                                                      *)

Takes(f, taken, event) == [frame |-> f, taken |-> taken, event |-> event, error |-> "none"]
Refuses(f, error)      == [frame |-> f, taken |-> 0, event |-> "Framing", error |-> error]

FeedPrologue(s, f, n) ==
  LET k == Fewest(n, Prologue - f.at)
      g == [f EXCEPT !.at = @ + k]
  IN IF g.at > s.prologue THEN Refuses(f, "ObjectPrologue")
     ELSE Takes(IF g.at = Prologue THEN NextRecord(g) ELSE g, k, "Framing")

\* The record must fit, with an MC of one byte where it has one.
MsFits(f) ==
  IF f.format = "R2010" THEN f.start + f.msLen + f.size + 3 <= f.total
  ELSE RecordEnd(f) <= f.total

FeedMs(s, f, n) ==
  LET r     == RecordAt(s, f)
      k     == Fewest(n, 2 - f.fieldLen)
      some  == [f EXCEPT !.msLen = @ + k, !.summed = @ + k, !.at = @ + k,
                         !.fieldLen = (@ + k) % 2]
      word  == [some EXCEPT !.words = @ + 1]
      whole == [word EXCEPT !.size = r.size, !.stage = "Body"]
  IN IF f.fieldLen + k < 2 THEN Takes(some, k, "Framing")
     ELSE IF word.words < r.words
     THEN IF word.words = 2 THEN Refuses(f, "RecordSize") ELSE Takes(word, k, "Framing")
     ELSE IF r.size = 0 THEN Refuses(f, "RecordSize")
     ELSE IF MsFits(whole) THEN Takes(whole, k, "Framing")
     ELSE Refuses(f, "RecordRange")

FeedMc(s, f, n) ==
  LET r == RecordAt(s, f)
      k == Fewest(n, r.mc - f.mcLen)
      g == [f EXCEPT !.mcLen = @ + k, !.done = @ + k, !.summed = @ + k, !.at = @ + k,
                     !.mcDone = f.mcLen + k = r.mc]
  IN IF g.mcLen > MaxMc \/ (g.mcLen = MaxMc /\ r.wide) THEN Refuses(f, "RecordHeader")
     ELSE IF g.mcDone /\ RecordEnd(g) > g.total THEN Refuses(f, "RecordRange")
     ELSE IF g.mcDone /\ ~r.mcFits THEN Refuses(f, "RecordHeader")
     ELSE Takes(g, k, "Payload")

FeedBody(f, n) ==
  LET k == Fewest(n, Payload(f) - f.done)
      g == [f EXCEPT !.done = @ + k, !.summed = @ + k, !.at = @ + k]
  IN Takes(IF g.done = Payload(g) THEN [g EXCEPT !.stage = "Crc"] ELSE g, k, "Payload")

FeedCrc(s, f, n) ==
  LET r == RecordAt(s, f)
      k == Fewest(n, 2 - f.fieldLen)
      g == [f EXCEPT !.at = @ + k, !.fieldLen = (@ + k) % 2]
  IN IF f.fieldLen + k < 2 THEN Takes(g, k, "Framing")
     ELSE IF ~(r.crc /\ f.summed = f.msLen + Payload(f)) THEN Refuses(f, "RecordCrc")
     ELSE IF r.handle = NoHandle THEN Refuses(f, "RecordHeader")
     ELSE Takes(NextRecord([g EXCEPT !.records = @ + 1]), k, "Object")

FrameFeed(s, f, n) ==
  CASE f.stage = "Prologue" -> FeedPrologue(s, f, n)
    [] f.stage = "Ms"       -> FeedMs(s, f, n)
    [] InMc(f)              -> FeedMc(s, f, n)
    [] f.stage = "Body" /\ ~InMc(f) -> FeedBody(f, n)
    [] f.stage = "Crc"      -> FeedCrc(s, f, n)
    [] OTHER                -> Refuses(f, "ObjectsOrder")

----------------------------------------------------------------------------
(* `consistent`, of a framer restored over stream s: the bytes it holds    *)
(* are the stream's.                                                       *)

\* A record takes a few bytes at least.
CountOk(f, at) == f.records <= (at - Prologue) \div MinRecord

NoRecord(f) ==
  /\ f.size = 0 /\ f.words = 0 /\ f.msLen = 0 /\ f.mcLen = 0 /\ ~f.mcDone
  /\ f.done = 0 /\ f.fieldLen = 0 /\ f.summed = 0

StartOk(f) ==
  /\ f.start >= Prologue
  /\ f.records = 0 => f.start = Prologue
  /\ CountOk(f, f.start)

BadMsOk(f) ==
  /\ StartOk(f)
  /\ f.at = f.start + f.msLen /\ f.at < f.total
  /\ f.words = 0 /\ f.msLen = f.fieldLen
  /\ f.summed = f.msLen
  /\ f.mcLen = 0 /\ ~f.mcDone /\ f.done = 0

MsOk(f) ==
  /\ StartOk(f)
  /\ f.at = f.start + f.msLen /\ f.at < f.total
  /\ f.words <= 1 /\ f.msLen = 2 * f.words + f.fieldLen
  /\ f.summed = f.msLen
  /\ f.mcLen = 0 /\ ~f.mcDone /\ f.done = 0

McOk(s, f) ==
  LET r == RecordAt(s, f)
  IN IF f.format = "R2010"
     THEN /\ f.mcLen = MaxMc => ~r.wide
          /\ f.mcDone = (f.mcLen = r.mc)
          /\ IF f.mcDone THEN r.mcFits /\ f.mcLen >= 1 /\ f.done >= f.mcLen
             ELSE f.mcLen < MaxMc /\ f.done = f.mcLen
     ELSE f.mcLen = 0 /\ ~f.mcDone

BodyOk(s, f) ==
  /\ StartOk(f)
  /\ f.size # 0 /\ f.msLen \in {2, 4} /\ f.words = f.msLen \div 2
  /\ f.at = f.start + f.msLen + f.done + f.fieldLen
  /\ McOk(s, f)
  /\ IF InMc(f) THEN f.start + f.msLen + f.size + 3 <= f.total ELSE RecordEnd(f) <= f.total
  /\ IF f.stage = "Crc" THEN f.done = Payload(f) ELSE f.done < Payload(f) /\ f.fieldLen = 0
  /\ f.done <= HeadBytes => f.summed = f.msLen + f.done

FrameConsistent(s, f) ==
  IF f.total = 0 THEN f = Idle
  ELSE /\ f.total >= Prologue
       /\ f.start <= f.at /\ f.at <= f.total
       /\ CASE f.stage = "Prologue" ->
                 f.at < Prologue /\ f.start = 0 /\ f.records = 0 /\ NoRecord(f)
            [] f.stage \in {"Done", "Ended"} ->
                 /\ f.at = f.total /\ f.start = f.at
                 /\ (f.records = 0) = (f.at = Prologue)
                 /\ CountOk(f, f.at) /\ NoRecord(f)
            [] f.stage = "Ms" -> MsOk(f)
            [] f.stage \in {"Body", "Crc"} -> BodyOk(s, f)
=============================================================================
