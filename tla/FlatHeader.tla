----------------------------- MODULE FlatHeader -----------------------------
(***************************************************************************)
(* streaming/mod.rs, FlatHeaderParser: the suspendable grammar of the      *)
(* R13-R2000 file header, and its checkpoint (checkpoint.rs, "DWGH"),      *)
(* which is restored by replaying the header bytes it saved.               *)
(*                                                                         *)
(* A file is a record of what the grammar reads in it; the header's part:  *)
(*   length     the source's length, known before it is read               *)
(*   magic      "flat", or the error its first six bytes call for          *)
(*   count      the locator count                                          *)
(*   locators   the locators, [number, offset, size]                       *)
(*   crc, end   do the header's checksum and end sentinel hold             *)
(***************************************************************************)
EXTENDS Integers, Sequences

CONSTANT Files

VARIABLES
  file,     \* the file being read; no action changes it
  parser,   \* the parser's cursor
  failure   \* the error that ended the walk, or "none"

Phases == {"Magic", "Prefix", "Count", "Locator", "Crc", "Sentinel", "Done"}

NewParser == [phase |-> "Magic", filled |-> 0, target |-> 6, count |-> 0,
              index |-> 0, seen |-> {}]

\* The bytes up to here are the header's own.
HeaderEnd(p) == 25 + 9 * p.count + 18

\* What the next locator is refused for; the last one also answers for the
\* three that must be there.
LocatorError(p) ==
  LET l == file.locators[p.index + 1]
  IN IF l.number > 5 THEN "LocatorNumber"
     ELSE IF l.number \in p.seen THEN "DuplicateLocator"
     ELSE IF \/ l.offset + l.size > file.length
             \/ l.size # 0 /\ l.offset < HeaderEnd(p) THEN "LocatorRange"
     ELSE IF p.index + 1 = p.count /\ ~({0, 1, 2} \subseteq p.seen \cup {l.number})
          THEN "MissingLocator"
     ELSE "none"

\* What `transition` returns when the parser's target is reached.
TransitionError(p) ==
  CASE p.phase = "Magic"    -> IF file.magic = "flat" THEN "none" ELSE file.magic
    [] p.phase = "Prefix"   -> "none"
    [] p.phase = "Count"    -> IF file.count \in 3..6 THEN "none" ELSE "LocatorCount"
    [] p.phase = "Locator"  -> LocatorError(p)
    [] p.phase = "Crc"      -> IF file.crc THEN "none" ELSE "HeaderCrc"
    [] p.phase = "Sentinel" -> IF file.end THEN "none" ELSE "HeaderSentinel"

Seen(p) == p.seen \cup {file.locators[p.index + 1].number}

\* The cursor `transition` leaves when it returns no error.
Transition(p) ==
  CASE p.phase = "Magic"    -> [p EXCEPT !.phase = "Prefix", !.target = 21]
    [] p.phase = "Prefix"   -> [p EXCEPT !.phase = "Count", !.target = 25]
    [] p.phase = "Count"    -> [p EXCEPT !.phase = "Locator", !.count = file.count,
                                         !.target = @ + 9]
    [] p.phase = "Locator"  ->
         LET last == p.index + 1 = p.count
         IN [p EXCEPT !.seen = Seen(p), !.index = @ + 1,
                      !.phase = IF last THEN "Crc" ELSE @,
                      !.target = @ + (IF last THEN 2 ELSE 9)]
    [] p.phase = "Crc"      -> [p EXCEPT !.phase = "Sentinel", !.target = @ + 16]
    [] p.phase = "Sentinel" -> [p EXCEPT !.phase = "Done"]

\* The cursor after n more bytes, at most to the target, and the error if any.
Filled(p, n)   == [p EXCEPT !.filled = @ + n]
FeedError(p, n) ==
  IF p.filled + n = p.target THEN TransitionError(p) ELSE "none"
Fed(p, n) ==
  IF p.filled + n = p.target /\ TransitionError(p) = "none"
  THEN Transition(Filled(p, n)) ELSE Filled(p, n)

\* The source is known to end before the field being read does.
HeaderTruncated == parser.phase # "Done" /\ parser.target > file.length

HeaderDemand == [offset |-> parser.filled, len |-> parser.target - parser.filled]

\* restore: a new parser fed the saved bytes, field by field.
Replayed(filled) ==
  LET after[n \in 0..filled] == IF n = 0 THEN NewParser ELSE Fed(after[n - 1], 1)
  IN after[filled]

HeaderErrors ==
  {"none", "InvalidMagic", "UnsupportedLayout", "LocatorCount", "LocatorNumber",
   "DuplicateLocator", "LocatorRange", "MissingLocator", "HeaderCrc", "HeaderSentinel"}

ParserType ==
  [phase : Phases, filled : Nat, target : Nat, count : 0..6, index : 0..6,
   seen : SUBSET (0..5)]
=============================================================================
