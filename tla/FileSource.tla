----------------------------- MODULE FileSource -----------------------------
(***************************************************************************)
(* byte_source.rs, FileSource: the adapter over a seekable reader, with    *)
(* the position it believes the reader is at and the window it gathers     *)
(* strided reads from, and gather_by_reads, the gather of an adapter that  *)
(* has no window.                                                          *)
(*                                                                         *)
(* The file's bytes are their offsets 0 .. SourceSize - 1, so a byte read  *)
(* from the wrong place shows.  A source is a record:                      *)
(*   cursor            where the reader is                                 *)
(*   position          where the adapter believes it is, or Unknown        *)
(*   window, windowAt  bytes kept from a gather, and the first one's       *)
(*                     offset                                              *)
(* A poll is the set of outcomes the reader can make of it, each a source  *)
(* and an answer: bytes, the end of the source, or none, because the       *)
(* reader blocked ("Pending") or failed ("Failed").  A reader that fails   *)
(* or blocks has not moved, and a seek that succeeds lands where it was    *)
(* sent: std::io's contract (the adapter refuses a seek that reports       *)
(* another offset).                                                        *)
(***************************************************************************)
EXTENDS Integers, Sequences

CONSTANTS
  SourceSize,    \* bytes the reader has
  GatherWindow   \* GATHER_WINDOW, the most the window holds

ASSUME SourceAssumption == SourceSize \in Nat /\ GatherWindow \in Nat \ {0}

Unknown == -1

Fewest(a, b) == IF a <= b THEN a ELSE b
Most(a, b)   == IF a <= b THEN b ELSE a

\* n bytes from offset on.
BytesAt(offset, n) == [i \in 1..n |-> offset + i - 1]

\* n bytes from offset on, each stride behind the one before.
Strided(offset, stride, n) == [i \in 1..n |-> offset + (i - 1) * stride]

Fresh == [cursor |-> 0, position |-> Unknown, window |-> <<>>, windowAt |-> 0]

Answer(kind, bytes) == [kind |-> kind, bytes |-> bytes]
Ready(bytes) == Answer("Ready", bytes)
Eof          == Answer("Eof", <<>>)
Pending      == Answer("Pending", <<>>)
Failed       == Answer("Failed", <<>>)

Outcome(source, answer) == [source |-> source, answer |-> answer]

At(s, cursor, position) == [s EXCEPT !.cursor = cursor, !.position = position]

----------------------------------------------------------------------------
(* poll_read *)

\* Where a read of `offset` begins: it seeks unless it believes it is there.
From(s, offset) == IF s.position = offset THEN s.cursor ELSE offset

\* The seek, or the read behind it, is interrupted, blocks or fails.
Stops(s, offset) ==
  {Outcome(t, a) : t \in {s, At(s, From(s, offset), offset)}, a \in {Pending, Failed}}

ReadOutcomes(s, offset, most) ==
  LET from == From(s, offset)
  IN {Outcome(At(s, from + n, offset + n), Ready(BytesAt(from, n))) :
        n \in 1..Fewest(most, SourceSize - from)}
     \cup {Outcome(At(s, from, offset), Eof) : x \in IF from >= SourceSize THEN {0} ELSE {}}
     \cup Stops(s, offset)

----------------------------------------------------------------------------
(* gather_by_reads: one read for each byte.  A stop behind the first ends   *)
(* the gather with the bytes it has, unless it is a failure.                *)

\* The g bytes read, the first from where the reader is believed to be.
Picked(s, offset, stride, g) ==
  [i \in 1..g |-> IF i = 1 THEN From(s, offset) ELSE offset + (i - 1) * stride]

\* The source behind g of them: stopped at the seek for the next, or behind it.
Behind(s, offset, stride, g) ==
  LET picked == Picked(s, offset, stride, g)
  IN {At(s, picked[g] + 1, offset + (g - 1) * stride + 1),
      At(s, offset + g * stride, offset + g * stride)}

GatherByReads(s, offset, stride, n) ==
  LET readable(g) == \A i \in 1..g : Picked(s, offset, stride, g)[i] < SourceSize
  IN {o \in ReadOutcomes(s, offset, 1) : o.answer.kind # "Ready"}
     \cup (UNION {{Outcome(t, a) : t \in Behind(s, offset, stride, g),
                                   a \in {Ready(Picked(s, offset, stride, g)), Failed}} :
                    g \in {h \in 1..(n - 1) : readable(h)}})
     \cup {Outcome(At(s, Picked(s, offset, stride, n)[n] + 1, offset + (n - 1) * stride + 1),
                   Ready(Picked(s, offset, stride, n))) :
             x \in IF readable(n) THEN {0} ELSE {}}

----------------------------------------------------------------------------
(* poll_gather *)

Covers(s, offset, last) == offset >= s.windowAt /\ last < s.windowAt + Len(s.window)

\* Faulty variants, named Bad..., are the slips the properties must notice;
\* nothing but the mutation table of PROJECT.json uses them.

BadExtends(s, offset, last) == FALSE

\* Can the window be filled further for it, or is another begun?
Extends(s, offset, last) ==
  /\ offset >= s.windowAt
  /\ offset <= s.windowAt + Len(s.window)
  /\ last - s.windowAt < GatherWindow

BadFilled(s, base, kept, n) ==
  [s EXCEPT !.cursor = base + Len(kept) + n,
            !.window = kept \o BytesAt(base + Len(kept), n), !.windowAt = base]

\* n bytes more behind those kept of it; the position is given up.
Filled(s, base, kept, n) ==
  [cursor |-> base + Len(kept) + n, position |-> Unknown,
   window |-> kept \o BytesAt(base + Len(kept), n), windowAt |-> base]

\* The same when the seek already stops.
Unfilled(s, base, kept) == [s EXCEPT !.position = Unknown, !.window = kept, !.windowAt = base]

Served(s, offset, stride, n) ==
  [i \in 1..n |-> s.window[offset + (i - 1) * stride - s.windowAt + 1]]

\* Filled to its end or the source's, blocked on the way, or failed.
FillOutcomes(s, offset, stride, n) ==
  LET last  == offset + (n - 1) * stride
      keeps == Extends(s, offset, last)
      base  == IF keeps THEN s.windowAt ELSE offset
      kept  == IF keeps THEN s.window ELSE <<>>
      most  == Most(0, Fewest(base + GatherWindow, SourceSize) - base - Len(kept))
      filled(m) == Filled(s, base, kept, m)
      stopped   == {Unfilled(s, base, kept)} \cup {filled(m) : m \in 0..most}
      serves(t) == Outcome(t, Ready(Served(t, offset, stride, n)))
  IN {IF Covers(t, offset, last) THEN serves(t) ELSE Outcome(t, Pending) : t \in stopped}
     \cup {Outcome([t EXCEPT !.window = <<>>], Failed) : t \in stopped}
     \cup (IF Covers(filled(most), offset, last) THEN {serves(filled(most))}
           ELSE GatherByReads(filled(most), offset, stride, n))

GatherOutcomes(s, offset, stride, n) ==
  LET last == offset + (n - 1) * stride
  IN IF last - offset >= GatherWindow THEN GatherByReads(s, offset, stride, n)
     ELSE IF Covers(s, offset, last)
          THEN {Outcome(s, Ready(Served(s, offset, stride, n)))}
          ELSE FillOutcomes(s, offset, stride, n)

----------------------------------------------------------------------------
(* What holds of a source between polls. *)

SourceType ==
  [cursor : Nat, position : Nat \cup {Unknown}, window : Seq(Nat), windowAt : Nat]

\* The reader is where the adapter believes it is, and the window holds the
\* file's bytes from its offset on.
True(s) ==
  /\ s \in SourceType
  /\ s.position \in {Unknown, s.cursor}
  /\ s.window = BytesAt(s.windowAt, Len(s.window))
  /\ Len(s.window) <= GatherWindow

\* The reader has given a byte: the poll answers, or the window has grown.
Moved(s, o) ==
  \/ o.answer.kind \in {"Ready", "Eof"}
  \/ /\ o.answer.kind = "Pending"
     /\ Len(o.source.window) > 0
     /\ \/ o.source.windowAt # s.windowAt
        \/ Len(o.source.window) > Len(s.window)
=============================================================================
