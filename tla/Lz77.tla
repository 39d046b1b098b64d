------------------------------- MODULE Lz77 -------------------------------
(***************************************************************************)
(* streaming/lz77.rs, Lz77Decoder: the R2004-family LZ77 dialect, decoded  *)
(* from any pieces of the compressed bytes into any pieces of output, and  *)
(* its checkpoint (checkpoint.rs, "DWGZ").                                 *)
(*                                                                         *)
(* Three numbers of the format are parameters, so that small streams reach *)
(* what large ones do: a long literal run starts at Lead (0x0f), an        *)
(* extension byte adds Run (0xff), and an offset field spans Far (0x4000)  *)
(* values.  The window is the largest distance plus one, 3 * Far.          *)
(***************************************************************************)
EXTENDS Integers, Sequences

CONSTANTS
  Streams,      \* compressed streams, sequences of bytes
  Limits,       \* declared output ceilings
  Lead, Run, Far,
  Feeds,        \* how many bytes a caller may hand to one `decode`
  Rooms,        \* how much output it may leave room for
  Interrupted,  \* bound: the streams whose decoding is saved and restarted,
  MaxRestarts   \* and how often

Byte   == 0..255
Window == 3 * Far
Modes  == {"Start", "Ext", "Literal", "Opcode", "Offset1", "Offset2", "Op2", "LitLen", "Copy",
           "Done"}
Exts   == {"None", "Literal", "Count", "Long"}

ASSUME FormatAssumption ==
  /\ Streams \subseteq Seq(Byte) /\ Limits \subseteq Nat
  /\ Lead \in Nat \ {0} /\ Run \in Nat \ {0} /\ Far \in Nat \ {0}
  /\ Feeds \subseteq Nat /\ Rooms \subseteq Nat
  /\ MaxRestarts \in Nat

VARIABLES
  stream, limit,
  lz,        \* the decoder's fields
  window,    \* and its window, the last bytes of output
  call,      \* the `decode` under way: what it was given, what it used
  out,       \* all the output so far
  kept,      \* the checkpoint last written
  restarts

vars == <<stream, limit, lz, window, call, out, kept, restarts>>

Least(a, b) == IF a <= b THEN a ELSE b

----------------------------------------------------------------------------
(* The decoder. *)

NewLz ==
  [mode |-> "Start", ext |-> "None", op1 |-> 0, first |-> 0, acc |-> 0, count |-> 0, lit |-> 0,
   distance |-> 0, produced |-> 0, consumed |-> 0, failed |-> FALSE]

NoCall == [given |-> 0, room |-> 0, used |-> 0, filled |-> 0, from |-> "none"]

Failed(z) == [z EXCEPT !.failed = TRUE]

\* A pending literal run or copy must fit what is left of the output.
Fits(z, n) == n <= limit - z.produced

\* `literal`
Literal(z, n) ==
  IF Fits(z, n) THEN [z EXCEPT !.count = n, !.mode = "Literal"] ELSE Failed(z)

BadReaches(z, far) == far <= z.produced + 1

\* A distance points at output that exists.
Reaches(z, far) == far <= z.produced

\* `copy`
CopyFrom(z, far, n) ==
  IF Reaches(z, far) /\ Fits(z, z.count + n)
  THEN [z EXCEPT !.op1 = 0, !.distance = far, !.lit = n, !.mode = "Copy"]
  ELSE Failed(z)

\* The bits of an opcode below 0x40 that hold its count.
CountBits(b) == IF b < 32 THEN b % 8 ELSE b % 32

\* `opcode`
Opcode(z, b) ==
  LET y == [z EXCEPT !.op1 = b]
  IN CASE b < 16         -> Failed(y)
       [] b = 17         -> [y EXCEPT !.op1 = 0, !.mode = "Done"]
       [] b \in {16, 32} -> [y EXCEPT !.ext = "Long", !.mode = "Ext"]
       [] b \in 18..63 \ {32} /\ CountBits(b) = 0 -> [y EXCEPT !.ext = "Count", !.mode = "Ext"]
       [] b \in 18..63 \ {32} /\ CountBits(b) > 0 ->
            [y EXCEPT !.count = CountBits(b) + 2, !.mode = "Offset1"]
       [] b >= 64        -> [y EXCEPT !.count = (b \div 16) - 1, !.mode = "Op2"]

BadLength(z, b) == IF b >= 16 THEN [z EXCEPT !.consumed = @ - 1] ELSE Literal(z, b + 3)

\* A literal length, or the next opcode when its high nibble is set.
Length(z, b) ==
  IF b = 0 THEN [z EXCEPT !.ext = "Literal", !.acc = Lead, !.mode = "Ext"]
  ELSE IF b >= 16 THEN Opcode(z, b)
  ELSE Literal(z, b + 3)

\* A zero byte of an extension: one that outgrows the output is stopped.
Extended(z) == IF z.acc + Run > limit THEN Failed(z) ELSE [z EXCEPT !.acc = @ + Run]

BadLongBase(op) == 9

\* What the long counts of 0x10 and 0x20 start from.
LongBase(op) == IF op = 16 THEN 9 ELSE 33

\* The byte that ends an extension.
ExtensionEnd(z, b) ==
  LET total == z.acc + b
      y     == [z EXCEPT !.ext = "None", !.acc = 0]
  IN CASE z.ext = "Literal" -> Literal(y, total + 3)
       [] z.ext = "Count"   -> [y EXCEPT !.count = total + 9, !.mode = "Offset1"]
       [] z.ext = "Long"    -> [y EXCEPT !.count = total + LongBase(z.op1), !.mode = "Offset1"]

\* The distance of a two-byte offset: bit 3 of 0x12..0x1f reaches further.
Distance(op, field) ==
  CASE op = 16       -> (field % Far) + Far
    [] op \in 18..31 -> (field % Far) + (IF op % 16 >= 8 THEN Far ELSE 0) + Far
    [] OTHER         -> (field % Far) + 1

----------------------------------------------------------------------------
(* `decode`: one action per thing its loop can do next. *)

Init ==
  /\ stream \in Streams /\ limit \in Limits
  /\ lz = NewLz
  /\ window = [at \in 0..(Window - 1) |-> 0]
  /\ call = NoCall
  /\ out = <<>>
  /\ kept = [lz |-> NewLz, bytes |-> <<>>]
  /\ restarts = 0

Left    == Len(stream) - lz.consumed
Calling == call # NoCall

\* The caller hands over the next bytes of the stream, from the first one
\* that was not consumed, and some room; a decoder that has failed or is done
\* takes none.
Call ==
  /\ ~Calling
  /\ ~lz.failed /\ lz.mode # "Done"
  /\ \E feed \in Feeds, room \in Rooms :
       LET given == Least(feed, Left)
       IN /\ given > 0 \/ lz.mode = "Copy"
          /\ call' = [given |-> given, room |-> room, used |-> 0, filled |-> 0, from |-> lz.mode]
  /\ UNCHANGED <<stream, limit, lz, window, out, kept, restarts>>

Reading == Calling /\ call.used < call.given
Writing == Calling /\ call.filled < call.room

\* The decoder after one byte of its input; an error ends the call.
Take(after) ==
  /\ lz' = after
  /\ call' = IF after.failed THEN NoCall ELSE [call EXCEPT !.used = @ + 1]
  /\ UNCHANGED <<stream, limit, window, out, kept, restarts>>

NextByte == stream[lz.consumed + 1]
Taken == [lz EXCEPT !.consumed = @ + 1]

TakeLength == Reading /\ lz.mode \in {"Start", "LitLen"} /\ Take(Length(Taken, NextByte))

TakeZero == Reading /\ lz.mode = "Ext" /\ NextByte = 0 /\ Take(Extended(Taken))

TakeExtension == Reading /\ lz.mode = "Ext" /\ NextByte # 0 /\ Take(ExtensionEnd(Taken, NextByte))

TakeOpcode == Reading /\ lz.mode = "Opcode" /\ Take(Opcode(Taken, NextByte))

TakeOffset1 ==
  Reading /\ lz.mode = "Offset1" /\ Take([Taken EXCEPT !.first = NextByte, !.mode = "Offset2"])

TakeOffset2 ==
  /\ Reading /\ lz.mode = "Offset2"
  /\ Take(CopyFrom([Taken EXCEPT !.first = 0],
                   Distance(lz.op1, (lz.first \div 4) + NextByte * 64), lz.first % 4))

TakeOp2 ==
  /\ Reading /\ lz.mode = "Op2"
  /\ Take(CopyFrom(Taken, ((NextByte * 4 + (lz.op1 % 16) \div 4) % Far) + 1, lz.op1 % 4))

BadPlace(n) == n % (Window - 1)

\* The place of output byte n in the ring.
Place(n) == n % Window

\* `push`
Push(b) ==
  /\ window' = [window EXCEPT ![Place(lz.produced)] = b]
  /\ out' = Append(out, b)

BadCopied(z) == [z EXCEPT !.mode = "Literal", !.distance = 0, !.count = z.lit, !.lit = 0]

\* A copy is followed by its literals, or by a literal length.
Copied(z) ==
  IF z.lit = 0 THEN [z EXCEPT !.mode = "LitLen", !.distance = 0]
  ELSE [z EXCEPT !.mode = "Literal", !.distance = 0, !.count = z.lit, !.lit = 0]

CopyByte ==
  /\ Writing /\ lz.mode = "Copy"
  /\ Push(window[Place(lz.produced - lz.distance)])
  /\ LET z == [lz EXCEPT !.produced = @ + 1, !.count = @ - 1]
     IN lz' = IF z.count = 0 THEN Copied(z) ELSE z
  /\ call' = [call EXCEPT !.filled = @ + 1]
  /\ UNCHANGED <<stream, limit, kept, restarts>>

LiteralByte ==
  /\ Reading /\ Writing /\ lz.mode = "Literal"
  /\ Push(NextByte)
  /\ LET z == [Taken EXCEPT !.produced = @ + 1, !.count = @ - 1]
     IN lz' = IF z.count = 0 THEN [z EXCEPT !.mode = "Opcode"] ELSE z
  /\ call' = [call EXCEPT !.used = @ + 1, !.filled = @ + 1]
  /\ UNCHANGED <<stream, limit, kept, restarts>>

BadPauses == ~Reading \/ ~Writing

\* The loop ends: nothing more can be done with what the call has.
Pauses ==
  CASE lz.mode = "Done"    -> TRUE
    [] lz.mode = "Copy"    -> ~Writing
    [] lz.mode = "Literal" -> ~Reading \/ ~Writing
    [] OTHER               -> ~Reading

Return ==
  /\ Calling /\ Pauses
  /\ call' = NoCall
  /\ UNCHANGED <<stream, limit, lz, window, out, kept, restarts>>

Decode ==
  \/ Call
  \/ TakeLength \/ TakeZero \/ TakeExtension \/ TakeOpcode
  \/ TakeOffset1 \/ TakeOffset2 \/ TakeOp2
  \/ CopyByte \/ LiteralByte
  \/ Return

----------------------------------------------------------------------------
(* Checkpoint and restore. *)

\* The first output byte a checkpoint keeps.
Oldest(produced) == produced - Least(produced, Window)

\* The window as the bytes it holds, oldest first.
Recent ==
  [j \in 1..(lz.produced - Oldest(lz.produced)) |-> window[Place(Oldest(lz.produced) + j - 1)]]

\* A checkpoint is written between calls; a failed decoder has none.
Save ==
  /\ stream \in Interrupted /\ restarts < MaxRestarts
  /\ ~Calling /\ ~lz.failed
  /\ kept' = [lz |-> lz, bytes |-> Recent]
  /\ UNCHANGED <<stream, limit, lz, window, call, out, restarts>>

Restored(k) ==
  LET oldest == Oldest(k.lz.produced)
  IN [at \in 0..(Window - 1) |->
        LET held == {j \in DOMAIN k.bytes : Place(oldest + j - 1) = at}
        IN IF held = {} THEN 0 ELSE k.bytes[CHOOSE j \in held : TRUE]]

Quiet(z) == z.ext = "None" /\ z.acc = 0 /\ z.first = 0

NoOffset(z) == z.lit = 0 /\ z.distance = 0

ExtOk(z) ==
  CASE z.ext = "Literal" -> z.op1 = 0 /\ z.acc >= Lead /\ (z.acc - Lead) % Run = 0
    [] z.ext = "Count"   -> z.op1 = 24 /\ z.acc % Run = 0
    [] z.ext = "Long"    -> z.op1 \in {16, 32} /\ z.acc % Run = 0
    [] OTHER             -> FALSE

\* An extension is under way only while it can still fit.
ExtInLimit(z) == z.acc <= limit

CopyOk(z) ==
  /\ z.count + z.lit <= limit - z.produced
  /\ z.lit <= 3
  /\ z.distance \in 1..(Window - 1) /\ z.distance <= z.produced

\* `consistent`, but for the bound on an extension.
Formed(z) ==
  /\ ~z.failed /\ z.produced <= limit
  /\ z.mode = "Start" <=> z.consumed = 0
  /\ CASE z.mode = "Start" ->
            Quiet(z) /\ z.produced = 0 /\ z.op1 = 0 /\ z.count = 0 /\ NoOffset(z)
       [] z.mode \in {"Opcode", "LitLen", "Done"} ->
            Quiet(z) /\ z.op1 = 0 /\ z.count = 0 /\ NoOffset(z)
       [] z.mode = "Ext" ->
            ExtOk(z) /\ z.first = 0 /\ z.count = 0 /\ NoOffset(z)
       [] z.mode = "Literal" ->
            /\ Quiet(z) /\ z.op1 = 0 /\ NoOffset(z)
            /\ z.count >= 1 /\ z.count <= limit - z.produced
       [] z.mode \in {"Offset1", "Offset2"} ->
            /\ z.op1 \in {16} \cup 18..63
            /\ z.ext = "None" /\ z.acc = 0 /\ (z.mode = "Offset1" => z.first = 0)
            /\ z.count >= 3 /\ z.count <= limit + 512
            /\ NoOffset(z)
       [] z.mode = "Op2" ->
            Quiet(z) /\ z.op1 >= 64 /\ z.count = (z.op1 \div 16) - 1 /\ NoOffset(z)
       [] z.mode = "Copy" ->
            Quiet(z) /\ z.op1 = 0 /\ z.count >= 1 /\ CopyOk(z)

\* `consistent`
Consistent(z) == Formed(z) /\ (z.mode = "Ext" => ExtInLimit(z))

\* A new process restores the checkpoint: what was put out after it is lost.
Restart ==
  /\ stream \in Interrupted /\ restarts < MaxRestarts
  /\ Consistent(kept.lz)
  /\ lz' = kept.lz
  /\ window' = Restored(kept)
  /\ out' = SubSeq(out, 1, kept.lz.produced)
  /\ call' = NoCall
  /\ restarts' = restarts + 1
  /\ UNCHANGED <<stream, limit, kept>>

Next == Decode \/ Save \/ Restart

Spec == Init /\ [][Next]_vars

\* The caller keeps handing over what is left, and `decode` runs to its end.
FairSpec == Spec /\ WF_vars(Decode)

----------------------------------------------------------------------------
(* Properties. *)

LzType ==
  [mode : Modes, ext : Exts, op1 : Byte, first : Byte, acc : Nat, count : Nat, lit : 0..3,
   distance : Nat, produced : Nat, consumed : Nat, failed : BOOLEAN]

CallType == [given : Nat, room : Nat, used : Nat, filled : Nat, from : Modes \cup {"none"}]

\* Types of the decoder, the call under way and the checkpoint.
TypeOK ==
  /\ stream \in Streams /\ limit \in Limits
  /\ lz \in LzType
  /\ window \in [0..(Window - 1) -> Byte]
  /\ call \in CallType
  /\ out \in Seq(Byte)
  /\ kept.lz \in LzType /\ kept.bytes \in Seq(Byte)
  /\ restarts \in 0..MaxRestarts

\* "Restore-time check that a decoded state is one `decode` can reach": each
\* state `decode` stops in, or passes through, is one the check accepts.
Restorable == ~lz.failed => Consistent(lz)

\* "The window keeps the last WINDOW output bytes", before and after a
\* restart: whichever of them a copy reads is the byte that was put out there.
WindowHolds ==
  /\ Len(out) = lz.produced
  /\ \A n \in Oldest(lz.produced)..(lz.produced - 1) : window[Place(n)] = out[n + 1]

Phase(mode) ==
  CASE mode = "Done" -> "done" [] mode = "Copy" -> "copying" [] OTHER -> "reading"

\* What the walkers (LzCalls and LzFails of SectionWalk and R2004Maps) take
\* from a call: it uses no more input and fills no more output than it was
\* given; it stops with input left only inside a literal run, its output
\* full; a pending copy is given out before input is needed; and an error
\* comes only from input.
Bargain ==
  [][/\ Calling /\ call' = NoCall /\ ~lz'.failed /\ restarts' = restarts =>
          /\ Phase(lz.mode) = "copying" => call.filled = call.room
          /\ Phase(lz.mode) = "reading" => call.used = call.given \/ (lz.mode = "Literal" /\ call.filled = call.room)
          /\ Phase(call.from) = "copying" => call.filled > 0 \/ call.room = 0
     /\ Calling => call.used <= call.given /\ call.filled <= call.room
     /\ lz'.failed /\ ~lz.failed => Calling /\ call.given > 0]_vars

\* However the stream is cut, a decoder that keeps being called finishes,
\* fails, or has read all of it and waits for more.
Starved == ~Calling /\ Left = 0 /\ lz.mode \notin {"Copy", "Done"}
Ends    == <>[](lz.failed \/ lz.mode = "Done" \/ Starved)
=============================================================================
