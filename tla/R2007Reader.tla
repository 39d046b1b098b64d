---------------------------- MODULE R2007Reader ----------------------------
(***************************************************************************)
(* streaming/r2007.rs, Reader: one page of an R2007 file read codeword by  *)
(* codeword, its stored bytes decoded and checked, and again for its       *)
(* bytes.                                                                  *)
(*                                                                         *)
(* A page p is a record (Geom, and what the file holds there):             *)
(*   base, blocks   where it starts; its codewords, 0 for a bare page      *)
(*   stored, plain  bytes it stores, and the bytes they decode to          *)
(*   lz             is the stream compressed                               *)
(*   stream         if so, the order in which the decoder takes a byte     *)
(*                  ("in") and gives one ("out"); "bad" is one it refuses  *)
(*   spoilt         codewords whose parity does not hold                   *)
(*   crc, sum       do the checks over stored and plain bytes hold         *)
(* Byte i of codeword j of n is at base + n * i + j.                       *)
(*                                                                         *)
(* A stored byte is known by its offset in the file, a plain byte by its   *)
(* index in the page, or Garbage when it comes of wrong stored bytes.  The *)
(* decoder (R2007Lz) is its place `at` in the stream, and whether it was   *)
(* given the right bytes; so are the two sums, each how many bytes are     *)
(* folded in and whether they are the right ones.                          *)
(***************************************************************************)
EXTENDS Integers, Sequences, FiniteSetsExt

CONSTANTS
  CodeWord,    \* CODEWORD, bytes of a codeword
  Message,     \* Code::message(), the stored bytes among them
  ChunkBytes   \* STAGE

ASSUME ReaderAssumption ==
  CodeWord \in Nat \ {0} /\ Message \in 1..CodeWord /\ ChunkBytes \in Nat \ {0}

PageType ==
  [id : Int, base : Nat, entrySize : Nat, blocks : Nat, stored : Nat, plain : Nat, lz : BOOLEAN,
   stream : Seq({"in", "out", "bad"}), spoilt : SUBSET Nat, crc : BOOLEAN, sum : BOOLEAN,
   dataOffset : Nat]

Garbage == -1

Lesser(a, b)  == IF a <= b THEN a ELSE b
Greater(a, b) == IF a <= b THEN b ELSE a

Coded(p) == p.blocks > 0

\* Where stored byte k of the page is, k from 0.
StoredAt(p, k) ==
  IF Coded(p) THEN p.base + (k % Message) * p.blocks + k \div Message ELSE p.base + k

\* Are these the stored bytes from k on?
AreStored(p, k, bytes) ==
  k + Len(bytes) <= p.stored /\ \A i \in 1..Len(bytes) : bytes[i] = StoredAt(p, k + i - 1)

Sum == [n |-> 0, right |-> TRUE]

Folded(sum, n, right) == [n |-> sum.n + n, right |-> sum.right /\ right]

\* `restart`
Started(pass) ==
  [pass |-> pass, cw |-> 0, src |-> 0, buf |-> <<>>, have |-> 0, msg |-> 0, take |-> 0, fed |-> 0,
   produced |-> 0, lz |-> [at |-> 0, right |-> TRUE], crc |-> Sum, sum |-> Sum]

----------------------------------------------------------------------------
(* What the reader needs: `status` and `fill`. *)

\* has_pending_output
HasOutput(p, r) == r.lz.at < Len(p.stream) /\ p.stream[r.lz.at + 1] = "out"

Decoded(p, r) == r.produced = p.plain

Working(p, r) == ~Decoded(p, r) /\ (r.take < r.msg \/ (p.lz /\ HasOutput(p, r)))

\* Has the pass source bytes still to read?
Further(p, r) ==
  IF ~Coded(p) THEN r.src < p.stored
  ELSE IF r.pass = "Verify" THEN r.cw < p.blocks ELSE r.fed < p.stored

Status(p, r) ==
  IF Decoded(p, r) /\ r.pass # "Verify" THEN "Finished"
  ELSE IF Working(p, r) THEN "Work"
  ELSE IF ~Decoded(p, r) /\ p.lz /\ r.fed = p.stored /\ r.take >= r.msg THEN "Truncated"
  ELSE IF Further(p, r) THEN "Need"
  ELSE IF Decoded(p, r) THEN "Finished" ELSE "Truncated"

FillTotal(p, r) == IF Coded(p) THEN CodeWord ELSE Lesser(p.stored - r.src, ChunkBytes)

Want(p, r) ==
  IF Coded(p)
  THEN [offset |-> p.base + r.have * p.blocks + r.cw, stride |-> p.blocks, len |-> CodeWord - r.have]
  ELSE [offset |-> p.base + r.src + r.have, stride |-> 1, len |-> FillTotal(p, r) - r.have]

----------------------------------------------------------------------------
(* `feed` and `complete` *)

\* The buffer holds the last message until the next fill writes over it.
Taken(r, bytes) ==
  [r EXCEPT
     !.have = r.have + Len(bytes),
     !.buf  = [i \in 1..Greater(Len(r.buf), r.have + Len(bytes)) |->
                 IF i \in (r.have + 1)..(r.have + Len(bytes)) THEN bytes[i - r.have]
                 ELSE r.buf[i]]]

\* codeword_intact
Intact(p, r) ==
  /\ r.cw \notin p.spoilt
  /\ \A i \in 1..CodeWord : r.buf[i] = p.base + (i - 1) * p.blocks + r.cw

\* Stored bytes of the codeword; the repeated copies of a system page carry
\* none.
Carried(p, r) == Lesser(Greater(0, p.stored - r.cw * Message), Message)

Completed(p, r) ==
  LET m == IF Coded(p) THEN Carried(p, r) ELSE r.have
  IN [r EXCEPT
        !.cw = IF Coded(p) THEN @ + 1 ELSE @, !.src = IF Coded(p) THEN @ ELSE @ + r.have,
        !.have = 0, !.msg = m, !.take = 0, !.fed = @ + m,
        !.crc = IF r.pass = "Verify" THEN Folded(@, m, AreStored(p, r.fed, SubSeq(r.buf, 1, m)))
                ELSE @]

\* Faulty variants, named Bad..., are the slips the properties must notice;
\* nothing but the mutation table of PROJECT.json uses them.

BadRefused(p, r) == FALSE

\* The emitting pass reads again what the verifying pass checked.
Refused(p, r) == Coded(p) /\ r.pass # "Emit" /\ ~Intact(p, r)

----------------------------------------------------------------------------
(* `pump`, and R2007Lz::decode, from the stored bytes in hand. *)

\* How many of a kind the decoder does between two places of the stream.
Between(p, kind, from, to) == Cardinality({i \in (from + 1)..to : p.stream[i] = kind})

\* It goes on until the input is used up, the room is full or the stream
\* ends: whichever it needs next is not there.
Reaches(p, r, room) ==
  Max({to \in r.lz.at..Len(p.stream) :
         /\ Between(p, "in", r.lz.at, to) <= r.msg - r.take
         /\ Between(p, "out", r.lz.at, to) <= room
         /\ Between(p, "bad", r.lz.at, to) = 0})

\* It is given the byte it refuses.
DecodeFails(p, r, room) ==
  LET to == Reaches(p, r, room)
  IN /\ p.lz
     /\ to < Len(p.stream)
     /\ p.stream[to + 1] = "bad"
     /\ Between(p, "in", r.lz.at, to) < r.msg - r.take

\* The reader after a pump, and the plain bytes it decoded.
Pumped(p, r, most) ==
  LET room   == Lesser(most, ChunkBytes)
      to     == Reaches(p, r, room)
      copied == Lesser(room, Lesser(r.msg - r.take, p.plain - r.produced))
      used   == IF p.lz THEN Between(p, "in", r.lz.at, to) ELSE copied
      gives  == IF p.lz THEN Between(p, "out", r.lz.at, to) ELSE copied
      behind == IF p.lz THEN Between(p, "in", 0, r.lz.at) ELSE r.produced
      right  == /\ r.lz.right
                /\ AreStored(p, behind, SubSeq(r.buf, r.take + 1, r.take + used))
      bytes  == [i \in 1..gives |-> IF right THEN r.produced + i - 1 ELSE Garbage]
      ended  == r.produced + gives = p.plain
  IN [reader |->
        [r EXCEPT !.produced = @ + gives,
                  !.take = IF ended THEN r.msg ELSE @ + used,
                  !.lz = [at |-> IF p.lz THEN to ELSE 0, right |-> right],
                  !.sum = IF r.pass = "Verify" THEN Folded(@, gives, right) ELSE @],
      bytes |-> bytes]

\* `verdict`: the checks that need the whole page.
Verdict(p, r) == p.crc /\ r.crc.right /\ p.sum /\ r.sum.right

----------------------------------------------------------------------------
(* `progress_ok`, and what a checkpoint keeps of a reader. *)

\* The buffer is saved as far as it is in use.
Kept(r) == [r EXCEPT !.buf = SubSeq(r.buf, 1, Greater(r.have, r.msg))]

FillOk(p, r) ==
  IF Coded(p)
  THEN /\ r.cw <= p.blocks
       /\ r.src = 0
       /\ r.have < CodeWord
       /\ r.take <= r.msg
       /\ r.fed = Lesser(p.stored, r.cw * Message)
       /\ r.msg = IF r.cw = 0 THEN 0
                  ELSE Lesser(Greater(0, p.stored - (r.cw - 1) * Message), Message)
  ELSE /\ r.cw = 0
       /\ r.have <= p.stored - r.src
       /\ r.have < ChunkBytes
       /\ r.take <= r.msg
       /\ r.msg <= ChunkBytes
       /\ r.fed = r.src
       /\ r.msg <= r.src

SumsOk(r) ==
  IF r.pass = "Verify" THEN r.crc.n = r.fed /\ r.sum.n = r.produced
  ELSE r.crc = Sum /\ r.sum = Sum

\* The decoder has given what the reader counts.
LzOk(p, r) == IF p.lz THEN Between(p, "out", 0, r.lz.at) = r.produced ELSE r.lz.at = 0

ProgressOk(p, r) ==
  /\ r.produced <= p.plain
  /\ r.fed <= p.stored
  /\ r.have = 0 \/ r.take = r.msg
  /\ r.produced < p.plain \/ r.take = r.msg
  /\ LzOk(p, r)
  /\ FillOk(p, r)
  /\ SumsOk(r)
=============================================================================
