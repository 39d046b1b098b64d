----------------------------- MODULE LzReading -----------------------------
(***************************************************************************)
(* lz77.rs, decompress_with_limits: the decoder that reads a whole stream  *)
(* at once, and the property that holds the resumable one to it.  A number *)
(* read is [ok, at, value].  A result is [status, at, out]: does the loop  *)
(* go on (goes), has it met the terminator (done), is the stream refused   *)
(* (refused; tooLong when a copy's length is the only thing wrong with     *)
(* it); the bytes read; and the output.  Of DecompressLimits,              *)
(* max_output_bytes is the resumable decoder's own ceiling, `limit`.       *)
(***************************************************************************)
EXTENDS Lz77, SequencesExt

CONSTANT MaxBackref  \* DecompressLimits::max_backref_len

ASSUME BackrefAssumption == MaxBackref \in Nat

\* `read`: there may be no byte left.
There(at) == at < Len(stream)
At(at)    == stream[at + 1]

Number(at, value) == [ok |-> TRUE, at |-> at, value |-> value]
Truncated(at)     == [ok |-> FALSE, at |-> at, value |-> 0]

\* A run of zero bytes and the byte that ends it.
Extension(at, total) ==
  LET ends == {j \in at..(Len(stream) - 1) : At(j) # 0}
      last == Min(ends)
  IN IF ends = {} THEN Truncated(Len(stream))
     ELSE Number(last + 1, total + Run * (last - at) + At(last))

Plus(number, n) == [number EXCEPT !.value = @ + n]

\* read_literal_length_or_peek_opcode
LiteralLength(at) ==
  IF ~There(at) THEN Truncated(at)
  ELSE IF At(at) = 0 THEN Plus(Extension(at + 1, Lead), 3)
  ELSE IF At(at) >= 16 THEN Number(at, 0)
  ELSE Number(at + 1, At(at) + 3)

\* read_compressed_bytes_extended
CopyLength(op, at, bits) ==
  IF CountBits(op) = 0 THEN Plus(Extension(at, 0), bits + 2)
  ELSE Number(at, CountBits(op) + 2)

\* The bytes a copy's length takes, by opcode.
LengthOf(op, at) ==
  CASE op = 16       -> Plus(Extension(at, 0), 9)
    [] op = 32       -> Plus(Extension(at, 0), 33)
    [] op \in 18..31 -> CopyLength(op, at, 7)
    [] op \in 33..63 -> CopyLength(op, at, 31)
    [] OTHER         -> Number(at, (op \div 16) - 1)

\* read_two_byte_offset, or the second byte of a short opcode.
Offset(op, at) ==
  IF op >= 64
  THEN [ok |-> There(at), at |-> at + 1, lit |-> op % 4,
        far |-> IF There(at) THEN ((At(at) * 4 + (op % 16) \div 4) % Far) + 1 ELSE 0]
  ELSE [ok |-> There(at + 1), at |-> at + 2,
        lit |-> IF There(at) THEN At(at) % 4 ELSE 0,
        far |-> IF ~There(at + 1) THEN 0
                ELSE LET field == ((At(at) \div 4) + At(at + 1) * 64) % Far
                     IN IF op < 32 THEN field + Far + (IF op \in 24..31 THEN Far ELSE 0)
                        ELSE field + 1]

Result(status, at, done) == [status |-> status, at |-> at, out |-> done]
Refused(at, done) == Result("refused", at, done)

\* copy_literal: as many as there are.
Literals(at, n, done) ==
  LET here == Least(n, Len(stream) - at)
  IN IF Len(done) + n > limit THEN Refused(at, done)
     ELSE Result(IF here = n THEN "goes" ELSE "refused", at + here,
                 done \o SubSeq(stream, at + 1, at + here))

\* A copy may read what it has just written: the last `far` bytes recur.
CopyBytes(done, far, n) ==
  done \o [i \in 1..n |-> done[(Len(done) - far) + 1 + ((i - 1) % far)]]

\* The loop's body, for an opcode with its copy and its literals.
Copying(r, op, longest) ==
  LET length == LengthOf(op, r.at + 1)
      offset == Offset(op, length.at)
      lits   == IF offset.lit > 0 THEN Number(offset.at, offset.lit) ELSE LiteralLength(offset.at)
  IN IF \/ ~length.ok \/ ~offset.ok \/ ~lits.ok
        \/ Len(r.out) + length.value > limit
        \/ offset.far > Len(r.out)
     THEN Refused(r.at, r.out)
     ELSE IF length.value > longest THEN Result("tooLong", r.at, r.out)
     ELSE Literals(lits.at, lits.value, CopyBytes(r.out, offset.far, length.value))

OneOpcode(r, longest) ==
  IF r.status # "goes" THEN r
  ELSE IF ~There(r.at) \/ At(r.at) < 16 THEN Refused(r.at, r.out)
  ELSE IF At(r.at) = 17 THEN Result("done", r.at + 1, r.out)
  ELSE Copying(r, At(r.at), longest)

\* The literals a stream begins with.
Begun ==
  LET lits == LiteralLength(0)
  IN IF lits.ok THEN Literals(lits.at, lits.value, <<>>) ELSE Refused(0, <<>>)

\* After so many opcodes; each takes a byte at least.
After(longest) ==
  LET after[n \in Nat] == IF n = 0 THEN Begun ELSE OneOpcode(after[n - 1], longest)
  IN after

Decompressed == After(MaxBackref)[Len(stream) + 1]

\* "Opcode semantics are the crate's own `lz77::decompress`": in whatever
\* pieces a stream is decoded, and however often that is interrupted, the
\* decoder gives the bytes `decompress` gives, to the same place in the input,
\* refuses what `decompress` refuses, and of a refused stream gives the same
\* bytes as far as both go.  One refusal is `decompress`'s alone: the copy of
\* more than max_backref_len bytes, which this decoder has no check for and
\* takes as long as it fits the output.
Agrees ==
  LET whole == Decompressed
  IN /\ whole.status = "done" => ~lz.failed /\ ~Starved /\ IsPrefix(out, whole.out)
     /\ IsPrefix(out, whole.out) \/ IsPrefix(whole.out, out)
     /\ lz.mode = "Done" =>
          \/ whole.status = "done" /\ out = whole.out /\ lz.consumed = whole.at
          \/ whole.status = "tooLong" /\ MaxBackref < limit /\ IsPrefix(whole.out, out)
=============================================================================
