---------------------------- MODULE Lz77Proofs ----------------------------
(***************************************************************************)
(* Proofs about Lz77 for every stream, limit and way of calling it, and    *)
(* for every size of the format's fields; and that the resumable decoder   *)
(* agrees with `decompress` (LzReading).                                   *)
(***************************************************************************)
EXTENDS LzReading, WellFoundedInduction, TLAPS

(* Arithmetic. *)

LEMMA Sizes ==
  /\ Lead \in Nat \ {0} /\ Run \in Nat \ {0} /\ Far \in Nat \ {0}
  /\ Window \in Nat \ {0} /\ Window = 3 * Far
  /\ MaxRestarts \in Nat
BY FormatAssumption DEF Window

LEMMA LeastFacts ==
  ASSUME NEW a \in Nat, NEW b \in Nat
  PROVE  /\ Least(a, b) \in Nat
         /\ Least(a, b) <= a /\ Least(a, b) <= b
         /\ Least(a, b) \in {a, b}
BY DEF Least

LEMMA Remainder ==
  ASSUME NEW a \in Nat, NEW m \in Nat \ {0}
  PROVE  /\ a % m \in 0..(m - 1)
         /\ a \div m \in Nat
         /\ a = m * (a \div m) + (a % m)
<1>1. a % m \in 0..(m - 1)
  OBVIOUS
<1>2. a = m * (a \div m) + (a % m)
  OBVIOUS
<1>3. a \div m \in Nat
  <2>1. SUFFICES ASSUME NEW q \in Int, NEW r \in 0..(m - 1), a = m * q + r, q <= -1
                 PROVE  FALSE
    BY <1>1, <1>2
  <2>2. m * q <= m * (-1)
    BY <2>1
  <2>3. QED
    BY <2>1, <2>2
<1>4. QED
  BY <1>1, <1>2, <1>3

\* Adding a divisor leaves the remainder.
LEMMA RemainderPlus ==
  ASSUME NEW a \in Nat, NEW m \in Nat \ {0}
  PROVE  (a + m) % m = a % m
<1> DEFINE p == a \div m
           q == (a + m) \div m
           r == a % m
           s == (a + m) % m
<1>1. p \in Nat /\ r \in 0..(m - 1) /\ a = m * p + r
  BY Remainder
<1>2. q \in Nat /\ s \in 0..(m - 1) /\ a + m = m * q + s
  <2>1. a + m \in Nat
    OBVIOUS
  <2>2. QED
    BY <2>1, Remainder
<1> HIDE DEF p, q, r, s
<1>3. m * (p + 1) = m * p + m
  BY <1>1
<1>4. q <= p + 1
  <2>1. SUFFICES ASSUME q >= p + 2 PROVE FALSE
    BY <1>1, <1>2
  <2>2. m * q >= m * (p + 2)
    BY <1>1, <1>2, <2>1
  <2>3. m * (p + 2) = m * p + m + m
    BY <1>1
  <2>4. QED
    BY <1>1, <1>2, <2>2, <2>3
<1>5. q >= p + 1
  <2>1. SUFFICES ASSUME q <= p PROVE FALSE
    BY <1>1, <1>2
  <2>2. m * q <= m * p
    BY <1>1, <1>2, <2>1
  <2>3. QED
    BY <1>1, <1>2, <2>2
<1>6. q = p + 1
  BY <1>1, <1>2, <1>4, <1>5
<1>7. s = r
  BY <1>1, <1>2, <1>3, <1>6
<1>8. QED
  BY <1>7 DEF r, s

LEMMA PlaceType == \A n \in Nat : Place(n) \in 0..(Window - 1)
BY Sizes, Remainder DEF Place

\* Bytes less than a window apart have places of their own.
LEMMA PlacesApart ==
  ASSUME NEW a \in Nat, NEW b \in Nat, a < b, b - a < Window
  PROVE  Place(a) # Place(b)
<1> DEFINE p == a \div Window
           q == b \div Window
           r == a % Window
           s == b % Window
<1>1. p \in Nat /\ r \in 0..(Window - 1) /\ a = Window * p + r
  BY Sizes, Remainder
<1>2. q \in Nat /\ s \in 0..(Window - 1) /\ b = Window * q + s
  BY Sizes, Remainder
<1> HIDE DEF p, q, r, s
<1>3. SUFFICES ASSUME r = s PROVE FALSE
  BY DEF Place, r, s
<1>4. Window \in Nat \ {0}
  BY Sizes
<1>5. CASE q <= p
  <2>1. Window * q <= Window * p
    BY <1>1, <1>2, <1>4, <1>5
  <2>2. QED
    BY <1>1, <1>2, <1>3, <1>4, <2>1
<1>6. CASE q >= p + 1
  <2>1. Window * q >= Window * (p + 1)
    BY <1>1, <1>2, <1>4, <1>6
  <2>2. Window * (p + 1) = Window * p + Window
    BY <1>1, <1>4
  <2>3. QED
    BY <1>1, <1>2, <1>3, <1>4, <2>1, <2>2
<1>7. QED
  BY <1>1, <1>2, <1>5, <1>6

LEMMA OldestFacts ==
  ASSUME NEW n \in Nat
  PROVE  /\ Oldest(n) \in Nat
         /\ Oldest(n) <= n /\ n - Oldest(n) <= Window
         /\ Oldest(n) = IF n <= Window THEN 0 ELSE n - Window
BY Sizes DEF Oldest, Least

----------------------------------------------------------------------------
(* The invariant. *)

\* An extension outgrows the limit only with its first byte.
Bound(z) == z.mode = "Ext" => z.acc <= limit \/ (z.ext = "Literal" /\ z.acc = Lead)

Reached(z) == Formed(z) /\ Bound(z)

\* The call under way is within the stream.
InStream ==
  /\ lz.consumed <= Len(stream) /\ kept.lz.consumed <= Len(stream)
  /\ Calling =>
       /\ ~lz.failed
       /\ call.used <= call.given /\ call.filled <= call.room
       /\ lz.consumed + (call.given - call.used) <= Len(stream)

\* The checkpoint holds the end of what was put out before it.
KeptHolds ==
  /\ kept.lz.produced <= Len(out)
  /\ Len(kept.bytes) = kept.lz.produced - Oldest(kept.lz.produced)
  /\ \A j \in 1..Len(kept.bytes) : kept.bytes[j] = out[Oldest(kept.lz.produced) + j]

LzInv ==
  /\ TypeOK
  /\ ~lz.failed => Reached(lz)
  /\ Reached(kept.lz)
  /\ InStream
  /\ WindowHolds
  /\ KeptHolds

LEMMA Names ==
  /\ "Start" \in Modes /\ "Ext" \in Modes /\ "Literal" \in Modes /\ "Opcode" \in Modes
  /\ "Offset1" \in Modes /\ "Offset2" \in Modes /\ "Op2" \in Modes /\ "LitLen" \in Modes
  /\ "Copy" \in Modes /\ "Done" \in Modes
  /\ "None" \in Exts /\ "Literal" \in Exts /\ "Count" \in Exts /\ "Long" \in Exts
  /\ TRUE \in BOOLEAN /\ FALSE \in BOOLEAN
BY DEF Modes, Exts

LEMMA Bytes == 0 \in Byte /\ \A b \in Byte : b \in Nat /\ b < 256
BY DEF Byte

\* A decoder between two opcodes: nothing of the last one is left.
Blank(z) ==
  /\ ~z.failed /\ z.produced <= limit /\ z.consumed > 0
  /\ Quiet(z) /\ z.count = 0 /\ NoOffset(z)

\* What a byte of the stream may do to the decoder.
Sound(z, y) ==
  /\ y \in LzType
  /\ ~y.failed => Reached(y)
  /\ y.produced = z.produced /\ y.consumed = z.consumed

LEMMA FailedSound == ASSUME NEW z \in LzType PROVE Sound(z, Failed(z))
<1>1. Failed(z) \in LzType
  BY Names DEF Failed, LzType
<1>2. Failed(z).failed /\ Failed(z).produced = z.produced /\ Failed(z).consumed = z.consumed
  BY DEF Failed, LzType
<1>3. QED
  BY <1>1, <1>2 DEF Sound

\* A decoder whose parts are those of a state it can reach.
LEMMA Moved ==
  ASSUME NEW z, NEW y \in LzType, Reached(y),
         y.produced = z.produced, y.consumed = z.consumed
  PROVE  Sound(z, y)
BY DEF Sound

LEMMA LiteralSound ==
  ASSUME limit \in Nat, NEW z \in LzType, Blank(z), z.op1 = 0, NEW n \in Nat, n > 0
  PROVE  Sound(z, Literal(z, n))
<1>1. CASE Fits(z, n)
  <2> DEFINE y == [z EXCEPT !.count = n, !.mode = "Literal"]
  <2>1. Literal(z, n) = y
    BY <1>1 DEF Literal
  <2>2. y \in LzType
    BY Names DEF LzType
  <2>3. Reached(y)
    BY <1>1 DEF LzType, Blank, Quiet, NoOffset, Fits, Reached, Formed, Bound
  <2>4. y.produced = z.produced /\ y.consumed = z.consumed
    BY DEF LzType
  <2>5. QED
    BY <2>1, <2>2, <2>3, <2>4, Moved
<1>2. CASE ~Fits(z, n)
  BY <1>2, FailedSound DEF Literal
<1>3. QED
  BY <1>1, <1>2

LEMMA OpcodeSound ==
  ASSUME limit \in Nat, NEW z \in LzType, Blank(z), NEW b \in Byte
  PROVE  Sound(z, Opcode(z, b))
<1> DEFINE y == [z EXCEPT !.op1 = b]
<1>1. y \in LzType /\ y.produced = z.produced /\ y.consumed = z.consumed /\ y.op1 = b
  <2>1. y \in LzType
    BY DEF LzType
  <2>2. QED
    BY <2>1 DEF LzType
<1>2. Blank(y) /\ b \in 0..255
  BY DEF LzType, Blank, Quiet, NoOffset, Byte
<1>3. 0 % Run = 0 /\ 0 \in Byte
  BY Sizes, Bytes
<1>4. ASSUME NEW x \in LzType, Reached(x), Opcode(z, b) = x,
             x.produced = y.produced, x.consumed = y.consumed
      PROVE  Sound(z, Opcode(z, b))
  BY <1>1, <1>4, Moved
<1> HIDE DEF y
<1>5. CASE b < 16
  <2>1. Opcode(z, b) = Failed(y)
    BY <1>2, <1>5 DEF Opcode, y
  <2>2. Sound(y, Failed(y))
    BY <1>1, FailedSound
  <2>3. QED
    BY <1>1, <2>1, <2>2 DEF Sound
<1>6. CASE b = 17
  <2> DEFINE x == [y EXCEPT !.op1 = 0, !.mode = "Done"]
  <2>1. Opcode(z, b) = x
    BY <1>6 DEF Opcode, y
  <2>2. x \in LzType
    BY <1>1, <1>3, Names DEF LzType
  <2>3. x.produced = y.produced /\ x.consumed = y.consumed
    BY <1>1 DEF LzType
  <2>4. Reached(x)
    BY <1>1, <1>2 DEF LzType, Blank, Quiet, NoOffset, Reached, Formed, Bound
  <2>5. QED
    BY <1>4, <2>1, <2>2, <2>3, <2>4
<1>7. CASE b \in {16, 32}
  <2> DEFINE x == [y EXCEPT !.ext = "Long", !.mode = "Ext"]
  <2>1. Opcode(z, b) = x
    BY <1>7 DEF Opcode, y
  <2>2. x \in LzType
    BY <1>1, Names DEF LzType
  <2>3. x.produced = y.produced /\ x.consumed = y.consumed
    BY <1>1 DEF LzType
  <2>4. Reached(x)
    BY <1>1, <1>2, <1>3, <1>7 DEF LzType, Blank, Quiet, NoOffset, Reached, Formed, Bound, ExtOk
  <2>5. QED
    BY <1>4, <2>1, <2>2, <2>3, <2>4
<1>8. CASE b \in 18..63 \ {32} /\ CountBits(b) = 0
  <2> DEFINE x == [y EXCEPT !.ext = "Count", !.mode = "Ext"]
  <2>1. Opcode(z, b) = x
    BY <1>8 DEF Opcode, y
  <2>2. x \in LzType
    BY <1>1, Names DEF LzType
  <2>3. x.produced = y.produced /\ x.consumed = y.consumed
    BY <1>1 DEF LzType
  <2>4. b = 24
    BY <1>8 DEF CountBits
  <2>5. Reached(x)
    BY <1>1, <1>2, <1>3, <2>4 DEF LzType, Blank, Quiet, NoOffset, Reached, Formed, Bound, ExtOk
  <2>6. QED
    BY <1>4, <2>1, <2>2, <2>3, <2>5
<1>9. CASE b \in 18..63 \ {32} /\ CountBits(b) > 0
  <2> DEFINE x == [y EXCEPT !.count = CountBits(b) + 2, !.mode = "Offset1"]
  <2>1. Opcode(z, b) = x
    BY <1>9 DEF Opcode, y
  <2>2. CountBits(b) + 2 \in Nat /\ CountBits(b) \in 1..31
    BY <1>9 DEF CountBits
  <2>3. x \in LzType
    BY <1>1, <2>2, Names DEF LzType
  <2>4. x.produced = y.produced /\ x.consumed = y.consumed
    BY <1>1 DEF LzType
  <2>5. Reached(x)
    BY <1>1, <1>2, <1>9, <2>2 DEF LzType, Blank, Quiet, NoOffset, Reached, Formed, Bound
  <2>6. QED
    BY <1>4, <2>1, <2>3, <2>4, <2>5
<1>10. CASE b >= 64
  <2> DEFINE x == [y EXCEPT !.count = (b \div 16) - 1, !.mode = "Op2"]
  <2>1. Opcode(z, b) = x
    BY <1>10 DEF Opcode, y
  <2>2. (b \div 16) - 1 \in Nat
    BY <1>2, <1>10
  <2>3. x \in LzType
    BY <1>1, <2>2, Names DEF LzType
  <2>4. x.produced = y.produced /\ x.consumed = y.consumed
    BY <1>1 DEF LzType
  <2>5. Reached(x)
    BY <1>1, <1>2, <1>10 DEF LzType, Blank, Quiet, NoOffset, Reached, Formed, Bound
  <2>6. QED
    BY <1>4, <2>1, <2>3, <2>4, <2>5
<1>11. CountBits(b) \in Nat
  BY <1>2 DEF CountBits
<1>12. QED
  BY <1>2, <1>5, <1>6, <1>7, <1>8, <1>9, <1>10, <1>11

LEMMA LengthSound ==
  ASSUME limit \in Nat, NEW z \in LzType, Blank(z), z.op1 = 0, NEW b \in Byte
  PROVE  Sound(z, Length(z, b))
<1>1. CASE b = 0
  <2> DEFINE x == [z EXCEPT !.ext = "Literal", !.acc = Lead, !.mode = "Ext"]
  <2>1. Length(z, b) = x
    BY <1>1 DEF Length
  <2>2. (Lead - Lead) % Run = 0 /\ Lead \in Nat
    BY Sizes
  <2>3. x \in LzType
    BY <2>2, Names DEF LzType
  <2>4. x.produced = z.produced /\ x.consumed = z.consumed
    BY DEF LzType
  <2>5. Reached(x)
    BY <2>2 DEF LzType, Blank, Quiet, NoOffset, Reached, Formed, Bound, ExtOk
  <2>6. QED
    BY <2>1, <2>3, <2>4, <2>5, Moved
<1>2. CASE b >= 16
  BY <1>2, OpcodeSound DEF Length
<1>3. CASE b > 0 /\ b < 16
  <2>1. b + 3 \in Nat /\ b + 3 > 0 /\ Length(z, b) = Literal(z, b + 3)
    BY <1>3, Bytes DEF Length
  <2>2. QED
    BY <2>1, LiteralSound
<1>4. QED
  BY <1>1, <1>2, <1>3, Bytes

\* A decoder in an extension, its next byte counted.
Extending(z) == z.mode = "Ext" /\ z.consumed > 0 /\ ~z.failed /\ Reached(z)

LEMMA ExtendedSound ==
  ASSUME limit \in Nat, NEW z \in LzType, Extending(z)
  PROVE  Sound(z, Extended(z))
<1>1. CASE z.acc + Run > limit
  BY <1>1, FailedSound DEF Extended
<1>2. CASE ~(z.acc + Run > limit)
  <2> DEFINE y == [z EXCEPT !.acc = @ + Run]
  <2>1. Extended(z) = y
    BY <1>2 DEF Extended
  <2>2. z.acc \in Nat /\ Run \in Nat \ {0} /\ Lead \in Nat
    BY Sizes DEF LzType
  <2>3. /\ y \in LzType /\ y.acc = z.acc + Run /\ y.acc <= limit
        /\ y.produced = z.produced /\ y.consumed = z.consumed
    <3>1. z.acc + Run \in Nat
      BY <2>2
    <3>2. y \in LzType
      BY <3>1 DEF LzType
    <3>3. QED
      BY <1>2, <2>2, <3>2 DEF LzType
  <2>4. ExtOk(z)
    BY DEF Extending, Reached, Formed
  <2>5. ExtOk(y)
    <3>1. (z.acc + Run) % Run = z.acc % Run
      BY <2>2, RemainderPlus
    <3>2. CASE z.ext = "Literal"
      <4>1. z.acc - Lead \in Nat
        BY <2>2, <2>4, <3>2 DEF ExtOk
      <4>2. ((z.acc - Lead) + Run) % Run = (z.acc - Lead) % Run
        BY <2>2, <4>1, RemainderPlus
      <4>3. (z.acc + Run) - Lead = (z.acc - Lead) + Run
        BY <2>2
      <4>4. y.op1 = z.op1 /\ y.ext = "Literal"
        BY <3>2 DEF LzType
      <4>5. QED
        BY <2>2, <2>3, <2>4, <3>2, <4>1, <4>2, <4>3, <4>4 DEF ExtOk
    <3>3. CASE z.ext # "Literal"
      <4>1. y.op1 = z.op1 /\ y.ext = z.ext
        BY DEF LzType
      <4>2. QED
        BY <2>3, <2>4, <3>1, <3>3, <4>1 DEF ExtOk
    <3>4. QED
      BY <3>2, <3>3
  <2>6. Reached(y)
    BY <2>3, <2>5 DEF LzType, Extending, Reached, Formed, Bound, NoOffset
  <2>7. QED
    BY <2>1, <2>3, <2>6, Moved
<1>3. QED
  BY <1>1, <1>2

LEMMA ExtensionEndSound ==
  ASSUME limit \in Nat, NEW z \in LzType, Extending(z), NEW b \in Byte, b # 0
  PROVE  Sound(z, ExtensionEnd(z, b))
<1> DEFINE y == [z EXCEPT !.ext = "None", !.acc = 0]
<1>1. y \in LzType /\ z.acc \in Nat /\ b \in 1..255
  <2>1. y \in LzType
    BY Names DEF LzType
  <2>2. QED
    BY <2>1, Bytes DEF LzType
<1>2. Blank(y) /\ y.produced = z.produced /\ y.consumed = z.consumed /\ y.op1 = z.op1
  BY DEF LzType, Extending, Reached, Formed, Blank, Quiet, NoOffset
<1>3. ExtOk(z) /\ (z.ext # "Literal" => z.acc <= limit)
  BY DEF Extending, Reached, Formed, Bound
<1> HIDE DEF y
<1>4. CASE z.ext = "Literal"
  <2>1. ExtensionEnd(z, b) = Literal(y, z.acc + b + 3)
    BY <1>4 DEF ExtensionEnd, y
  <2>2. z.acc + b + 3 \in Nat /\ z.acc + b + 3 > 0
    BY <1>1
  <2>3. y.op1 = 0
    BY <1>2, <1>3, <1>4 DEF ExtOk
  <2>4. Sound(y, Literal(y, z.acc + b + 3))
    BY <1>1, <1>2, <2>2, <2>3, LiteralSound
  <2>5. QED
    BY <1>2, <2>1, <2>4 DEF Sound
<1>5. ASSUME NEW n \in 1..33, z.acc <= limit, z.op1 \in {16, 24, 32},
             ExtensionEnd(z, b) = [y EXCEPT !.count = z.acc + b + n, !.mode = "Offset1"],
             n > 2
      PROVE  Sound(z, ExtensionEnd(z, b))
  <2> DEFINE x == [y EXCEPT !.count = z.acc + b + n, !.mode = "Offset1"]
  <2>1. z.acc + b + n \in Nat /\ z.acc + b + n >= 3 /\ z.acc + b + n <= limit + 512
    <3>1. limit \in Nat /\ z.acc \in Nat /\ z.acc <= limit /\ b \in 1..255 /\ n \in 3..33
      BY <1>1, <1>5
    <3>2. QED
      BY <3>1
  <2>2. x \in LzType
    BY <1>1, <2>1, Names DEF LzType
  <2>3. x.produced = z.produced /\ x.consumed = z.consumed
    BY <1>1, <1>2 DEF LzType
  <2>4. Reached(x)
    BY <1>1, <1>2, <1>5, <2>1 DEF LzType, Blank, Quiet, NoOffset, Reached, Formed, Bound
  <2>5. QED
    BY <1>5, <2>2, <2>3, <2>4, Moved
<1>6. CASE z.ext = "Count"
  <2>1. z.acc <= limit /\ z.op1 = 24
    BY <1>3, <1>6 DEF ExtOk
  <2>2. ExtensionEnd(z, b) = [y EXCEPT !.count = z.acc + b + 9, !.mode = "Offset1"]
    BY <1>6 DEF ExtensionEnd, y
  <2>3. QED
    BY <1>5, <2>1, <2>2
<1>7. CASE z.ext = "Long"
  <2>1. z.acc <= limit /\ z.op1 \in {16, 32}
    BY <1>3, <1>7 DEF ExtOk
  <2>2. LongBase(z.op1) \in {9, 33}
    BY DEF LongBase
  <2>3. ExtensionEnd(z, b) = [y EXCEPT !.count = z.acc + b + LongBase(z.op1), !.mode = "Offset1"]
    BY <1>7 DEF ExtensionEnd, y
  <2>4. LongBase(z.op1) \in 1..33 /\ LongBase(z.op1) > 2
    BY <2>2
  <2>5. QED
    BY <1>5, <2>1, <2>3, <2>4
<1>8. QED
  BY <1>3, <1>4, <1>6, <1>7 DEF ExtOk

LEMMA CopyFromSound ==
  ASSUME limit \in Nat, NEW z \in LzType, ~z.failed, z.produced <= limit, z.consumed > 0,
         Quiet(z), z.count >= 1,
         NEW far \in 1..(Window - 1), NEW n \in 0..3
  PROVE  Sound(z, CopyFrom(z, far, n))
<1>1. CASE Reaches(z, far) /\ Fits(z, z.count + n)
  <2> DEFINE x == [z EXCEPT !.op1 = 0, !.distance = far, !.lit = n, !.mode = "Copy"]
  <2>1. CopyFrom(z, far, n) = x
    BY <1>1 DEF CopyFrom
  <2>2. far \in Nat
    BY Sizes
  <2>3. x \in LzType
    BY <2>2, Names, Bytes DEF LzType
  <2>4. x.produced = z.produced /\ x.consumed = z.consumed
    BY DEF LzType
  <2>5. Reached(x)
    BY <1>1 DEF LzType, Quiet, Reached, Formed, Bound, CopyOk, Reaches, Fits
  <2>6. QED
    BY <2>1, <2>3, <2>4, <2>5, Moved
<1>2. CASE ~(Reaches(z, far) /\ Fits(z, z.count + n))
  BY <1>2, FailedSound DEF CopyFrom
<1>3. QED
  BY <1>1, <1>2

\* A distance is never longer than the window.
LEMMA DistanceRange ==
  ASSUME NEW op \in Byte, NEW field \in Nat
  PROVE  Distance(op, field) \in 1..(Window - 1)
<1>1. field % Far \in 0..(Far - 1) /\ Far \in Nat \ {0} /\ Window = 3 * Far
  BY Sizes, Remainder
<1>2. Distance(op, field) \in
        {(field % Far) + Far, (field % Far) + Far + Far, (field % Far) + 0 + Far, (field % Far) + 1}
  BY DEF Distance
<1>3. QED
  BY <1>1, <1>2

LEMMA CopiedSound ==
  ASSUME limit \in Nat, NEW z \in LzType, z.mode = "Copy", ~z.failed, z.consumed > 0,
         Quiet(z), z.op1 = 0, z.count = 0, z.produced <= limit,
         z.lit <= limit - z.produced
  PROVE  Sound(z, Copied(z))
<1>1. z.lit \in 0..3 /\ z.lit \in Nat /\ 0 \in 0..3 /\ 0 \in Nat
  BY DEF LzType
<1>2. CASE z.lit = 0
  <2> DEFINE x == [z EXCEPT !.mode = "LitLen", !.distance = 0]
  <2>1. Copied(z) = x
    BY <1>2 DEF Copied
  <2>2. x \in LzType
    BY Names DEF LzType
  <2>3. x.produced = z.produced /\ x.consumed = z.consumed
    BY DEF LzType
  <2>4. Reached(x)
    BY <1>2 DEF LzType, Quiet, NoOffset, Reached, Formed, Bound
  <2>5. QED
    BY <2>1, <2>2, <2>3, <2>4, Moved
<1>3. CASE z.lit # 0
  <2> DEFINE x == [z EXCEPT !.mode = "Literal", !.distance = 0, !.count = z.lit, !.lit = 0]
  <2>1. Copied(z) = x
    BY <1>3 DEF Copied
  <2>2. x \in LzType
    BY <1>1, Names DEF LzType
  <2>3. x.produced = z.produced /\ x.consumed = z.consumed
    BY DEF LzType
  <2>4. Reached(x)
    BY <1>1, <1>3 DEF LzType, Quiet, NoOffset, Reached, Formed, Bound
  <2>5. QED
    BY <2>1, <2>2, <2>3, <2>4, Moved
<1>4. QED
  BY <1>2, <1>3

----------------------------------------------------------------------------
(* One byte of input. *)

LEMMA StreamFacts ==
  ASSUME TypeOK
  PROVE  stream \in Seq(Byte) /\ Len(stream) \in Nat /\ limit \in Nat /\ lz \in LzType
BY FormatAssumption DEF TypeOK

LEMMA NextIsByte ==
  ASSUME LzInv, Reading
  PROVE  /\ NextByte \in Byte
         /\ ~lz.failed /\ Reached(lz)
         /\ Taken \in LzType /\ ~Taken.failed
         /\ Taken.produced = lz.produced /\ Taken.consumed = lz.consumed + 1
         /\ lz.consumed + 1 + (call.given - (call.used + 1)) <= Len(stream)
         /\ lz.consumed + 1 <= Len(stream)
<1>1. /\ stream \in Seq(Byte) /\ Len(stream) \in Nat /\ lz \in LzType
      /\ lz.consumed \in Nat /\ call.given \in Nat /\ call.used \in Nat
  <2>1. TypeOK
    BY DEF LzInv
  <2>2. call \in CallType
    BY <2>1 DEF TypeOK
  <2>3. QED
    BY <2>1, <2>2, StreamFacts DEF LzType, CallType
<1>2. /\ Calling /\ ~lz.failed /\ call.used < call.given
      /\ lz.consumed + (call.given - call.used) <= Len(stream)
  BY DEF LzInv, InStream, Reading
<1>3. lz.consumed + 1 \in 1..Len(stream)
      /\ lz.consumed + 1 + (call.given - (call.used + 1)) <= Len(stream)
  BY <1>1, <1>2
<1>4. NextByte \in Byte
  BY <1>1, <1>3 DEF NextByte
<1>5. Taken \in LzType /\ Taken.failed = lz.failed
      /\ Taken.produced = lz.produced /\ Taken.consumed = lz.consumed + 1
  <2>1. lz.consumed + 1 \in Nat
    BY <1>1
  <2>2. Taken \in LzType
    BY <1>1, <2>1 DEF Taken, LzType
  <2>3. QED
    BY <1>1, <2>2 DEF Taken, LzType
<1>6. Reached(lz)
  BY <1>2 DEF LzInv
<1>7. QED
  BY <1>1, <1>2, <1>3, <1>4, <1>5, <1>6

LEMMA TakeSound ==
  ASSUME LzInv, Reading, NEW y, Sound(Taken, y), Take(y)
  PROVE  LzInv'
<1>1. /\ lz' = y /\ y \in LzType /\ (~y.failed => Reached(y))
      /\ y.produced = lz.produced /\ y.consumed = lz.consumed + 1
  BY NextIsByte DEF Sound, Take
<1>2. UNCHANGED <<stream, limit, window, out, kept, restarts>>
  BY DEF Take
<1>3. call' = IF y.failed THEN NoCall ELSE [call EXCEPT !.used = @ + 1]
  BY DEF Take
<1>4. call \in CallType /\ call.given \in Nat /\ call.used \in Nat /\ call.room \in Nat
      /\ call.filled \in Nat /\ TypeOK
  BY DEF LzInv, TypeOK, CallType
<1>5. TypeOK'
  <2>1. call' \in CallType
    <3>1. CASE y.failed
      BY <1>3, <3>1 DEF NoCall, CallType
    <3>2. CASE ~y.failed
      <4>1. call.used + 1 \in Nat
        BY <1>4
      <4>2. QED
        BY <1>3, <1>4, <3>2, <4>1 DEF CallType
    <3>3. QED
      BY <3>1, <3>2
  <2>2. QED
    BY <1>1, <1>2, <1>4, <2>1 DEF TypeOK
<1>6. (~lz.failed => Reached(lz))'
  BY <1>1, <1>2 DEF Reached, Formed, Bound, Quiet, NoOffset, ExtOk, CopyOk
<1>7. Reached(kept.lz)'
  <2>1. Reached(kept.lz)
    BY DEF LzInv
  <2>2. QED
    BY <1>2, <2>1 DEF Reached, Formed, Bound, Quiet, NoOffset, ExtOk, CopyOk
<1>8. InStream'
  <2>1. kept.lz.consumed <= Len(stream) /\ call.used < call.given /\ call.filled <= call.room
    BY DEF LzInv, InStream, Reading
  <2>2. (lz.consumed <= Len(stream) /\ kept.lz.consumed <= Len(stream))'
    BY <1>1, <1>2, <2>1, NextIsByte
  <2>3. CASE y.failed
    BY <1>3, <2>2, <2>3 DEF InStream, Calling
  <2>4. CASE ~y.failed
    <3>1. call'.used = call.used + 1 /\ call'.given = call.given
          /\ call'.filled = call.filled /\ call'.room = call.room
      BY <1>3, <1>4, <2>4 DEF CallType
    <3>2. call.used + 1 <= call.given
      BY <1>4, <2>1
    <3>3. lz.consumed + 1 + (call.given - (call.used + 1)) <= Len(stream)
      BY NextIsByte
    <3>4. QED
      BY <1>1, <1>2, <2>1, <2>2, <2>4, <3>1, <3>2, <3>3 DEF InStream
  <2>5. QED
    BY <2>3, <2>4
<1>9. WindowHolds'
  BY <1>1, <1>2 DEF LzInv, WindowHolds
<1>10. KeptHolds'
  BY <1>2 DEF LzInv, KeptHolds
<1>11. QED
  BY <1>5, <1>6, <1>7, <1>8, <1>9, <1>10 DEF LzInv

\* The input-taking actions are Take of a sound step.
LEMMA TakesSound ==
  ASSUME LzInv,
         \/ TakeLength \/ TakeZero \/ TakeExtension \/ TakeOpcode
         \/ TakeOffset1 \/ TakeOffset2 \/ TakeOp2
  PROVE  Reading /\ \E y : Sound(Taken, y) /\ Take(y)
<1>1. Reading
  BY DEF TakeLength, TakeZero, TakeExtension, TakeOpcode, TakeOffset1, TakeOffset2, TakeOp2
<1> DEFINE z == Taken
           b == NextByte
<1>2. /\ b \in Byte /\ b \in 0..255 /\ Reached(lz) /\ ~lz.failed
      /\ z \in LzType /\ ~z.failed /\ z.produced = lz.produced /\ z.consumed = lz.consumed + 1
      /\ lz \in LzType /\ limit \in Nat /\ TypeOK
  BY <1>1, NextIsByte, StreamFacts DEF LzInv, Byte
<1>3. /\ z.mode = lz.mode /\ z.ext = lz.ext /\ z.op1 = lz.op1 /\ z.first = lz.first
      /\ z.acc = lz.acc /\ z.count = lz.count /\ z.lit = lz.lit /\ z.distance = lz.distance
      /\ z.consumed > 0
  BY <1>2 DEF Taken, LzType
<1> HIDE DEF z, b
<1>4. lz.mode \in {"Start", "LitLen", "Opcode"} => Blank(z) /\ z.op1 = 0
  BY <1>2, <1>3 DEF Reached, Formed, Blank, Quiet, NoOffset
<1>5. lz.mode = "Ext" => Extending(z)
  BY <1>2, <1>3 DEF Extending, Reached, Formed, Bound, ExtOk, NoOffset
<1>6. CASE TakeLength
  <2>1. Sound(z, Length(z, b))
    BY <1>2, <1>4, <1>6, LengthSound DEF TakeLength
  <2>2. QED
    BY <1>1, <1>6, <2>1 DEF TakeLength, z, b
<1>7. CASE TakeZero
  <2>1. Sound(z, Extended(z))
    BY <1>2, <1>5, <1>7, ExtendedSound DEF TakeZero
  <2>2. QED
    BY <1>1, <1>7, <2>1 DEF TakeZero, z
<1>8. CASE TakeExtension
  <2>1. Sound(z, ExtensionEnd(z, b))
    BY <1>2, <1>5, <1>8, ExtensionEndSound DEF TakeExtension, b
  <2>2. QED
    BY <1>1, <1>8, <2>1 DEF TakeExtension, z, b
<1>9. CASE TakeOpcode
  <2>1. Sound(z, Opcode(z, b))
    BY <1>2, <1>4, <1>9, OpcodeSound DEF TakeOpcode
  <2>2. QED
    BY <1>1, <1>9, <2>1 DEF TakeOpcode, z, b
<1>10. CASE TakeOffset1
  <2> DEFINE x == [z EXCEPT !.first = b, !.mode = "Offset2"]
  <2>1. x \in LzType
    BY <1>2, Names DEF LzType
  <2>2. x.produced = z.produced /\ x.consumed = z.consumed
    BY <1>2 DEF LzType
  <2>3. Reached(x)
    BY <1>2, <1>3, <1>10 DEF TakeOffset1, LzType, Reached, Formed, Bound, NoOffset
  <2>4. Sound(z, x)
    BY <2>1, <2>2, <2>3, Moved
  <2>5. QED
    BY <1>1, <1>10, <2>4 DEF TakeOffset1, z, b
<1>11. CASE TakeOffset2
  <2> DEFINE x == [z EXCEPT !.first = 0]
             far == Distance(lz.op1, (lz.first \div 4) + b * 64)
             n == lz.first % 4
  <2>1. x \in LzType /\ x.produced = z.produced /\ x.consumed = z.consumed
    <3>1. x \in LzType
      BY <1>2, Bytes DEF LzType
    <3>2. QED
      BY <1>2, <3>1 DEF LzType
  <2>2. ~x.failed /\ x.produced <= limit /\ x.consumed > 0 /\ Quiet(x) /\ x.count >= 1
    BY <1>2, <1>3, <1>11 DEF TakeOffset2, LzType, Reached, Formed, Quiet
  <2>3. lz.op1 \in Byte /\ lz.first \in 0..255 /\ (lz.first \div 4) + b * 64 \in Nat
        /\ n \in 0..3
    <3>1. lz.op1 \in Byte /\ lz.first \in 0..255
      BY <1>2 DEF LzType, Byte
    <3>2. lz.first \div 4 \in Nat /\ lz.first % 4 \in 0..3
      BY <3>1
    <3>3. QED
      BY <1>2, <3>1, <3>2
  <2>4. far \in 1..(Window - 1)
    BY <2>3, DistanceRange
  <2> HIDE DEF far, n, x
  <2>5. Sound(x, CopyFrom(x, far, n))
    BY <1>2, <2>1, <2>2, <2>3, <2>4, CopyFromSound
  <2>6. Sound(z, CopyFrom(x, far, n))
    BY <2>1, <2>5 DEF Sound
  <2>7. QED
    BY <1>1, <1>11, <2>6 DEF TakeOffset2, x, far, n, z, b
<1>12. CASE TakeOp2
  <2> DEFINE far == ((b * 4 + (lz.op1 % 16) \div 4) % Far) + 1
             n == lz.op1 % 4
  <2>1. lz.op1 \in 0..255 /\ Quiet(z) /\ z.count >= 1 /\ z.produced <= limit
    BY <1>2, <1>3, <1>12 DEF TakeOp2, LzType, Reached, Formed, Quiet, Byte
  <2>2. far \in 1..(Window - 1) /\ n \in 0..3
    <3>1. (lz.op1 % 16) \div 4 \in Nat /\ n \in 0..3
      BY <2>1
    <3>2. b * 4 + (lz.op1 % 16) \div 4 \in Nat
      BY <1>2, <3>1
    <3>3. (b * 4 + (lz.op1 % 16) \div 4) % Far \in 0..(Far - 1)
      BY <3>2, Sizes, Remainder
    <3>4. QED
      BY <3>1, <3>3, Sizes
  <2> HIDE DEF far, n
  <2>3. Sound(z, CopyFrom(z, far, n))
    BY <1>2, <1>3, <2>1, <2>2, CopyFromSound
  <2>4. QED
    BY <1>1, <1>12, <2>3 DEF TakeOp2, far, n, z, b
<1>13. QED
  BY <1>6, <1>7, <1>8, <1>9, <1>10, <1>11, <1>12

----------------------------------------------------------------------------
(* The window. *)

\* Output byte n of a stream is in the ring.
InRing(w, o, n) == w[Place(n)] = o[n + 1]

LEMMA RingFacts ==
  ASSUME LzInv
  PROVE  /\ lz.produced \in Nat /\ kept.lz.produced \in Nat
         /\ window \in [0..(Window - 1) -> Byte] /\ out \in Seq(Byte)
         /\ Len(out) = lz.produced
         /\ \A n \in Oldest(lz.produced)..(lz.produced - 1) : InRing(window, out, n)
         /\ kept.bytes \in Seq(Byte) /\ kept.lz.produced <= lz.produced
<1>1. TypeOK /\ WindowHolds /\ KeptHolds
  BY DEF LzInv
<1>2. lz.produced \in Nat /\ kept.lz.produced \in Nat
  BY <1>1 DEF TypeOK, LzType
<1>3. QED
  BY <1>1, <1>2 DEF TypeOK, WindowHolds, KeptHolds, InRing

\* A byte put out takes the place of the one that leaves the window, and no
\* other.
LEMMA PushSound ==
  ASSUME LzInv, NEW b \in Byte, Push(b)
  PROVE  /\ window' \in [0..(Window - 1) -> Byte]
         /\ out' \in Seq(Byte) /\ Len(out') = lz.produced + 1
         /\ \A n \in Oldest(lz.produced + 1)..lz.produced : InRing(window', out', n)
         /\ \A n \in 1..lz.produced : out'[n] = out[n]
<1> DEFINE p == lz.produced
<1>1. /\ p \in Nat /\ window \in [0..(Window - 1) -> Byte] /\ out \in Seq(Byte)
      /\ Len(out) = p
      /\ \A n \in Oldest(p)..(p - 1) : InRing(window, out, n)
  BY RingFacts
<1>2. window' = [window EXCEPT ![Place(p)] = b] /\ out' = Append(out, b)
  BY DEF Push
<1>3. Place(p) \in 0..(Window - 1)
  BY <1>1, PlaceType
<1> HIDE DEF p
<1>4. out' \in Seq(Byte) /\ Len(out') = p + 1 /\ out'[p + 1] = b
      /\ \A n \in 1..p : out'[n] = out[n]
  BY <1>1, <1>2
<1>5. window' \in [0..(Window - 1) -> Byte] /\ window'[Place(p)] = b
      /\ \A at \in 0..(Window - 1) : at # Place(p) => window'[at] = window[at]
  BY <1>1, <1>2, <1>3
<1>6. ASSUME NEW n \in Oldest(p + 1)..p
      PROVE  InRing(window', out', n)
  <2>1. /\ Oldest(p) \in Nat /\ Oldest(p + 1) \in Nat
        /\ Oldest(p) = (IF p <= Window THEN 0 ELSE p - Window)
        /\ Oldest(p + 1) = (IF p + 1 <= Window THEN 0 ELSE p + 1 - Window)
    <3>1. p + 1 \in Nat
      BY <1>1
    <3>2. Oldest(p + 1) \in Nat
          /\ Oldest(p + 1) = (IF p + 1 <= Window THEN 0 ELSE (p + 1) - Window)
      BY <3>1, OldestFacts
    <3>3. QED
      BY <1>1, <3>2, OldestFacts, Sizes
  <2>2. n \in Nat /\ p - n < Window /\ n >= Oldest(p) /\ n <= p
    BY <1>1, <1>6, <2>1, Sizes
  <2>3. CASE n = p
    BY <1>4, <1>5, <2>3 DEF InRing
  <2>4. CASE n < p
    <3>1. Place(n) # Place(p)
      BY <1>1, <2>2, <2>4, PlacesApart
    <3>2. Place(n) \in 0..(Window - 1)
      BY <2>2, PlaceType
    <3>3. n \in Oldest(p)..(p - 1) /\ n + 1 \in 1..p
      BY <1>1, <2>1, <2>2, <2>4
    <3>4. window'[Place(n)] = window[Place(n)] /\ out'[n + 1] = out[n + 1]
      BY <1>4, <1>5, <3>1, <3>2, <3>3
    <3>5. window[Place(n)] = out[n + 1]
      BY <1>1, <3>3 DEF InRing
    <3>6. QED
      BY <3>4, <3>5 DEF InRing
  <2>5. QED
    BY <1>1, <2>2, <2>3, <2>4
<1>7. QED
  BY <1>4, <1>5, <1>6 DEF p

\* A step that puts out one byte and leaves the decoder in a sound state.
LEMMA PutSound ==
  ASSUME LzInv, NEW b \in Byte, Push(b), Writing,
         lz' \in LzType, ~lz'.failed, Reached(lz'),
         lz'.produced = lz.produced + 1,
         NEW k \in {0, 1}, lz'.consumed = lz.consumed + k,
         call.used + k <= call.given,
         call' \in CallType, call'.used = call.used + k, call'.filled = call.filled + 1,
         call'.given = call.given, call'.room = call.room,
         UNCHANGED <<stream, limit, kept, restarts>>
  PROVE  LzInv'
<1>1. /\ TypeOK /\ call \in CallType /\ call.given \in Nat /\ call.used \in Nat
      /\ call.room \in Nat /\ call.filled \in Nat /\ Len(stream) \in Nat
      /\ lz.consumed \in Nat /\ lz.produced \in Nat
  <2>1. TypeOK
    BY DEF LzInv
  <2>2. QED
    BY <2>1, StreamFacts DEF TypeOK, CallType, LzType
<1>2. TypeOK'
  BY <1>1, PushSound DEF TypeOK
<1>3. (~lz.failed => Reached(lz))'
  BY DEF Reached, Formed, Bound, Quiet, NoOffset, ExtOk, CopyOk
<1>4. Reached(kept.lz)'
  <2>1. Reached(kept.lz)
    BY DEF LzInv
  <2>2. QED
    BY <2>1 DEF Reached, Formed, Bound, Quiet, NoOffset, ExtOk, CopyOk
<1>5. InStream'
  <2>1. /\ kept.lz.consumed <= Len(stream) /\ call.filled < call.room /\ call.used <= call.given
        /\ lz.consumed + (call.given - call.used) <= Len(stream)
    BY DEF LzInv, InStream, Writing
  <2>2. lz.consumed + k + (call.given - (call.used + k)) <= Len(stream)
        /\ lz.consumed + k <= Len(stream) /\ call.filled + 1 <= call.room
    <3>1. k \in Nat /\ call.used + k <= call.given
      OBVIOUS
    <3>2. ASSUME NEW c \in Nat, NEW g \in Nat, NEW u \in Nat, NEW l \in Nat,
                 c + (g - u) <= l, u + k <= g
          PROVE  c + k + (g - (u + k)) <= l /\ c + k <= l
      BY <3>1, <3>2
    <3>3. lz.consumed + k + (call.given - (call.used + k)) <= Len(stream)
          /\ lz.consumed + k <= Len(stream)
      BY <1>1, <2>1, <3>1, <3>2
    <3>4. QED
      BY <1>1, <2>1, <3>3
  <2>3. QED
    BY <2>1, <2>2 DEF InStream
<1>6. WindowHolds'
  <2>1. /\ Len(out') = lz.produced + 1
        /\ \A n \in Oldest(lz.produced + 1)..lz.produced : InRing(window', out', n)
    BY PushSound
  <2>2. lz'.produced - 1 = lz.produced
    BY <1>1
  <2>3. \A n \in Oldest(lz'.produced)..(lz'.produced - 1) : window'[Place(n)] = out'[n + 1]
    BY <2>1, <2>2 DEF InRing
  <2>4. QED
    BY <2>1, <2>3 DEF WindowHolds, Oldest, Place
<1>7. KeptHolds'
  <2> DEFINE n == kept.lz.produced
  <2>1. /\ KeptHolds /\ n \in Nat /\ kept.bytes \in Seq(Byte)
        /\ n <= lz.produced /\ Len(kept.bytes) = n - Oldest(n)
    BY RingFacts DEF LzInv, KeptHolds
  <2>2. Len(out') = lz.produced + 1 /\ \A i \in 1..lz.produced : out'[i] = out[i]
    BY PushSound
  <2>3. Oldest(n) \in Nat /\ Oldest(n) <= n
    BY <2>1, OldestFacts
  <2>4. \A j \in 1..Len(kept.bytes) : Oldest(n) + j \in 1..lz.produced
    <3> DEFINE o == Oldest(n)
    <3> HIDE DEF n, o
    <3>1. o \in Nat /\ n \in Nat /\ n <= lz.produced /\ lz.produced \in Nat
          /\ Len(kept.bytes) = n - o
      BY <1>1, <2>1, <2>3 DEF o
    <3>2. \A j \in 1..(n - o) : o + j \in 1..lz.produced
      BY <3>1
    <3>3. QED
      BY <3>1, <3>2 DEF o
  <2>5. \A j \in 1..Len(kept.bytes) :
          kept.bytes[j] = out'[Oldest(kept.lz.produced) + j]
    BY <2>1, <2>2, <2>4 DEF KeptHolds
  <2>6. kept.lz.produced <= Len(out')
    <3> HIDE DEF n
    <3>1. n <= Len(out')
      BY <1>1, <2>1, <2>2
    <3>2. QED
      BY <3>1 DEF n
  <2>7. QED
    BY <2>1, <2>5, <2>6 DEF KeptHolds, Oldest
<1>8. QED
  BY <1>2, <1>3, <1>4, <1>5, <1>6, <1>7 DEF LzInv

LEMMA CopyByteSound ==
  ASSUME LzInv, CopyByte
  PROVE  LzInv' /\ ~lz'.failed /\ call'.filled > 0
<1> DEFINE z == [lz EXCEPT !.produced = @ + 1, !.count = @ - 1]
           b == window[Place(lz.produced - lz.distance)]
<1>1. /\ lz \in LzType /\ limit \in Nat /\ Reached(lz) /\ ~lz.failed /\ lz.mode = "Copy"
      /\ call \in CallType /\ Calling /\ Writing /\ call.used <= call.given
  BY StreamFacts DEF LzInv, TypeOK, InStream, CopyByte, Writing
<1>2. /\ lz.produced \in Nat /\ lz.count \in Nat /\ lz.lit \in 0..3 /\ lz.distance \in Nat
      /\ lz.consumed \in Nat /\ lz.consumed > 0 /\ lz.produced <= limit /\ Quiet(lz) /\ lz.op1 = 0
      /\ lz.count >= 1 /\ lz.count + lz.lit <= limit - lz.produced
      /\ lz.distance >= 1 /\ lz.distance <= Window - 1 /\ lz.distance <= lz.produced
  <2>1. CopyOk(lz) /\ Quiet(lz) /\ lz.op1 = 0 /\ lz.count >= 1
        /\ lz.consumed # 0 /\ lz.produced <= limit
    BY <1>1 DEF Reached, Formed
  <2>2. lz.produced \in Nat /\ lz.count \in Nat /\ lz.lit \in 0..3 /\ lz.distance \in Nat
        /\ lz.consumed \in Nat
    BY <1>1 DEF LzType
  <2>3. QED
    BY <2>1, <2>2, Sizes DEF CopyOk
<1>3. b \in Byte
  <2>1. lz.produced - lz.distance \in Nat
    BY <1>2
  <2>2. Place(lz.produced - lz.distance) \in 0..(Window - 1)
    BY <2>1, PlaceType
  <2>3. QED
    BY <2>2, RingFacts
<1>4. /\ z \in LzType /\ z.produced = lz.produced + 1 /\ z.count = lz.count - 1
      /\ z.consumed = lz.consumed /\ z.lit = lz.lit /\ z.distance = lz.distance
      /\ z.mode = "Copy" /\ ~z.failed /\ Quiet(z) /\ z.op1 = 0
  <2>1. lz.produced + 1 \in Nat /\ lz.count - 1 \in Nat
    BY <1>2
  <2>2. z \in LzType
    BY <1>1, <2>1 DEF LzType
  <2>3. QED
    BY <1>1, <1>2, <2>2 DEF LzType, Quiet
<1>5. /\ Push(b) /\ lz' = (IF z.count = 0 THEN Copied(z) ELSE z)
      /\ call' = [call EXCEPT !.filled = @ + 1] /\ UNCHANGED <<stream, limit, kept, restarts>>
  BY DEF CopyByte
<1> HIDE DEF z, b
<1>6. lz' \in LzType /\ ~lz'.failed /\ Reached(lz')
      /\ lz'.produced = lz.produced + 1 /\ lz'.consumed = lz.consumed
  <2>1. CASE z.count = 0
    <3>1. z.lit <= limit - z.produced /\ z.produced <= limit /\ z.consumed > 0
      BY <1>1, <1>2, <1>4, <2>1
    <3>2. Sound(z, Copied(z))
      BY <1>1, <1>4, <2>1, <3>1, CopiedSound
    <3>3. ~Copied(z).failed
      BY <1>4 DEF Copied, LzType
    <3>4. QED
      BY <1>4, <1>5, <2>1, <3>2, <3>3 DEF Sound
  <2>2. CASE z.count # 0
    <3>1. z.count >= 1 /\ z.produced <= limit /\ z.consumed > 0 /\ CopyOk(z)
      BY <1>1, <1>2, <1>4, <2>2, Sizes DEF CopyOk
    <3>2. Reached(z)
      BY <1>4, <3>1 DEF Reached, Formed, Bound
    <3>3. QED
      BY <1>4, <1>5, <2>2, <3>2
  <2>3. QED
    BY <2>1, <2>2
<1>7. /\ call' \in CallType /\ call'.used = call.used + 0 /\ call'.filled = call.filled + 1
      /\ call'.given = call.given /\ call'.room = call.room /\ call'.filled > 0
      /\ call.used + 0 <= call.given
  <2>1. call.filled + 1 \in Nat /\ call.filled \in Nat /\ call.used \in Nat /\ call.given \in Nat
    BY <1>1 DEF CallType
  <2>2. call' \in CallType
    BY <1>1, <1>5, <2>1 DEF CallType
  <2>3. QED
    BY <1>1, <1>5, <2>1, <2>2 DEF CallType
<1>8. lz'.consumed = lz.consumed + 0 /\ 0 \in {0, 1}
  BY <1>2, <1>6
<1>9. LzInv'
  BY <1>1, <1>3, <1>5, <1>6, <1>7, <1>8, PutSound
<1>10. QED
  BY <1>6, <1>7, <1>9

LEMMA LiteralByteSound ==
  ASSUME LzInv, LiteralByte
  PROVE  LzInv' /\ ~lz'.failed /\ call'.filled > 0
<1> DEFINE z == [Taken EXCEPT !.produced = @ + 1, !.count = @ - 1]
<1>1. /\ lz \in LzType /\ limit \in Nat /\ lz.mode = "Literal"
      /\ call \in CallType /\ Reading /\ Writing
  BY StreamFacts DEF LzInv, TypeOK, LiteralByte
<1>2. /\ NextByte \in Byte /\ ~lz.failed /\ Reached(lz) /\ Taken \in LzType
      /\ Taken.produced = lz.produced /\ Taken.consumed = lz.consumed + 1
  BY <1>1, NextIsByte
<1>3. /\ lz.produced \in Nat /\ lz.count \in Nat /\ lz.consumed \in Nat
      /\ lz.produced <= limit /\ Quiet(lz) /\ lz.op1 = 0 /\ NoOffset(lz)
      /\ lz.count >= 1 /\ lz.count <= limit - lz.produced
  BY <1>1, <1>2 DEF LzType, Reached, Formed
<1>4. /\ z \in LzType /\ z.produced = lz.produced + 1 /\ z.count = lz.count - 1
      /\ z.consumed = lz.consumed + 1 /\ z.mode = "Literal" /\ ~z.failed
      /\ Quiet(z) /\ z.op1 = 0 /\ NoOffset(z)
  <2>1. lz.produced + 1 \in Nat /\ lz.count - 1 \in Nat
    BY <1>3
  <2>2. Taken.count = lz.count /\ Taken.mode = lz.mode /\ Taken.failed = lz.failed
        /\ Taken.op1 = lz.op1 /\ Quiet(Taken) /\ NoOffset(Taken)
    BY <1>1, <1>3 DEF Taken, LzType, Quiet, NoOffset
  <2>3. z \in LzType
    BY <1>2, <2>1, <2>2 DEF LzType
  <2>4. /\ z.produced = Taken.produced + 1 /\ z.count = Taken.count - 1
        /\ z.consumed = Taken.consumed /\ z.mode = Taken.mode /\ z.op1 = Taken.op1
    BY <1>2 DEF LzType
  <2>5. Quiet(z) /\ NoOffset(z)
    BY <1>2, <2>2 DEF LzType, Quiet, NoOffset
  <2>6. z.failed = Taken.failed
    BY <1>2 DEF LzType
  <2>7. QED
    BY <1>1, <1>2, <1>3, <2>2, <2>3, <2>4, <2>5, <2>6
<1>5. /\ Push(NextByte) /\ lz' = (IF z.count = 0 THEN [z EXCEPT !.mode = "Opcode"] ELSE z)
      /\ call' = [call EXCEPT !.used = @ + 1, !.filled = @ + 1]
      /\ UNCHANGED <<stream, limit, kept, restarts>>
  BY DEF LiteralByte
<1> HIDE DEF z
<1>6. lz' \in LzType /\ ~lz'.failed /\ Reached(lz')
      /\ lz'.produced = lz.produced + 1 /\ lz'.consumed = lz.consumed + 1
  <2>1. CASE z.count = 0
    <3> DEFINE x == [z EXCEPT !.mode = "Opcode"]
    <3>1. x \in LzType
      BY <1>4, Names DEF LzType
    <3>2. x.produced = z.produced /\ x.consumed = z.consumed /\ x.failed = z.failed
      BY <1>4 DEF LzType
    <3>3. z.produced <= limit /\ z.consumed > 0
      BY <1>1, <1>3, <1>4
    <3>4. Reached(x)
      BY <1>4, <2>1, <3>3 DEF LzType, Reached, Formed, Bound, Quiet, NoOffset
    <3>5. QED
      BY <1>4, <1>5, <2>1, <3>1, <3>2, <3>4
  <2>2. CASE z.count # 0
    <3>1. z.count >= 1 /\ z.count <= limit - z.produced /\ z.produced <= limit /\ z.consumed > 0
      BY <1>1, <1>3, <1>4, <2>2
    <3>2. Reached(z)
      BY <1>4, <3>1 DEF Reached, Formed, Bound
    <3>3. QED
      BY <1>4, <1>5, <2>2, <3>2
  <2>3. QED
    BY <2>1, <2>2
<1>7. /\ call' \in CallType /\ call'.used = call.used + 1 /\ call'.filled = call.filled + 1
      /\ call'.given = call.given /\ call'.room = call.room /\ call'.filled > 0
      /\ call.used + 1 <= call.given
  <2>1. call.filled + 1 \in Nat /\ call.used + 1 \in Nat /\ call.filled \in Nat
        /\ call.used \in Nat /\ call.given \in Nat
    BY <1>1 DEF CallType
  <2>2. call' \in CallType
    BY <1>1, <1>5, <2>1 DEF CallType
  <2>3. QED
    BY <1>1, <1>5, <2>1, <2>2 DEF CallType, Reading
<1>8. LzInv'
  BY <1>1, <1>2, <1>5, <1>6, <1>7, PutSound
<1>9. QED
  BY <1>6, <1>7, <1>8

----------------------------------------------------------------------------
(* Calls, checkpoints and restarts. *)

LEMMA ReachedSame ==
  ASSUME LzInv, UNCHANGED <<limit, lz, kept>>
  PROVE  (~lz.failed => Reached(lz))' /\ Reached(kept.lz)'
<1>1. (~lz.failed => Reached(lz)) /\ Reached(kept.lz)
  BY DEF LzInv
<1>2. (~lz.failed => Reached(lz))'
  BY <1>1 DEF Reached, Formed, Bound, Quiet, NoOffset, ExtOk, CopyOk
<1>3. Reached(kept.lz)'
  BY <1>1 DEF Reached, Formed, Bound, Quiet, NoOffset, ExtOk, CopyOk
<1>4. QED
  BY <1>2, <1>3

\* The decoder is where it was; only the call changes.
LEMMA CallSound ==
  ASSUME LzInv, Call \/ Return
  PROVE  LzInv'
<1>1. UNCHANGED <<stream, limit, lz, window, out, kept, restarts>>
  BY DEF Call, Return
<1>2. call' \in CallType /\ InStream'
  <2>1. lz.consumed <= Len(stream) /\ kept.lz.consumed <= Len(stream)
    BY DEF LzInv, InStream
  <2>2. CASE Return
    <3>1. call' = NoCall
      BY <2>2 DEF Return
    <3>2. QED
      BY <1>1, <2>1, <3>1 DEF InStream, Calling, NoCall, CallType
  <2>3. CASE Call
    <3>1. PICK feed \in Feeds, room \in Rooms :
            call' = [given |-> Least(feed, Left), room |-> room, used |-> 0, filled |-> 0,
                     from |-> lz.mode]
      BY <2>3 DEF Call
    <3>2. /\ feed \in Nat /\ room \in Nat /\ lz.mode \in Modes /\ lz.consumed \in Nat
          /\ Len(stream) \in Nat
      <4>1. TypeOK
        BY DEF LzInv
      <4>2. QED
        BY <4>1, StreamFacts, FormatAssumption DEF LzType
    <3>3. Left \in Nat /\ Left = Len(stream) - lz.consumed
      BY <2>1, <3>2 DEF Left
    <3>4. Least(feed, Left) \in Nat /\ Least(feed, Left) <= Left
      BY <3>2, <3>3, LeastFacts
    <3>5. call' \in CallType
      BY <3>1, <3>2, <3>4 DEF CallType
    <3>6. call'.given = Least(feed, Left) /\ call'.used = 0 /\ call'.filled = 0
          /\ call'.room = room
      BY <3>1
    <3>7. lz.consumed + (Least(feed, Left) - 0) <= Len(stream)
      BY <3>2, <3>3, <3>4
    <3>8. ~lz.failed
      BY <2>3 DEF Call
    <3>9. QED
      BY <1>1, <2>1, <3>2, <3>4, <3>5, <3>6, <3>7, <3>8 DEF InStream
  <2>4. QED
    BY <2>2, <2>3
<1>3. TypeOK'
  BY <1>1, <1>2 DEF LzInv, TypeOK
<1>4. (~lz.failed => Reached(lz))' /\ Reached(kept.lz)'
  BY <1>1, ReachedSame
<1>5. WindowHolds' /\ KeptHolds'
  BY <1>1 DEF LzInv, WindowHolds, KeptHolds
<1>6. QED
  BY <1>2, <1>3, <1>4, <1>5 DEF LzInv

LEMMA SaveSound ==
  ASSUME LzInv, Save
  PROVE  LzInv'
<1> DEFINE p == lz.produced
           o == Oldest(p)
<1>1. UNCHANGED <<stream, limit, lz, window, call, out, restarts>> /\ ~lz.failed
      /\ kept' = [lz |-> lz, bytes |-> Recent]
  BY DEF Save
<1>2. /\ p \in Nat /\ window \in [0..(Window - 1) -> Byte] /\ out \in Seq(Byte) /\ Len(out) = p
      /\ \A n \in o..(p - 1) : InRing(window, out, n)
  BY RingFacts
<1>3. o \in Nat /\ o <= p
  BY <1>2, OldestFacts
<1> HIDE DEF p, o
<1>4. Recent = [j \in 1..(p - o) |-> window[Place(o + j - 1)]]
  BY DEF Recent, p, o
<1>5. \A j \in 1..(p - o) : /\ window[Place(o + j - 1)] \in Byte
                            /\ window[Place(o + j - 1)] = out[o + j]
  <2>1. SUFFICES ASSUME NEW j \in 1..(p - o)
                 PROVE  /\ window[Place(o + j - 1)] \in Byte
                        /\ window[Place(o + j - 1)] = out[o + j]
    OBVIOUS
  <2>2. o + j - 1 \in o..(p - 1) /\ o + j - 1 \in Nat /\ (o + j - 1) + 1 = o + j
    BY <1>2, <1>3, <2>1
  <2>3. Place(o + j - 1) \in 0..(Window - 1)
    BY <2>2, PlaceType
  <2>4. QED
    BY <1>2, <2>2, <2>3 DEF InRing
<1>6. Recent \in Seq(Byte) /\ Len(Recent) = p - o /\ \A j \in 1..(p - o) : Recent[j] = out[o + j]
  <2>1. p - o \in Nat
    BY <1>2, <1>3
  <2>2. QED
    BY <1>4, <1>5, <2>1
<1>7. TypeOK'
  <2>1. TypeOK
    BY DEF LzInv
  <2>2. kept'.lz = lz /\ kept'.bytes = Recent
    BY <1>1
  <2>3. QED
    BY <1>1, <1>6, <2>1, <2>2 DEF TypeOK
<1>8. (~lz.failed => Reached(lz))' /\ Reached(kept.lz)'
  <2>1. kept'.lz = lz
    BY <1>1
  <2>2. Reached(lz)
    BY <1>1 DEF LzInv
  <2>3. QED
    BY <1>1, <2>1, <2>2 DEF Reached, Formed, Bound, Quiet, NoOffset, ExtOk, CopyOk
<1>9. InStream'
  BY <1>1 DEF LzInv, InStream, Calling
<1>10. WindowHolds'
  BY <1>1 DEF LzInv, WindowHolds
<1>11. KeptHolds'
  <2>1. kept'.lz.produced = p /\ kept'.bytes = Recent /\ out' = out
    BY <1>1 DEF p
  <2>2. Oldest(kept.lz.produced)' = o
    BY <2>1 DEF Oldest, o
  <2>3. QED
    BY <1>2, <1>6, <2>1, <2>2 DEF KeptHolds
<1>12. QED
  BY <1>7, <1>8, <1>9, <1>10, <1>11 DEF LzInv

LEMMA RestartSound ==
  ASSUME LzInv, Restart
  PROVE  LzInv' /\ ~lz'.failed
<1> DEFINE p == kept.lz.produced
           o == Oldest(p)
           bytes == kept.bytes
<1>1. /\ lz' = kept.lz /\ window' = Restored(kept) /\ out' = SubSeq(out, 1, p)
      /\ call' = NoCall /\ restarts' = restarts + 1 /\ restarts < MaxRestarts
      /\ UNCHANGED <<stream, limit, kept>>
  BY DEF Restart
<1>2. /\ p \in Nat /\ p <= lz.produced /\ lz.produced \in Nat
      /\ out \in Seq(Byte) /\ Len(out) = lz.produced /\ bytes \in Seq(Byte)
  BY RingFacts
<1>3. o \in Nat /\ o <= p /\ p - o <= Window
  BY <1>2, OldestFacts
<1>4. Len(bytes) = p - o /\ \A j \in 1..(p - o) : bytes[j] = out[o + j]
  <2>1. KeptHolds
    BY DEF LzInv
  <2>2. QED
    BY <2>1 DEF KeptHolds
<1>5. kept.lz \in LzType /\ Reached(kept.lz) /\ TypeOK
  BY DEF LzInv, TypeOK
<1> HIDE DEF p, o, bytes
<1>6. DOMAIN bytes = 1..(p - o)
  BY <1>2, <1>4
<1> DEFINE Held(at) == {j \in DOMAIN bytes : Place(o + j - 1) = at}
<1>7. window' = [at \in 0..(Window - 1) |->
                  IF Held(at) = {} THEN 0 ELSE bytes[CHOOSE j \in Held(at) : TRUE]]
  BY <1>1 DEF Restored, p, o, bytes
<1>8. window' \in [0..(Window - 1) -> Byte]
  <2>1. ASSUME NEW at \in 0..(Window - 1), Held(at) # {}
        PROVE  bytes[CHOOSE j \in Held(at) : TRUE] \in Byte
    <3>1. (CHOOSE j \in Held(at) : TRUE) \in DOMAIN bytes
      BY <2>1
    <3>2. \A j \in DOMAIN bytes : bytes[j] \in Byte
      BY <1>2
    <3>3. QED
      BY <3>1, <3>2
  <2>2. QED
    BY <1>7, <2>1, Bytes
<1>9. /\ out' \in Seq(Byte) /\ Len(out') = p
      /\ \A n \in 1..p : out'[n] = out[n]
  BY <1>1, <1>2
<1>10. ASSUME NEW n \in o..(p - 1)
       PROVE  window'[Place(n)] = out'[n + 1]
  <2> DEFINE i == n - o + 1
  <2>1. i \in 1..(p - o) /\ o + i - 1 = n /\ o + i = n + 1 /\ n \in Nat /\ n + 1 \in 1..p
    BY <1>2, <1>3, <1>10
  <2>2. Held(Place(n)) = {i}
    <3>1. i \in Held(Place(n))
      BY <1>6, <2>1
    <3>2. ASSUME NEW j \in 1..(p - o), Place(o + j - 1) = Place(n)
          PROVE  j = i
      <4>1. o + j - 1 \in Nat /\ o + j - 1 >= o /\ o + j - 1 <= p - 1
        BY <1>2, <1>3, <3>2
      <4>2. CASE o + j - 1 < n
        <5>1. n - (o + j - 1) < Window
          BY <1>2, <1>3, <1>10, <2>1, <4>1, Sizes
        <5>2. QED
          BY <2>1, <3>2, <4>1, <4>2, <5>1, PlacesApart
      <4>3. CASE o + j - 1 > n
        <5>1. (o + j - 1) - n < Window
          BY <1>2, <1>3, <1>10, <2>1, <4>1, Sizes
        <5>2. QED
          BY <2>1, <3>2, <4>1, <4>3, <5>1, PlacesApart
      <4>4. CASE o + j - 1 = n
        BY <1>3, <2>1, <4>4
      <4>5. QED
        BY <2>1, <4>1, <4>2, <4>3, <4>4
    <3>3. QED
      BY <1>6, <3>1, <3>2
  <2>3. Place(n) \in 0..(Window - 1)
    BY <2>1, PlaceType
  <2> HIDE DEF i, Held
  <2>4. window'[Place(n)] = bytes[i]
    BY <1>7, <2>2, <2>3
  <2>5. bytes[i] = out[n + 1]
    BY <1>4, <2>1
  <2>6. QED
    BY <1>9, <2>1, <2>4, <2>5
<1>11. TypeOK'
  <2>1. restarts' \in 0..MaxRestarts
    BY <1>1, <1>5, Sizes DEF TypeOK
  <2>2. call' \in CallType
    BY <1>1 DEF NoCall, CallType
  <2>3. QED
    BY <1>1, <1>5, <1>8, <1>9, <2>1, <2>2 DEF TypeOK
<1>12. (~lz.failed => Reached(lz))' /\ Reached(kept.lz)'
  BY <1>1, <1>5 DEF Reached, Formed, Bound, Quiet, NoOffset, ExtOk, CopyOk
<1>13. InStream'
  <2>1. kept.lz.consumed <= Len(stream)
    BY DEF LzInv, InStream
  <2>2. QED
    BY <1>1, <2>1 DEF InStream, Calling
<1>14. WindowHolds'
  <2>1. lz'.produced = p
    BY <1>1 DEF p
  <2>2. Oldest(lz.produced)' = o
    BY <2>1 DEF Oldest, o
  <2>3. QED
    BY <1>9, <1>10, <2>1, <2>2 DEF WindowHolds, Place
<1>15. KeptHolds'
  <2>1. kept.lz.produced = p /\ kept'.lz.produced = p /\ kept'.bytes = bytes
    BY <1>1 DEF p, bytes
  <2>2. Oldest(kept.lz.produced)' = o
    BY <2>1 DEF Oldest, o
  <2>3. \A j \in 1..(p - o) : o + j \in 1..p
    BY <1>2, <1>3
  <2>4. QED
    BY <1>2, <1>4, <1>9, <2>1, <2>2, <2>3 DEF KeptHolds
<1>16. ~lz'.failed
  BY <1>1, <1>5 DEF Reached, Formed
<1>17. QED
  BY <1>11, <1>12, <1>13, <1>14, <1>15, <1>16 DEF LzInv

----------------------------------------------------------------------------
(* Theorems. *)

LEMMA InitInv == Init => LzInv
<1> SUFFICES ASSUME Init PROVE LzInv
  OBVIOUS
<1>1. /\ stream \in Streams /\ limit \in Limits /\ lz = NewLz /\ call = NoCall /\ out = <<>>
      /\ window = [at \in 0..(Window - 1) |-> 0] /\ kept = [lz |-> NewLz, bytes |-> <<>>]
      /\ restarts = 0
  BY DEF Init
<1>2. stream \in Seq(Byte) /\ limit \in Nat
  BY <1>1, FormatAssumption
<1>3. NewLz \in LzType
  BY DEF NewLz, LzType, Modes, Exts, Byte
<1>4. window \in [0..(Window - 1) -> Byte]
  BY <1>1, Bytes
<1>5. TypeOK
  <2>1. call \in CallType
    BY <1>1 DEF NoCall, CallType
  <2>2. 0 \in 0..MaxRestarts
    BY Sizes
  <2>3. QED
    BY <1>1, <1>3, <1>4, <2>1, <2>2 DEF TypeOK
<1>6. Reached(NewLz)
  BY <1>2 DEF NewLz, Reached, Formed, Bound, Quiet, NoOffset
<1>7. InStream
  BY <1>1, <1>2 DEF InStream, Calling, NewLz
<1>8. Oldest(0) = 0
  BY OldestFacts, Sizes
<1>9. WindowHolds
  BY <1>1, <1>8 DEF WindowHolds, NewLz
<1>10. KeptHolds
  BY <1>1, <1>8 DEF KeptHolds, NewLz
<1>11. QED
  BY <1>1, <1>5, <1>6, <1>7, <1>9, <1>10 DEF LzInv

LEMMA NextInv == LzInv /\ [Next]_vars => LzInv'
<1> SUFFICES ASSUME LzInv, [Next]_vars PROVE LzInv'
  OBVIOUS
<1>1. CASE Call \/ Return
  BY <1>1, CallSound
<1>2. CASE \/ TakeLength \/ TakeZero \/ TakeExtension \/ TakeOpcode
           \/ TakeOffset1 \/ TakeOffset2 \/ TakeOp2
  <2>1. Reading /\ \E y : Sound(Taken, y) /\ Take(y)
    BY <1>2, TakesSound
  <2>2. QED
    BY <2>1, TakeSound
<1>3. CASE CopyByte
  BY <1>3, CopyByteSound
<1>4. CASE LiteralByte
  BY <1>4, LiteralByteSound
<1>5. CASE Save
  BY <1>5, SaveSound
<1>6. CASE Restart
  BY <1>6, RestartSound
<1>7. CASE UNCHANGED vars
  <2>1. UNCHANGED <<stream, limit, lz, window, call, out, kept, restarts>>
    BY <1>7 DEF vars
  <2>2. TypeOK' /\ InStream'
    BY <2>1 DEF LzInv, TypeOK, InStream, Calling
  <2>3. (~lz.failed => Reached(lz))' /\ Reached(kept.lz)'
    BY <2>1, ReachedSame
  <2>4. WindowHolds' /\ KeptHolds'
    BY <2>1 DEF LzInv, WindowHolds, KeptHolds
  <2>5. QED
    BY <2>2, <2>3, <2>4 DEF LzInv
<1>8. QED
  BY <1>1, <1>2, <1>3, <1>4, <1>5, <1>6, <1>7 DEF Next, Decode

THEOREM InvariantHolds == Spec => []LzInv
BY InitInv, NextInv, PTL DEF Spec

\* The decoder's fields keep their types: no count, room or distance is ever
\* subtracted below zero, and no place is outside the ring.
THEOREM TypeCorrect == Spec => []TypeOK
<1>1. LzInv => TypeOK
  BY DEF LzInv
<1>2. QED
  BY <1>1, InvariantHolds, PTL

\* Whatever a copy may reach is in the ring, at the place it is read from,
\* however often the decoder was restored.
THEOREM WindowKept == Spec => []WindowHolds
<1>1. LzInv => WindowHolds
  BY DEF LzInv
<1>2. QED
  BY <1>1, InvariantHolds, PTL

\* When at least Lead bytes are declared, the check made at restore accepts
\* every state the decoder reaches.
THEOREM RestoreAccepts ==
  ASSUME \A n \in Limits : Lead <= n
  PROVE  Spec => []Restorable
<1>1. LzInv => Restorable
  BY DEF LzInv, TypeOK, Restorable, Reached, Bound, Consistent, ExtInLimit
<1>2. QED
  BY <1>1, InvariantHolds, PTL

----------------------------------------------------------------------------
(* What a call keeps to. *)

\* A call that began with a copy pending has put something out, or will.
FromCopy ==
  Calling /\ Phase(call.from) = "copying" => call.filled > 0 \/ lz.mode = "Copy"

LEMMA TakesCall ==
  ASSUME LzInv,
         \/ TakeLength \/ TakeZero \/ TakeExtension \/ TakeOpcode
         \/ TakeOffset1 \/ TakeOffset2 \/ TakeOp2
  PROVE  /\ Calling /\ call.given > 0 /\ lz.mode # "Copy"
         /\ call' = NoCall => lz'.failed
         /\ call' # NoCall => /\ call'.room = call.room /\ call'.from = call.from
                             /\ call'.filled = call.filled
<1>1. PICK y : Reading /\ Take(y)
  BY TakesSound
<1>2. /\ call \in CallType /\ Calling /\ call.used < call.given
      /\ call.given \in Nat /\ call.used \in Nat
  BY <1>1 DEF LzInv, TypeOK, Reading, CallType
<1>3. lz' = y /\ call' = IF y.failed THEN NoCall ELSE [call EXCEPT !.used = @ + 1]
  BY <1>1 DEF Take
<1>4. lz.mode # "Copy"
  BY DEF TakeLength, TakeZero, TakeExtension, TakeOpcode, TakeOffset1, TakeOffset2, TakeOp2
<1>5. [call EXCEPT !.used = @ + 1] # NoCall
  <2>1. [call EXCEPT !.used = @ + 1].used = call.used + 1
    BY <1>2 DEF CallType
  <2>2. NoCall.used = 0
    BY DEF NoCall
  <2>3. call.used + 1 # 0
    BY <1>2
  <2>4. QED
    BY <2>1, <2>2, <2>3
<1>6. CASE y.failed
  BY <1>2, <1>3, <1>4, <1>6
<1>7. CASE ~y.failed
  BY <1>2, <1>3, <1>4, <1>5, <1>7 DEF CallType
<1>8. QED
  BY <1>6, <1>7

\* A byte put out leaves the call under way.
LEMMA PutsCall ==
  ASSUME LzInv, CopyByte \/ LiteralByte
  PROVE  /\ Calling /\ call' # NoCall /\ ~lz'.failed
         /\ call'.room = call.room /\ call'.from = call.from /\ call'.filled > 0
<1>1. Calling /\ call \in CallType
  BY DEF LzInv, TypeOK, CopyByte, LiteralByte, Writing
<1>2. ~lz'.failed /\ call'.filled > 0
  BY CopyByteSound, LiteralByteSound
<1>3. call' # NoCall
  BY <1>2 DEF NoCall
<1>4. call'.room = call.room /\ call'.from = call.from
  BY <1>1 DEF CopyByte, LiteralByte, CallType
<1>5. QED
  BY <1>1, <1>2, <1>3, <1>4

LEMMA FromCopyInv ==
  /\ Init => FromCopy
  /\ LzInv /\ FromCopy /\ [Next]_vars => FromCopy'
<1>1. Init => FromCopy
  BY DEF Init, FromCopy, Calling
<1>2. LzInv /\ FromCopy /\ [Next]_vars => FromCopy'
  <2> SUFFICES ASSUME LzInv, FromCopy, [Next]_vars PROVE FromCopy'
    OBVIOUS
  <2>1. CASE Call
    <3>1. PICK feed \in Feeds, room \in Rooms :
            call' = [given |-> Least(feed, Left), room |-> room, used |-> 0, filled |-> 0,
                     from |-> lz.mode]
      BY <2>1 DEF Call
    <3>2. call'.from = lz.mode /\ lz' = lz
      BY <2>1, <3>1 DEF Call
    <3>3. Phase(lz.mode) = "copying" => lz.mode = "Copy"
      BY DEF Phase
    <3>4. QED
      BY <3>2, <3>3 DEF FromCopy, Phase
  <2>2. CASE Return \/ Restart
    BY <2>2 DEF Return, Restart, FromCopy, Calling
  <2>3. CASE \/ TakeLength \/ TakeZero \/ TakeExtension \/ TakeOpcode
             \/ TakeOffset1 \/ TakeOffset2 \/ TakeOp2
    BY <2>3, TakesCall DEF FromCopy, Calling, Phase
  <2>4. CASE CopyByte \/ LiteralByte
    BY <2>4, PutsCall DEF FromCopy, Phase
  <2>5. CASE Save \/ UNCHANGED vars
    BY <2>5 DEF Save, vars, FromCopy, Calling, Phase
  <2>6. QED
    BY <2>1, <2>2, <2>3, <2>4, <2>5 DEF Next, Decode
<1>3. QED
  BY <1>1, <1>2

\* What one call may use and put out, and when it may fail, is what
\* R2004SectionWalker takes for granted.
THEOREM KeepsBargain == Spec => Bargain
<1> DEFINE Kept ==
      /\ Calling /\ call' = NoCall /\ ~lz'.failed /\ restarts' = restarts =>
           /\ Phase(lz.mode) = "copying" => call.filled = call.room
           /\ Phase(lz.mode) = "reading" =>
                call.used = call.given \/ (lz.mode = "Literal" /\ call.filled = call.room)
           /\ Phase(call.from) = "copying" => call.filled > 0 \/ call.room = 0
      /\ Calling => call.used <= call.given /\ call.filled <= call.room
      /\ lz'.failed /\ ~lz.failed => Calling /\ call.given > 0
<1>1. LzInv /\ FromCopy /\ [Next]_vars => [Kept]_vars
  <2> SUFFICES ASSUME LzInv, FromCopy, Next PROVE Kept
    OBVIOUS
  <2>1. Calling => call.used <= call.given /\ call.filled <= call.room
    BY DEF LzInv, InStream
  <2>2. CASE Return
    <3>1. /\ Calling /\ Pauses /\ lz' = lz /\ call \in CallType /\ lz \in LzType
          /\ call.used <= call.given /\ call.filled <= call.room
      BY <2>2 DEF Return, LzInv, TypeOK, InStream, FromCopy
    <3>2. /\ call.used \in Nat /\ call.given \in Nat /\ call.filled \in Nat
          /\ call.room \in Nat
      BY <3>1 DEF CallType
    <3>3. /\ ~Reading => call.used = call.given
          /\ ~Writing => call.filled = call.room
      BY <3>1, <3>2 DEF Reading, Writing
    <3>4. /\ lz.mode = "Copy" => ~Writing
          /\ lz.mode \notin {"Copy", "Done"} => ~Reading \/ (lz.mode = "Literal" /\ ~Writing)
      BY <3>1 DEF Pauses
    <3>5. Phase(lz.mode) = "copying" => lz.mode = "Copy"
      BY DEF Phase
    <3>6. Phase(lz.mode) = "reading" => lz.mode \notin {"Copy", "Done"}
      BY DEF Phase
    <3>7. Phase(call.from) = "copying" => call.filled > 0 \/ lz.mode = "Copy"
      BY <3>1 DEF FromCopy
    <3>8. QED
      BY <2>1, <3>1, <3>2, <3>3, <3>4, <3>5, <3>6, <3>7
  <2>3. CASE \/ TakeLength \/ TakeZero \/ TakeExtension \/ TakeOpcode
             \/ TakeOffset1 \/ TakeOffset2 \/ TakeOp2
    BY <2>3, <2>1, TakesCall
  <2>4. CASE CopyByte \/ LiteralByte
    BY <2>4, <2>1, PutsCall
  <2>5. CASE Call \/ Save
    BY <2>5, <2>1 DEF Call, Save, Calling
  <2>6. CASE Restart
    <3>1. ~lz'.failed
      BY <2>6, RestartSound
    <3>2. restarts' = restarts + 1 /\ restarts \in Nat
      BY <2>6, Sizes DEF Restart, LzInv, TypeOK
    <3>3. QED
      BY <2>1, <3>1, <3>2
  <2>7. QED
    BY <2>2, <2>3, <2>4, <2>5, <2>6 DEF Next, Decode
<1>2. QED
  BY <1>1, FromCopyInv, InvariantHolds, PTL DEF Spec, Bargain

----------------------------------------------------------------------------
(* `decompress` as a recursion: a function of the opcodes before it. The   *)
(* library's theorem on recursive functions takes an operator, so that     *)
(* After has its equation is proved here: of the functions that satisfy it *)
(* up to some n there is one for every n, and they agree.                  *)

LEMMA Below ==
  ASSUME NEW i \in Nat, NEW j \in Nat, i < j
  PROVE  <<i, j>> \in OpToRel(<, Nat)
BY Zenon DEF OpToRel

LEMMA LeastMember ==
  ASSUME NEW T \in SUBSET Nat, T # {}
  PROVE  \E e \in T : \A f \in T : e <= f
<1> DEFINE R == OpToRel(<, Nat)
<1>1. IsWellFoundedOn(R, Nat)
  BY NatLessThanWellFounded
<1>2. \A i, j \in Nat : i < j => <<i, j>> \in R
  BY Below
<1> HIDE DEF R
<1>3. PICK e \in T : \A f \in T : ~(<<f, e>> \in R)
  BY <1>1, WFMin
<1>4. ASSUME NEW f \in T, ~(e <= f) PROVE FALSE
  <2>1. e \in Nat /\ f \in Nat /\ f < e
    BY <1>4
  <2>2. QED
    BY <1>2, <1>3, <2>1
<1>5. QED
  BY <1>4

LEMMA SetInduction ==
  ASSUME NEW T \in SUBSET Nat, 0 \in T, \A n \in T : n + 1 \in T
  PROVE  T = Nat
<1> SUFFICES ASSUME Nat \ T # {} PROVE FALSE
  OBVIOUS
<1>1. PICK e \in Nat \ T : \A f \in Nat \ T : e <= f
  BY LeastMember
<1>2. e - 1 \in Nat /\ e - 1 + 1 = e /\ ~(e <= e - 1)
  BY <1>1
<1>3. QED
  BY <1>1, <1>2

\* The recursion has a solution, so that `After(longest)` is one.
LEMMA AfterDefined ==
  ASSUME NEW longest
  PROVE  After(longest) =
           [n \in Nat |-> IF n = 0 THEN Begun ELSE OneOpcode(After(longest)[n - 1], longest)]
<1> DEFINE Upto(n, f) ==
             f = [m \in 0..n |-> IF m = 0 THEN Begun ELSE OneOpcode(f[m - 1], longest)]
<1>1. ASSUME NEW n \in Nat, NEW f, Upto(n, f)
      PROVE  /\ f[0] = Begun
             /\ \A m \in 1..n : f[m] = OneOpcode(f[m - 1], longest)
  BY <1>1
<1>2. ASSUME NEW n \in Nat, NEW k \in Nat, NEW f, NEW g, Upto(n, f), Upto(k, g), n <= k
      PROVE  \A m \in 0..n : f[m] = g[m]
  <2> DEFINE T == {m \in Nat : m <= n => f[m] = g[m]}
  <2>1. 0 \in T
    BY <1>1, <1>2
  <2>2. ASSUME NEW m \in T PROVE m + 1 \in T
    <3>1. SUFFICES ASSUME m + 1 <= n PROVE f[m + 1] = g[m + 1]
      BY <2>2
    <3>2. m + 1 \in 1..n /\ m + 1 \in 1..k /\ (m + 1) - 1 = m /\ m <= n
      BY <1>2, <2>2, <3>1
    <3>3. f[m] = g[m]
      BY <2>2, <3>2
    <3>4. f[m + 1] = OneOpcode(f[m], longest) /\ g[m + 1] = OneOpcode(g[m], longest)
      BY <1>1, <1>2, <3>2
    <3>5. QED
      BY <3>3, <3>4
  <2> HIDE DEF T
  <2>3. T = Nat
    <3>1. T \in SUBSET Nat
      BY DEF T
    <3>2. QED
      BY <2>1, <2>2, <3>1, SetInduction
  <2>4. QED
    BY <2>3 DEF T
<1>3. \A n \in Nat : \E f : Upto(n, f)
  <2> DEFINE T == {n \in Nat : \E f : Upto(n, f)}
  <2>1. 0 \in T
    <3> DEFINE g == [m \in 0..0 |-> Begun]
    <3>1. Upto(0, g)
      OBVIOUS
    <3>2. QED
      BY <3>1
  <2>2. ASSUME NEW n \in T PROVE n + 1 \in T
    <3>1. PICK f : Upto(n, f)
      BY <2>2
    <3> DEFINE g == [m \in 0..(n + 1) |-> IF m = n + 1 THEN OneOpcode(f[n], longest) ELSE f[m]]
    <3>2. n \in Nat /\ f[0] = Begun /\ \A m \in 1..n : f[m] = OneOpcode(f[m - 1], longest)
      BY <1>1, <2>2, <3>1
    <3>3. ASSUME NEW m \in 0..(n + 1)
          PROVE  g[m] = IF m = 0 THEN Begun ELSE OneOpcode(g[m - 1], longest)
      <4>1. CASE m = 0
        BY <3>2, <4>1
      <4>2. CASE m \in 1..n
        <5>1. m - 1 \in 0..(n + 1) /\ m - 1 # n + 1 /\ m # n + 1 /\ m # 0
          BY <3>2, <4>2
        <5>2. QED
          BY <3>2, <4>2, <5>1
      <4>3. CASE m = n + 1
        <5>1. m - 1 = n /\ n \in 0..(n + 1) /\ n # n + 1 /\ m # 0
          BY <3>2, <4>3
        <5>2. g[n] = f[n] /\ g[m] = OneOpcode(f[n], longest)
          BY <4>3, <5>1
        <5>3. QED
          BY <5>1, <5>2
      <4>4. QED
        BY <3>2, <4>1, <4>2, <4>3
    <3>4. Upto(n + 1, g)
      BY <3>3
    <3> HIDE DEF Upto, g
    <3>5. QED
      BY <3>2, <3>4
  <2> HIDE DEF T
  <2>3. T = Nat
    <3>1. T \in SUBSET Nat
      BY DEF T
    <3>2. QED
      BY <2>1, <2>2, <3>1, SetInduction
  <2>4. QED
    BY <2>3 DEF T
<1> DEFINE part(n) == CHOOSE f : Upto(n, f)
           all == [n \in Nat |-> part(n)[n]]
<1>4. \A n \in Nat : Upto(n, part(n))
  BY <1>3
<1> HIDE DEF Upto, part
<1>5. \A n \in Nat : n # 0 => part(n)[n - 1] = part(n - 1)[n - 1]
  <2>1. SUFFICES ASSUME NEW n \in Nat, n # 0
                 PROVE  part(n)[n - 1] = part(n - 1)[n - 1]
    OBVIOUS
  <2>2. n - 1 \in Nat /\ n - 1 \in 0..(n - 1) /\ n - 1 <= n
    BY <2>1
  <2>3. QED
    BY <1>2, <1>4, <2>2
<1>6. all = [n \in Nat |-> IF n = 0 THEN Begun ELSE OneOpcode(all[n - 1], longest)]
  <2>1. \A n \in Nat : part(n)[n] = IF n = 0 THEN Begun ELSE OneOpcode(all[n - 1], longest)
    <3>1. SUFFICES ASSUME NEW n \in Nat
                   PROVE  part(n)[n] = IF n = 0 THEN Begun ELSE OneOpcode(all[n - 1], longest)
      OBVIOUS
    <3>2. CASE n = 0
      BY <1>1, <1>4, <3>2
    <3>3. CASE n # 0
      <4>1. n - 1 \in Nat /\ n \in 1..n
        BY <3>3
      <4>2. part(n)[n] = OneOpcode(part(n)[n - 1], longest)
        BY <1>1, <1>4, <4>1
      <4>3. QED
        BY <1>5, <3>3, <4>1, <4>2
    <3>4. QED
      BY <3>2, <3>3
  <2>2. QED
    BY <2>1
<1>7. QED
  BY <1>6 DEF After

\* `decompress` when max_backref_len does not bind: no copy longer than the
\* whole output passes the other check anyhow.  The decoder is followed along
\* this reading first.
Full == After(limit)
FullEnd == Full[Len(stream) + 1]

LEMMA LongestSteps ==
  ASSUME NEW longest
  PROVE  /\ After(longest)[0] = Begun
         /\ \A n \in Nat : After(longest)[n + 1] = OneOpcode(After(longest)[n], longest)
<1>1. \A n \in Nat : n + 1 \in Nat /\ n + 1 # 0 /\ (n + 1) - 1 = n
  OBVIOUS
<1> DEFINE a == After(longest)
<1>2. a = [n \in Nat |-> IF n = 0 THEN Begun ELSE OneOpcode(a[n - 1], longest)]
  BY AfterDefined
<1> HIDE DEF a
<1>3. a[0] = Begun /\ \A n \in Nat : a[n + 1] = OneOpcode(a[n], longest)
  BY <1>1, <1>2
<1>4. QED
  BY <1>3 DEF a

LEMMA AfterSteps ==
  /\ Full[0] = Begun
  /\ \A n \in Nat : Full[n + 1] = OneOpcode(Full[n], limit)
BY LongestSteps DEF Full

\* The stream and its limit stay.
LEMMA ExtensionStays ==
  ASSUME stream' = stream, NEW at, NEW total
  PROVE  Extension(at, total)' = Extension(at, total)
BY DEF Extension, Number, Truncated, At

LEMMA NumbersStay ==
  ASSUME stream' = stream, limit' = limit
  PROVE  /\ \A at : LiteralLength(at)' = LiteralLength(at)
         /\ \A op, at : LengthOf(op, at)' = LengthOf(op, at)
         /\ \A op, at : Offset(op, at)' = Offset(op, at)
         /\ \A at, n, done : Literals(at, n, done)' = Literals(at, n, done)
<1>1. ASSUME NEW at PROVE LiteralLength(at)' = LiteralLength(at)
  BY ExtensionStays DEF LiteralLength, Plus, Number, Truncated, There, At
<1>2. ASSUME NEW op, NEW at PROVE LengthOf(op, at)' = LengthOf(op, at)
  BY ExtensionStays DEF LengthOf, CopyLength, Plus, Number
<1>3. ASSUME NEW op, NEW at PROVE Offset(op, at)' = Offset(op, at)
  BY DEF Offset, There, At
<1>4. ASSUME NEW at, NEW n, NEW done PROVE Literals(at, n, done)' = Literals(at, n, done)
  BY DEF Literals, Result, Refused, Least
<1>5. QED
  BY <1>1, <1>2, <1>3, <1>4

LEMMA OpcodesStay ==
  ASSUME stream' = stream, limit' = limit
  PROVE  Begun' = Begun /\ \A r : OneOpcode(r, limit)' = OneOpcode(r, limit)
BY NumbersStay, SMTT(30) DEF Begun, OneOpcode, Copying, There, At, Number, Result, Refused

LEMMA AfterStays ==
  ASSUME stream' = stream, limit' = limit
  PROVE  Full' = Full /\ FullEnd' = FullEnd
<1>1. Full' = Full
  BY OpcodesStay DEF Full, After
<1>2. QED
  BY <1>1 DEF FullEnd

----------------------------------------------------------------------------
(* Sequences of bytes. *)

\* A stream and a limit such as a decoder is given.
Given == stream \in Seq(Byte) /\ limit \in Nat

LEMMA SameBytes ==
  ASSUME NEW s \in Seq(Byte), NEW t \in Seq(Byte), Len(s) = Len(t),
         \A i \in 1..Len(s) : s[i] = t[i]
  PROVE  s = t
<1>1. DOMAIN s = 1..Len(s) /\ DOMAIN t = 1..Len(s)
  OBVIOUS
<1>2. s = [i \in DOMAIN s |-> s[i]] /\ t = [i \in DOMAIN t |-> t[i]]
  OBVIOUS
<1>3. QED
  BY <1>1, <1>2, Zenon

LEMMA BytesOf ==
  ASSUME NEW n \in Nat, NEW f, f = [i \in 1..n |-> f[i]], \A i \in 1..n : f[i] \in Byte
  PROVE  f \in Seq(Byte) /\ Len(f) = n
<1>1. f \in [1..n -> Byte]
  BY Zenon
<1>2. QED
  BY <1>1

LEMMA PrefixByByte ==
  ASSUME NEW s \in Seq(Byte), NEW t \in Seq(Byte)
  PROVE  IsPrefix(s, t) <=> Len(s) <= Len(t) /\ \A i \in 1..Len(s) : s[i] = t[i]
<1>1. Len(s) \in Nat /\ Len(t) \in Nat
  OBVIOUS
<1>2. SUFFICES ASSUME Len(s) <= Len(t)
               PROVE  SubSeq(s, 1, Len(s)) = SubSeq(t, 1, Len(s))
                        <=> \A i \in 1..Len(s) : s[i] = t[i]
  BY DEF IsPrefix
<1> DEFINE a == SubSeq(s, 1, Len(s))
           b == SubSeq(t, 1, Len(s))
<1>3. /\ a \in Seq(Byte) /\ Len(a) = Len(s) /\ \A i \in 1..Len(s) : a[i] = s[i]
      /\ b \in Seq(Byte) /\ Len(b) = Len(s) /\ \A i \in 1..Len(s) : b[i] = t[i]
  BY <1>1, <1>2
<1> HIDE DEF a, b
<1>4. (\A i \in 1..Len(s) : s[i] = t[i]) => a = b
  BY <1>3, SameBytes
<1>5. a = b => \A i \in 1..Len(s) : s[i] = t[i]
  BY <1>3
<1>6. QED
  BY <1>4, <1>5 DEF a, b

LEMMA PrefixOrder ==
  ASSUME NEW s \in Seq(Byte), NEW t \in Seq(Byte), NEW u \in Seq(Byte)
  PROVE  /\ IsPrefix(s, s)
         /\ IsPrefix(s, t) /\ IsPrefix(t, u) => IsPrefix(s, u)
         /\ s \o t \in Seq(Byte) /\ IsPrefix(s, s \o t)
<1>1. Len(s) \in Nat /\ Len(t) \in Nat /\ Len(u) \in Nat
  OBVIOUS
<1>2. IsPrefix(s, s)
  BY <1>1, PrefixByByte
<1>3. IsPrefix(s, t) /\ IsPrefix(t, u) => IsPrefix(s, u)
  <2>1. SUFFICES ASSUME IsPrefix(s, t), IsPrefix(t, u) PROVE IsPrefix(s, u)
    OBVIOUS
  <2>2. Len(s) <= Len(t) /\ \A i \in 1..Len(s) : s[i] = t[i]
    BY <2>1, PrefixByByte
  <2>3. Len(t) <= Len(u) /\ \A i \in 1..Len(t) : t[i] = u[i]
    BY <2>1, PrefixByByte
  <2>4. Len(s) <= Len(u) /\ \A i \in 1..Len(s) : s[i] = u[i]
    BY <1>1, <2>2, <2>3
  <2>5. QED
    BY <2>4, PrefixByByte
<1>4. s \o t \in Seq(Byte) /\ IsPrefix(s, s \o t)
  <2>1. s \o t \in Seq(Byte) /\ Len(s \o t) = Len(s) + Len(t)
        /\ \A i \in 1..Len(s) : (s \o t)[i] = s[i]
    OBVIOUS
  <2> DEFINE v == s \o t
  <2>2. v \in Seq(Byte) /\ Len(s) <= Len(v) /\ \A i \in 1..Len(s) : s[i] = v[i]
    BY <1>1, <2>1
  <2> HIDE DEF v
  <2>3. IsPrefix(s, v)
    BY <2>2, PrefixByByte
  <2>4. QED
    BY <2>2, <2>3 DEF v
<1>5. QED
  BY <1>2, <1>3, <1>4

\* What a copy puts out: each byte is the one `far` before it.
LEMMA CopyBytesFacts ==
  ASSUME NEW done \in Seq(Byte), NEW far \in 1..Len(done), NEW n \in Nat
  PROVE  /\ CopyBytes(done, far, n) \in Seq(Byte)
         /\ Len(CopyBytes(done, far, n)) = Len(done) + n
         /\ \A i \in 1..Len(done) : CopyBytes(done, far, n)[i] = done[i]
         /\ \A i \in (Len(done) + 1)..(Len(done) + n) :
              CopyBytes(done, far, n)[i] = CopyBytes(done, far, n)[i - far]
<1> DEFINE l == Len(done)
           more == [i \in 1..n |-> done[(l - far) + 1 + ((i - 1) % far)]]
           all == CopyBytes(done, far, n)
<1>1. l \in Nat /\ far \in Nat \ {0} /\ far <= l
  OBVIOUS
<1> HIDE DEF l
<1>3. \A i \in 1..n : (l - far) + 1 + ((i - 1) % far) \in 1..l
  <2>1. SUFFICES ASSUME NEW i \in 1..n PROVE (l - far) + 1 + ((i - 1) % far) \in 1..l
    OBVIOUS
  <2>2. i - 1 \in Nat
    BY <2>1
  <2>3. (i - 1) % far \in 0..(far - 1)
    BY <1>1, <2>2, Remainder
  <2>4. QED
    BY <1>1, <2>3
<1>4. more \in Seq(Byte) /\ Len(more) = n
  <2>1. \A i \in 1..l : done[i] \in Byte
    BY DEF l
  <2>2. \A i \in 1..n : done[(l - far) + 1 + ((i - 1) % far)] \in Byte
    BY <1>3, <2>1
  <2>3. more = [i \in 1..n |-> more[i]] /\ \A i \in 1..n : more[i] \in Byte
    BY <2>2
  <2> HIDE DEF more
  <2>4. QED
    BY <2>3, BytesOf
<1>5. all = done \o more
  BY DEF CopyBytes, l
<1>6. \A i \in 1..n : more[i] = done[(l - far) + 1 + ((i - 1) % far)]
  OBVIOUS
<1> HIDE DEF more, all
<1>7. /\ all \in Seq(Byte) /\ Len(all) = l + n
      /\ \A i \in 1..l : all[i] = done[i]
      /\ \A i \in 1..n : all[l + i] = more[i]
  <2>1. \A a, b \in Seq(Byte) :
          /\ a \o b \in Seq(Byte) /\ Len(a \o b) = Len(a) + Len(b)
          /\ \A i \in 1..Len(a) : (a \o b)[i] = a[i]
          /\ \A i \in 1..Len(b) : (a \o b)[Len(a) + i] = b[i]
    OBVIOUS
  <2>2. QED
    BY <1>4, <1>5, <2>1 DEF l
<1>8. ASSUME NEW i \in 1..n
      PROVE  all[l + i] = all[(l + i) - far]
  <2>1. all[l + i] = done[(l - far) + 1 + ((i - 1) % far)]
    BY <1>6, <1>7
  <2>2. CASE i <= far
    <3>1. (i - 1) % far = i - 1
      BY <1>1, <2>2
    <3>2. (l - far) + 1 + (i - 1) = (l + i) - far /\ (l + i) - far \in 1..l
      BY <1>1, <2>2
    <3>3. QED
      BY <1>7, <2>1, <3>1, <3>2
  <2>3. CASE i > far
    <3>1. i - far \in 1..n /\ l + (i - far) = (l + i) - far
      BY <1>1, <2>3
    <3>2. all[(l + i) - far] = done[(l - far) + 1 + (((i - far) - 1) % far)]
      <4>1. all[l + (i - far)] = more[i - far]
        BY <1>7, <3>1
      <4>2. QED
        BY <1>6, <3>1, <4>1
    <3>3. ((i - far) - 1) % far = (i - 1) % far
      <4>1. (i - far) - 1 \in Nat /\ ((i - far) - 1) + far = i - 1
        BY <1>1, <2>3
      <4>2. (((i - far) - 1) + far) % far = ((i - far) - 1) % far
        BY <1>1, <4>1, RemainderPlus
      <4>3. QED
        BY <4>1, <4>2
    <3>4. QED
      BY <2>1, <3>2, <3>3
  <2>4. QED
    BY <1>1, <2>2, <2>3
<1>9. ASSUME NEW i \in (l + 1)..(l + n)
      PROVE  all[i] = all[i - far]
  <2>1. i - l \in 1..n /\ l + (i - l) = i
    BY <1>1
  <2>2. QED
    BY <1>8, <2>1
<1>10. QED
  BY <1>7, <1>9 DEF all, l

----------------------------------------------------------------------------
(* Numbers read from the stream. *)

Zeros(from, to) == \A j \in from..(to - 1) : At(j) = 0

\* What the zero bytes of an extension stand for.
Span(k) == Run * k

LEMMA SpanFacts ==
  /\ Span(0) = 0 /\ Span(1) = Run /\ Run \in Nat \ {0}
  /\ \A k \in Nat : Span(k) \in Nat /\ Span(k + 1) = Span(k) + Run
  /\ \A k, m \in Nat : k <= m => Span(k) <= Span(m)
<1>1. Run \in Nat \ {0}
  BY Sizes
<1>2. ASSUME NEW k \in Nat PROVE Span(k) \in Nat /\ Span(k + 1) = Span(k) + Run
  BY <1>1 DEF Span
<1>3. ASSUME NEW k \in Nat, NEW m \in Nat, k <= m PROVE Span(k) <= Span(m)
  BY <1>1, <1>3 DEF Span
<1>4. Span(0) = 0 /\ Span(1) = Run
  BY <1>1 DEF Span
<1>5. QED
  BY <1>1, <1>2, <1>3, <1>4

LEMMA AtByte ==
  ASSUME Given, NEW at \in Nat, at < Len(stream)
  PROVE  At(at) \in Byte /\ At(at) \in 0..255 /\ At(at) \in Nat
<1>1. at + 1 \in 1..Len(stream)
  BY DEF Given
<1>2. At(at) \in Byte
  BY <1>1 DEF Given, At
<1>3. At(at) \in Nat
  BY <1>2, Bytes
<1>4. QED
  BY <1>2, <1>3 DEF Byte

\* An extension ends with the first byte that is not zero, or there is none.
LEMMA ExtensionRuns ==
  ASSUME Given, NEW at \in Nat, NEW total \in Nat, at <= Len(stream)
  PROVE  \/ /\ ~Extension(at, total).ok
            /\ Zeros(at, Len(stream))
         \/ \E c \in at..(Len(stream) - 1) :
              /\ Zeros(at, c) /\ At(c) # 0
              /\ Extension(at, total) = Number(c + 1, total + Span(c - at) + At(c))
<1> DEFINE l == Len(stream)
           ends == {j \in at..(l - 1) : At(j) # 0}
<1>1. l \in Nat
  BY DEF Given
<1>2. CASE ends = {}
  <2>1. Extension(at, total) = Truncated(l)
    BY <1>2 DEF Extension
  <2>2. Zeros(at, l)
    BY <1>2 DEF Zeros
  <2>3. QED
    BY <2>1, <2>2 DEF Truncated
<1>3. CASE ends # {}
  <2>1. ends \in SUBSET Nat
    BY <1>1
  <2>2. \E c \in ends : \A j \in ends : c <= j
    BY <1>3, <2>1, LeastMember
  <2> DEFINE c == Min(ends)
  <2>3. c \in ends /\ \A j \in ends : c <= j
    BY <2>2 DEF Min
  <2>4. Extension(at, total) = Number(c + 1, total + Span(c - at) + At(c))
    BY <1>3 DEF Extension, Span
  <2> HIDE DEF c
  <2>5. c \in at..(l - 1) /\ At(c) # 0
    BY <2>3
  <2>6. Zeros(at, c)
    <3>1. SUFFICES ASSUME NEW j \in at..(c - 1), At(j) # 0 PROVE FALSE
      BY DEF Zeros
    <3>2. j \in ends /\ ~(c <= j)
      BY <1>1, <2>5, <3>1
    <3>3. QED
      BY <2>3, <3>2
  <2>7. QED
    BY <2>4, <2>5, <2>6
<1>4. QED
  BY <1>2, <1>3

\* After zero bytes up to c, an extension is at least so long; it is that long
\* and ends there when c has another byte; and there is none at the end.
LEMMA ExtensionAfter ==
  ASSUME Given, NEW at \in Nat, NEW total \in Nat,
         NEW c \in at..Len(stream), Zeros(at, c)
  PROVE  /\ c < Len(stream) /\ At(c) # 0 =>
              Extension(at, total) = Number(c + 1, total + Span(c - at) + At(c))
         /\ c = Len(stream) => ~Extension(at, total).ok
         /\ Extension(at, total).ok => Extension(at, total).value >= total + Span(c - at)
<1> DEFINE l == Len(stream)
<1>1. l \in Nat /\ at <= l /\ c \in Nat
  BY DEF Given
<1>2. CASE ~Extension(at, total).ok /\ Zeros(at, l)
  <2>1. c < l => At(c) = 0
    BY <1>1, <1>2 DEF Zeros
  <2>2. QED
    BY <1>2, <2>1
<1>3. ASSUME NEW e \in at..(l - 1), Zeros(at, e), At(e) # 0,
             Extension(at, total) = Number(e + 1, total + Span(e - at) + At(e))
      PROVE  /\ c < l /\ At(c) # 0 =>
                  Extension(at, total) = Number(c + 1, total + Span(c - at) + At(c))
             /\ c = l => ~Extension(at, total).ok
             /\ Extension(at, total).value >= total + Span(c - at)
  <2>1. c <= e
    <3>1. SUFFICES ASSUME c > e PROVE FALSE
      BY <1>1, <1>3
    <3>2. e \in at..(c - 1)
      BY <1>1, <1>3, <3>1
    <3>3. QED
      BY <1>3, <3>2 DEF Zeros
  <2>2. c < l /\ At(c) # 0 => c = e
    <3>1. SUFFICES ASSUME c < e, At(c) # 0 PROVE FALSE
      BY <1>1, <1>3, <2>1
    <3>2. c \in at..(e - 1)
      BY <1>1, <1>3, <3>1
    <3>3. QED
      BY <1>3, <3>1, <3>2 DEF Zeros
  <2>3. c # l
    BY <1>1, <1>3, <2>1
  <2>4. Extension(at, total).value >= total + Span(c - at)
    <3>1. e - at \in Nat /\ c - at \in Nat /\ c - at <= e - at
      BY <1>1, <1>3, <2>1
    <3>2. Span(c - at) <= Span(e - at) /\ Span(c - at) \in Nat /\ Span(e - at) \in Nat
      BY <3>1, SpanFacts
    <3>3. Extension(at, total).value = total + Span(e - at) + At(e)
      BY <1>3 DEF Number
    <3>4. At(e) \in Nat
      <4>1. e \in Nat /\ e < Len(stream)
        BY <1>1, <1>3
      <4>2. QED
        BY <4>1, AtByte
    <3> DEFINE p == Span(c - at)
               q == Span(e - at)
               b == At(e)
    <3>5. p <= q /\ p \in Nat /\ q \in Nat
      BY <3>2
    <3>8. Extension(at, total).value = total + q + b
      BY <3>3
    <3>9. b \in Nat
      BY <3>4
    <3> HIDE DEF p, q, b
    <3>6. Extension(at, total).value >= total + p
      BY <3>5, <3>8, <3>9
    <3>7. QED
      BY <3>6 DEF p
  <2>5. QED
    BY <1>3, <2>2, <2>3, <2>4
<1>4. QED
  BY <1>1, <1>2, <1>3, ExtensionRuns

\* A number read is a number, from bytes that are there.
Read(number, at) ==
  /\ number.ok \in BOOLEAN
  /\ number.ok => number.at \in at..Len(stream) /\ number.value \in Nat

LEMMA ExtensionRead ==
  ASSUME Given, NEW at \in Nat, NEW total \in Nat, at <= Len(stream), NEW n \in Nat
  PROVE  /\ Read(Extension(at, total), at)
         /\ Read(Plus(Extension(at, total), n), at)
         /\ Plus(Extension(at, total), n).ok = Extension(at, total).ok
         /\ Extension(at, total).ok =>
              /\ Plus(Extension(at, total), n).value = Extension(at, total).value + n
              /\ Plus(Extension(at, total), n).at = Extension(at, total).at
<1> DEFINE x == Extension(at, total)
           y == Plus(x, n)
<1>1. Len(stream) \in Nat
  BY DEF Given
<1>2. Read(x, at) /\ \/ x = Truncated(Len(stream))
                     \/ \E p \in Nat, v \in Nat : x = Number(p, v)
  <2>1. CASE {j \in at..(Len(stream) - 1) : At(j) # 0} = {}
    BY <2>1 DEF Extension, Truncated, Read
  <2>2. ASSUME NEW c \in at..(Len(stream) - 1), At(c) # 0, x = Number(c + 1, total + Span(c - at) + At(c))
        PROVE  Read(x, at) /\ \E p \in Nat, v \in Nat : x = Number(p, v)
    <3>1. At(c) \in 0..255 /\ c + 1 \in at..Len(stream) /\ c - at \in Nat /\ c + 1 \in Nat
      <4>1. c \in Nat /\ c < Len(stream) /\ c + 1 \in at..Len(stream) /\ c - at \in Nat
        BY <1>1, <2>2
      <4>2. QED
        BY <4>1, AtByte
    <3>2. total + Span(c - at) + At(c) \in Nat
      <4>1. Span(c - at) \in Nat
        BY <3>1, SpanFacts
      <4>2. At(c) \in Nat
        BY <2>2, AtByte
      <4>3. QED
        BY <4>1, <4>2
    <3> HIDE DEF x
    <3>3. x.ok = TRUE /\ x.at = c + 1 /\ x.value = total + Span(c - at) + At(c)
      BY <2>2 DEF Number
    <3>4. QED
      BY <2>2, <3>1, <3>2, <3>3 DEF Read
  <2>3. ~x.ok => {j \in at..(Len(stream) - 1) : At(j) # 0} = {}
    <3>1. SUFFICES ASSUME {j \in at..(Len(stream) - 1) : At(j) # 0} # {} PROVE x.ok
      OBVIOUS
    <3>2. QED
      BY <3>1 DEF Extension, Number
  <2>4. QED
    BY <1>1, <2>1, <2>2, <2>3, ExtensionRuns DEF Extension
<1> HIDE DEF x
<1>3. /\ y.ok = x.ok
      /\ x.ok => y.value = x.value + n /\ y.at = x.at
  BY <1>2 DEF Plus, Truncated, Number
<1>4. Read(y, at)
  BY <1>2, <1>3 DEF Read
<1>5. QED
  BY <1>2, <1>3, <1>4 DEF x, y

LEMMA LiteralLengthRead ==
  ASSUME Given, NEW at \in Nat, at <= Len(stream)
  PROVE  /\ Read(LiteralLength(at), at)
         /\ at = Len(stream) => ~LiteralLength(at).ok
<1>1. Len(stream) \in Nat
  BY DEF Given
<1>2. CASE at = Len(stream)
  <2>1. LiteralLength(at) = Truncated(at)
    BY <1>1, <1>2 DEF LiteralLength, There
  <2>2. QED
    BY <2>1 DEF Read, Truncated
<1>3. CASE at < Len(stream)
  <2>1. At(at) \in Byte /\ At(at) \in Nat
    BY <1>3, AtByte
  <2>2. CASE At(at) = 0
    <3>1. at + 1 \in Nat /\ at + 1 <= Len(stream) /\ Lead \in Nat /\ 3 \in Nat
      BY <1>1, <1>3, Sizes
    <3>2. Read(Plus(Extension(at + 1, Lead), 3), at + 1)
      BY <3>1, ExtensionRead
    <3>3. LiteralLength(at) = Plus(Extension(at + 1, Lead), 3)
      BY <1>3, <2>2 DEF LiteralLength, There
    <3>4. QED
      BY <1>1, <1>3, <3>2, <3>3 DEF Read
  <2>3. CASE At(at) >= 16
    <3>1. LiteralLength(at) = Number(at, 0)
      BY <1>3, <2>3 DEF LiteralLength, There
    <3>2. QED
      BY <1>1, <1>3, <3>1 DEF Read, Number
  <2>4. CASE At(at) # 0 /\ At(at) < 16
    <3> DEFINE b == At(at)
    <3>1. LiteralLength(at) = Number(at + 1, b + 3)
      BY <1>3, <2>1, <2>4 DEF LiteralLength, There
    <3>2. b + 3 \in Nat
      BY <2>1
    <3> HIDE DEF b
    <3>3. QED
      BY <1>1, <1>3, <3>1, <3>2 DEF Read, Number
  <2>5. QED
    BY <2>1, <2>2, <2>3, <2>4
<1>4. QED
  BY <1>1, <1>2, <1>3

\* What the count of an extended copy starts from.
Base(op) == IF op = 24 THEN 9 ELSE LongBase(op)

\* The length of a copy, by the kinds the decoder tells apart.
LEMMA LengthKinds ==
  ASSUME NEW op \in Byte, op >= 16, op # 17, NEW at
  PROVE  /\ op \in {16, 24, 32} =>
              LengthOf(op, at) = Plus(Extension(at, 0), Base(op)) /\ Base(op) \in {9, 33}
         /\ op \in 18..63 \ {24, 32} =>
              /\ LengthOf(op, at) = Number(at, CountBits(op) + 2)
              /\ CountBits(op) \in 1..31 /\ CountBits(op) > 0
         /\ op >= 64 => LengthOf(op, at) = Number(at, (op \div 16) - 1) /\ (op \div 16) - 1 \in Nat
<1>1. op \in 16..255
  BY DEF Byte
<1>2. CASE op \in {16, 32}
  BY <1>2 DEF LengthOf, Base, LongBase
<1>3. CASE op = 24
  <2>1. CountBits(24) = 0
    BY DEF CountBits
  <2>2. LengthOf(op, at) = CopyLength(24, at, 7)
    BY <1>3 DEF LengthOf
  <2>3. QED
    BY <1>3, <2>1, <2>2 DEF CopyLength, Base
<1>4. CASE op \in 18..63 \ {24, 32}
  <2>1. CountBits(op) \in 1..31 /\ CountBits(op) > 0
    BY <1>4 DEF CountBits
  <2>2. \A bits : CopyLength(op, at, bits) = Number(at, CountBits(op) + 2)
    BY <2>1 DEF CopyLength
  <2>3. LengthOf(op, at) \in {CopyLength(op, at, 7), CopyLength(op, at, 31)}
    BY <1>4 DEF LengthOf
  <2>4. QED
    BY <1>4, <2>1, <2>2, <2>3
<1>5. CASE op >= 64
  <2>1. op \div 16 \in 4..15
    BY <1>1, <1>5
  <2>2. LengthOf(op, at) = Number(at, (op \div 16) - 1)
    BY <1>1, <1>5 DEF LengthOf
  <2>3. QED
    BY <1>1, <1>5, <2>1, <2>2
<1>6. QED
  BY <1>1, <1>2, <1>3, <1>4, <1>5

LEMMA LengthRead ==
  ASSUME Given, NEW op \in Byte, op >= 16, op # 17, NEW at \in Nat, at <= Len(stream)
  PROVE  Read(LengthOf(op, at), at)
<1>1. op \in 16..255 /\ Len(stream) \in Nat
  BY DEF Byte, Given
<1>2. CASE op \in {16, 24, 32}
  <2>1. LengthOf(op, at) = Plus(Extension(at, 0), Base(op)) /\ Base(op) \in {9, 33}
    BY <1>2, LengthKinds
  <2>2. Base(op) \in Nat /\ 0 \in Nat
    BY <2>1
  <2>3. Read(Plus(Extension(at, 0), Base(op)), at)
    BY <2>2, ExtensionRead
  <2>4. QED
    BY <2>1, <2>3
<1>3. CASE op \in 18..63 \ {24, 32}
  <2> DEFINE n == CountBits(op) + 2
  <2>1. LengthOf(op, at) = Number(at, n) /\ n \in Nat
    <3>1. LengthOf(op, at) = Number(at, n) /\ CountBits(op) \in 1..31
      BY <1>3, LengthKinds
    <3> DEFINE c == CountBits(op)
    <3>2. LengthOf(op, at) = Number(at, n) /\ n = c + 2 /\ c \in 1..31
      BY <3>1
    <3> HIDE DEF c, n
    <3>3. QED
      BY <3>2
  <2> HIDE DEF n
  <2>2. QED
    BY <1>1, <2>1 DEF Number, Read
<1>4. CASE op >= 64
  <2> DEFINE n == (op \div 16) - 1
  <2>1. LengthOf(op, at) = Number(at, n) /\ n \in Nat
    BY <1>4, LengthKinds
  <2> HIDE DEF n
  <2>2. QED
    BY <1>1, <2>1 DEF Number, Read
<1>5. QED
  BY <1>1, <1>2, <1>3, <1>4

\* The offset is the one the decoder makes of the same bytes.
LEMMA OffsetRead ==
  ASSUME Given, NEW op \in Byte, op >= 16, op # 17, NEW at \in Nat
  PROVE  /\ Offset(op, at).ok \in BOOLEAN /\ Offset(op, at).lit \in 0..3
         /\ Offset(op, at).ok =>
              /\ Offset(op, at).at \in Nat /\ Offset(op, at).at > at
              /\ Offset(op, at).at <= Len(stream)
              /\ Offset(op, at).far \in 1..(Window - 1)
         /\ op >= 64 =>
              /\ Offset(op, at).ok <=> at < Len(stream)
              /\ Offset(op, at).at = at + 1 /\ Offset(op, at).lit = op % 4
              /\ at < Len(stream) =>
                   Offset(op, at).far = ((At(at) * 4 + (op % 16) \div 4) % Far) + 1
         /\ op < 64 =>
              /\ Offset(op, at).ok <=> at + 1 < Len(stream)
              /\ Offset(op, at).at = at + 2
              /\ at < Len(stream) => Offset(op, at).lit = At(at) % 4
              /\ at + 1 < Len(stream) =>
                   Offset(op, at).far = Distance(op, (At(at) \div 4) + At(at + 1) * 64)
<1>1. op \in 16..255 /\ Len(stream) \in Nat /\ Far \in Nat \ {0} /\ Window = 3 * Far
  BY Sizes DEF Byte, Given
<1> DEFINE o == Offset(op, at)
<1>2. CASE op >= 64
  <2> DEFINE far == ((At(at) * 4 + (op % 16) \div 4) % Far) + 1
  <2>1. o = [ok |-> There(at), at |-> at + 1, lit |-> op % 4,
             far |-> IF There(at) THEN far ELSE 0]
    BY <1>2 DEF Offset
  <2>2. There(at) <=> at < Len(stream)
    BY DEF There
  <2>3. at < Len(stream) => far \in 1..(Window - 1)
    <3>1. SUFFICES ASSUME at < Len(stream) PROVE far \in 1..(Window - 1)
      OBVIOUS
    <3>2. At(at) \in Nat /\ (op % 16) \div 4 \in Nat
      BY <1>1, <3>1, AtByte
    <3>3. At(at) * 4 + (op % 16) \div 4 \in Nat
      BY <3>2
    <3>4. (At(at) * 4 + (op % 16) \div 4) % Far \in 0..(Far - 1)
      BY <1>1, <3>3, Remainder
    <3>5. QED
      BY <1>1, <3>4
  <2>4. op % 4 \in 0..3
    BY <1>1
  <2> HIDE DEF far
  <2>5. o.ok \in BOOLEAN
    BY <2>1 DEF There
  <2> HIDE DEF o
  <2>6. /\ o.ok <=> at < Len(stream)
        /\ o.at = at + 1 /\ o.lit = op % 4 /\ (at < Len(stream) => o.far = far)
    BY <2>1, <2>2
  <2>7. QED
    BY <1>1, <1>2, <2>3, <2>4, <2>5, <2>6 DEF far, o
<1>3. CASE op < 64
  <2> DEFINE field == (At(at) \div 4) + At(at + 1) * 64
             near == field % Far
             far == IF op < 32 THEN near + Far + (IF op \in 24..31 THEN Far ELSE 0)
                    ELSE near + 1
  <2>1. o = [ok |-> There(at + 1), at |-> at + 2, lit |-> IF There(at) THEN At(at) % 4 ELSE 0,
             far |-> IF ~There(at + 1) THEN 0 ELSE far]
    BY <1>1, <1>3 DEF Offset
  <2>2. /\ There(at) <=> at < Len(stream)
        /\ There(at + 1) <=> at + 1 < Len(stream)
    BY DEF There
  <2>3. at < Len(stream) => At(at) % 4 \in 0..3
    BY AtByte
  <2>4. at + 1 < Len(stream) => far = Distance(op, field)
    <3>1. SUFFICES ASSUME at + 1 < Len(stream) PROVE far = Distance(op, field)
      OBVIOUS
    <3>2. at + 1 \in Nat /\ at < Len(stream)
      BY <1>1, <3>1
    <3>3. At(at) \in 0..255 /\ At(at + 1) \in Nat
      BY <3>1, <3>2, AtByte
    <3>4. field \in Nat
      BY <3>3
    <3>5. near \in 0..(Far - 1)
      BY <1>1, <3>4, Remainder
    <3>6. op \in 18..31 => (op % 16 >= 8 <=> op \in 24..31)
      BY <1>1
    <3> DEFINE high == op % 16 >= 8
               d == Distance(op, field)
    <3> HIDE DEF field, near
    <3>7. near \in Nat /\ Distance(op, field) =
            CASE op = 16       -> near + Far
              [] op \in 18..31 -> near + (IF op % 16 >= 8 THEN Far ELSE 0) + Far
              [] OTHER         -> near + 1
      BY <3>5 DEF Distance, near
    <3>8. CASE op = 16
      BY <3>7, <3>8, Sizes
    <3>9. CASE op \in 18..31
      <4>1. high <=> op \in 24..31
        BY <3>6, <3>9
      <4>2. Distance(op, field) = near + (IF high THEN Far ELSE 0) + Far
        BY <3>7, <3>9
      <4>3. d = near + (IF high THEN Far ELSE 0) + Far /\ near \in Nat
        BY <3>7, <4>2
      <4> HIDE DEF high, d
      <4>4. far = d
        BY <1>1, <3>9, <4>1, <4>3
      <4>5. QED
        BY <4>4 DEF d
    <3>10. CASE op \in 32..63
      BY <3>7, <3>10
    <3>11. QED
      BY <1>1, <1>3, <3>8, <3>9, <3>10
  <2>5. at + 1 < Len(stream) => far \in 1..(Window - 1)
    <3>1. SUFFICES ASSUME at + 1 < Len(stream) PROVE far \in 1..(Window - 1)
      OBVIOUS
    <3>2. at + 1 \in Nat /\ at < Len(stream)
      BY <1>1, <3>1
    <3>3. At(at) \in 0..255 /\ At(at + 1) \in Nat
      BY <3>1, <3>2, AtByte
    <3>4. field \in Nat
      BY <3>3
    <3> HIDE DEF field, far
    <3>5. QED
      BY <2>4, <3>1, <3>4, DistanceRange
  <2>6. o.ok \in BOOLEAN
    BY <2>1 DEF There
  <2> HIDE DEF field, far, o
  <2>7. /\ o.ok <=> at + 1 < Len(stream)
        /\ o.at = at + 2 /\ o.lit = (IF at < Len(stream) THEN At(at) % 4 ELSE 0)
        /\ at + 1 < Len(stream) => o.far = far
    BY <2>1, <2>2
  <2>8. QED
    BY <1>1, <1>3, <2>3, <2>4, <2>5, <2>6, <2>7 DEF o, field
<1>4. QED
  BY <1>1, <1>2, <1>3

----------------------------------------------------------------------------
(* Results: the bytes read and the output only grow, until one is final. *)

IsResult(r) ==
  /\ r.status \in {"goes", "done", "refused"}
  /\ r.at \in 0..Len(stream)
  /\ r.out \in Seq(Byte)
  /\ r.status = "goes" => Len(r.out) <= limit

LEMMA SliceFacts ==
  ASSUME Given, NEW at \in Nat, NEW k \in Nat, at + k <= Len(stream)
  PROVE  /\ SubSeq(stream, at + 1, at + k) \in Seq(Byte)
         /\ Len(SubSeq(stream, at + 1, at + k)) = k
         /\ \A i \in 1..k : SubSeq(stream, at + 1, at + k)[i] = stream[at + i]
<1> DEFINE t == SubSeq(stream, at + 1, at + k)
<1>1. stream \in Seq(Byte) /\ Len(stream) \in Nat
  BY DEF Given
<1>2. t \in Seq(Byte) /\ Len(t) = k
  BY <1>1
<1>3. ASSUME NEW i \in 1..k PROVE t[i] = stream[at + i]
  <2>1. t[i] = stream[at + 1 + i - 1] /\ at + 1 + i - 1 = at + i
    BY <1>1, <1>2
  <2>2. QED
    BY <2>1
<1>4. QED
  BY <1>2, <1>3

\* The literals given out so far are a prefix of all of them.
LEMMA SlicesGrow ==
  ASSUME Given, NEW at \in Nat, NEW k \in Nat, NEW m \in Nat, k <= m, at + m <= Len(stream),
         NEW done \in Seq(Byte)
  PROVE  /\ done \o SubSeq(stream, at + 1, at + k) \in Seq(Byte)
         /\ Len(done \o SubSeq(stream, at + 1, at + k)) = Len(done) + k
         /\ IsPrefix(done \o SubSeq(stream, at + 1, at + k), done \o SubSeq(stream, at + 1, at + m))
<1> DEFINE s == SubSeq(stream, at + 1, at + k)
           t == SubSeq(stream, at + 1, at + m)
           u == done \o s
           v == done \o t
<1>1. Len(stream) \in Nat /\ at + k <= Len(stream)
  BY DEF Given
<1>2. /\ s \in Seq(Byte) /\ Len(s) = k /\ \A i \in 1..k : s[i] = stream[at + i]
      /\ t \in Seq(Byte) /\ Len(t) = m /\ \A i \in 1..m : t[i] = stream[at + i]
  BY <1>1, SliceFacts
<1> HIDE DEF s, t
<1>3. \A a, b \in Seq(Byte) :
        /\ a \o b \in Seq(Byte) /\ Len(a \o b) = Len(a) + Len(b)
        /\ \A i \in 1..Len(a) : (a \o b)[i] = a[i]
        /\ \A i \in 1..Len(b) : (a \o b)[Len(a) + i] = b[i]
  OBVIOUS
<1>4. /\ u \in Seq(Byte) /\ Len(u) = Len(done) + k
      /\ v \in Seq(Byte) /\ Len(v) = Len(done) + m
      /\ \A i \in 1..Len(done) : u[i] = done[i] /\ v[i] = done[i]
      /\ \A i \in 1..k : u[Len(done) + i] = s[i]
      /\ \A i \in 1..m : v[Len(done) + i] = t[i]
  BY <1>2, <1>3
<1> HIDE DEF u, v
<1> DEFINE l == Len(done)
<1>5. l \in Nat
  OBVIOUS
<1>6. ASSUME NEW i \in 1..(l + k) PROVE u[i] = v[i]
  <2> HIDE DEF l
  <2>1. CASE i \in 1..l
    BY <1>4, <2>1 DEF l
  <2>2. CASE i > l
    <3>1. i - l \in 1..k /\ i - l \in 1..m /\ l + (i - l) = i
      BY <1>5, <2>2
    <3>2. u[l + (i - l)] = s[i - l] /\ v[l + (i - l)] = t[i - l] /\ s[i - l] = t[i - l]
      BY <1>2, <1>4, <3>1 DEF l
    <3>3. QED
      BY <3>1, <3>2
  <2>3. QED
    BY <1>5, <2>1, <2>2
<1>7. IsPrefix(u, v)
  <2>1. Len(u) <= Len(v) /\ \A i \in 1..Len(u) : u[i] = v[i]
    BY <1>4, <1>5, <1>6
  <2>2. QED
    BY <1>4, <2>1, PrefixByByte
<1>8. QED
  BY <1>4, <1>7 DEF u, v, s, t

LEMMA LiteralsResult ==
  ASSUME Given, NEW at \in Nat, at <= Len(stream), NEW n \in Nat, NEW done \in Seq(Byte)
  PROVE  /\ IsResult(Literals(at, n, done))
         /\ IsPrefix(done, Literals(at, n, done).out)
         /\ Literals(at, n, done).at >= at
         /\ Len(done) + n > limit => Literals(at, n, done) = Refused(at, done)
         /\ at + n > Len(stream) => Literals(at, n, done).status = "refused"
         /\ Len(done) + n <= limit /\ at + n <= Len(stream) =>
              Literals(at, n, done) = Result("goes", at + n, done \o SubSeq(stream, at + 1, at + n))
         /\ \A k \in 0..n : Len(done) + n <= limit /\ at + k <= Len(stream) =>
              IsPrefix(done \o SubSeq(stream, at + 1, at + k), Literals(at, n, done).out)
<1> DEFINE l == Len(stream)
           here == Least(n, l - at)
           x == Literals(at, n, done)
           all == done \o SubSeq(stream, at + 1, at + here)
<1>1. l \in Nat /\ limit \in Nat /\ Len(done) \in Nat
  BY DEF Given
<1>2. CASE Len(done) + n > limit
  <2>1. x = Refused(at, done)
    BY <1>2 DEF Literals
  <2>2. IsResult(x)
    BY <1>1, <2>1 DEF IsResult, Refused, Result
  <2>3. IsPrefix(done, x.out) /\ x.at >= at /\ x.status = "refused"
    BY <2>1, PrefixOrder DEF Refused, Result
  <2> HIDE DEF x
  <2>4. QED
    BY <1>1, <1>2, <2>1, <2>2, <2>3 DEF x
<1>3. CASE Len(done) + n <= limit
  <2>1. x = Result(IF here = n THEN "goes" ELSE "refused", at + here, all)
    BY <1>1, <1>3 DEF Literals
  <2>2. here \in Nat /\ here <= n /\ at + here <= l
        /\ (here = n <=> at + n <= l)
        /\ \A k \in 0..n : at + k <= l => k <= here
    BY <1>1 DEF Least
  <2> HIDE DEF here, l
  <2>3. all \in Seq(Byte) /\ Len(all) = Len(done) + here
    <3>1. here \in Nat /\ here <= here /\ at + here <= Len(stream)
      BY <2>2 DEF l
    <3>2. QED
      BY <3>1, SlicesGrow
  <2>4. \A k \in 0..n : at + k <= l =>
          IsPrefix(done \o SubSeq(stream, at + 1, at + k), all)
    <3>1. SUFFICES ASSUME NEW k \in 0..n, at + k <= l
                   PROVE  IsPrefix(done \o SubSeq(stream, at + 1, at + k), all)
      OBVIOUS
    <3>2. k \in Nat /\ k <= here
      BY <2>2, <3>1
    <3>3. QED
      BY <2>2, <3>2, SlicesGrow DEF l
  <2>5. IsPrefix(done, all)
    <3>1. SubSeq(stream, at + 1, at + here) \in Seq(Byte)
      BY <2>2, SliceFacts DEF l
    <3>2. QED
      BY <3>1, PrefixOrder
  <2> HIDE DEF all, x
  <2>6. x.out = all /\ x.at = at + here /\ x.status = IF here = n THEN "goes" ELSE "refused"
    BY <2>1 DEF Result
  <2>7. IsResult(x)
    BY <1>1, <1>3, <2>2, <2>3, <2>6 DEF IsResult, l
  <2>8. here = n => x = Result("goes", at + n, done \o SubSeq(stream, at + 1, at + n))
    BY <2>1 DEF all
  <2>9. QED
    BY <1>1, <1>3, <2>2, <2>4, <2>5, <2>6, <2>7, <2>8 DEF x, l
<1>4. QED
  BY <1>1, <1>2, <1>3

----------------------------------------------------------------------------
(* One opcode of `decompress`. *)

\* An opcode with a copy is next; the length of the copy, and its offset.
HasCopy(r)  == r.at < Len(stream) /\ At(r.at) >= 16 /\ At(r.at) # 17
LengthAt(r) == LengthOf(At(r.at), r.at + 1)
OffsetAt(r) == Offset(At(r.at), LengthAt(r).at)

\* The copy is taken; all it gives.
CopyTaken(r) ==
  /\ LengthAt(r).ok /\ OffsetAt(r).ok
  /\ Len(r.out) + LengthAt(r).value <= limit
  /\ OffsetAt(r).far <= Len(r.out)
AllCopied(r) == CopyBytes(r.out, OffsetAt(r).far, LengthAt(r).value)

LEMMA OffsetThere == ASSUME NEW op, NEW at PROVE Offset(op, at).ok \in BOOLEAN
<1>1. CASE op >= 64
  BY <1>1 DEF Offset, There
<1>2. CASE ~(op >= 64)
  BY <1>2 DEF Offset, There
<1>3. QED
  BY <1>1, <1>2

LEMMA OpcodeParts ==
  ASSUME Given, NEW r, IsResult(r), HasCopy(r)
  PROVE  /\ At(r.at) \in Byte /\ r.at + 1 \in Nat /\ r.at + 1 <= Len(stream)
         /\ LengthAt(r).ok \in BOOLEAN /\ OffsetAt(r).ok \in BOOLEAN
         /\ LengthAt(r).ok =>
              /\ LengthAt(r).at \in (r.at + 1)..Len(stream)
              /\ LengthAt(r).value \in Nat
              /\ OffsetAt(r).lit \in 0..3
              /\ OffsetAt(r).ok => /\ OffsetAt(r).at \in (r.at + 2)..Len(stream)
                                   /\ OffsetAt(r).far \in 1..(Window - 1)
<1>1. Len(stream) \in Nat /\ r.at \in Nat /\ r.at < Len(stream)
  BY DEF Given, IsResult, HasCopy
<1>2. At(r.at) \in Byte /\ r.at + 1 \in Nat /\ r.at + 1 <= Len(stream)
  BY <1>1, AtByte
<1>3. Read(LengthAt(r), r.at + 1)
  BY <1>2, LengthRead DEF HasCopy, LengthAt
<1>4. OffsetAt(r).ok \in BOOLEAN
  BY OffsetThere DEF OffsetAt
<1>5. ASSUME LengthAt(r).ok
      PROVE  /\ OffsetAt(r).lit \in 0..3
             /\ OffsetAt(r).ok => /\ OffsetAt(r).at \in (r.at + 2)..Len(stream)
                                  /\ OffsetAt(r).far \in 1..(Window - 1)
  <2> DEFINE at == LengthAt(r).at
             op == At(r.at)
             o == Offset(op, at)
  <2>1. at \in Nat /\ at >= r.at + 1
    BY <1>1, <1>3, <1>5 DEF Read
  <2>2. op \in Byte /\ op >= 16 /\ op # 17
    BY <1>2 DEF HasCopy
  <2> HIDE DEF at, op
  <2>3. /\ o.lit \in 0..3
        /\ o.ok => o.at \in Nat /\ o.at > at /\ o.at <= Len(stream) /\ o.far \in 1..(Window - 1)
    BY <2>1, <2>2, OffsetRead
  <2> HIDE DEF o
  <2>4. o.ok => o.at \in (r.at + 2)..Len(stream)
    BY <1>1, <2>1, <2>3
  <2>5. QED
    BY <2>3, <2>4 DEF OffsetAt, o, at, op
<1>6. QED
  BY <1>2, <1>3, <1>4, <1>5 DEF Read

LEMMA OpcodeOutcome ==
  ASSUME Given, NEW r, IsResult(r), r.status = "goes", HasCopy(r)
  PROVE  /\ ~CopyTaken(r) => OneOpcode(r, limit) = Refused(r.at, r.out)
         /\ CopyTaken(r) /\ OffsetAt(r).lit > 0 =>
              OneOpcode(r, limit) = Literals(OffsetAt(r).at, OffsetAt(r).lit, AllCopied(r))
         /\ CopyTaken(r) /\ ~(OffsetAt(r).lit > 0) =>
              OneOpcode(r, limit) =
                IF LiteralLength(OffsetAt(r).at).ok
                THEN Literals(LiteralLength(OffsetAt(r).at).at, LiteralLength(OffsetAt(r).at).value,
                              AllCopied(r))
                ELSE Refused(r.at, r.out)
<1> DEFINE op == At(r.at)
           lits == IF OffsetAt(r).lit > 0 THEN Number(OffsetAt(r).at, OffsetAt(r).lit)
                   ELSE LiteralLength(OffsetAt(r).at)
           total == Len(r.out) + LengthAt(r).value
           far == OffsetAt(r).far
<1>1. There(r.at) /\ op \in Nat /\ op >= 16 /\ op # 17
  BY OpcodeParts, Bytes DEF There, HasCopy
<1>2. OneOpcode(r, limit) = Copying(r, op, limit)
  BY <1>1 DEF OneOpcode
<1>3. Copying(r, op, limit) =
        IF ~LengthAt(r).ok \/ ~OffsetAt(r).ok \/ ~lits.ok \/ total > limit \/ far > Len(r.out)
        THEN Refused(r.at, r.out)
        ELSE IF LengthAt(r).value > limit THEN Result("tooLong", r.at, r.out)
        ELSE Literals(lits.at, lits.value, AllCopied(r))
  BY DEF Copying, LengthAt, OffsetAt, AllCopied
<1>4. Len(r.out) \in Nat /\ limit \in Nat
  BY DEF Given, IsResult
<1>5. LengthAt(r).ok /\ OffsetAt(r).ok =>
        total \in Nat /\ far \in Nat /\ (total <= limit => ~(LengthAt(r).value > limit))
  <2>1. SUFFICES ASSUME LengthAt(r).ok, OffsetAt(r).ok
                 PROVE  /\ total \in Nat /\ far \in Nat
                        /\ total <= limit => ~(LengthAt(r).value > limit)
    OBVIOUS
  <2> DEFINE v == LengthAt(r).value
  <2>2. v \in Nat
    BY <2>1, OpcodeParts
  <2>3. far \in 1..(Window - 1)
    BY <2>1, OpcodeParts
  <2> HIDE DEF v, far
  <2>4. /\ far \in Nat /\ Len(r.out) + v \in Nat
        /\ Len(r.out) + v <= limit => ~(v > limit)
    BY <1>4, <2>2, <2>3, Sizes
  <2>5. QED
    BY <2>4 DEF v
<1> HIDE DEF op, lits, total, far
<1>6. CopyTaken(r) <=> LengthAt(r).ok /\ OffsetAt(r).ok /\ total <= limit /\ far <= Len(r.out)
  BY DEF CopyTaken, total, far
<1>7. CopyTaken(r) => /\ ~(total > limit) /\ ~(far > Len(r.out))
                      /\ LengthAt(r).ok /\ OffsetAt(r).ok /\ ~(LengthAt(r).value > limit)
  BY <1>4, <1>5, <1>6
<1>8. ~CopyTaken(r) => OneOpcode(r, limit) = Refused(r.at, r.out)
  BY <1>2, <1>3, <1>4, <1>5, <1>6
<1>9. ASSUME CopyTaken(r)
      PROVE  OneOpcode(r, limit) = IF lits.ok THEN Literals(lits.at, lits.value, AllCopied(r))
                            ELSE Refused(r.at, r.out)
  BY <1>2, <1>3, <1>7, <1>9
<1>10. OffsetAt(r).lit > 0 =>
         lits.ok /\ lits.at = OffsetAt(r).at /\ lits.value = OffsetAt(r).lit
  BY DEF lits, Number
<1>11. ~(OffsetAt(r).lit > 0) => lits = LiteralLength(OffsetAt(r).at)
  BY DEF lits
<1>12. QED
  BY <1>8, <1>9, <1>10, <1>11

LEMMA CopiedBytes ==
  ASSUME Given, NEW r, IsResult(r), HasCopy(r), CopyTaken(r)
  PROVE  /\ AllCopied(r) \in Seq(Byte)
         /\ Len(AllCopied(r)) = Len(r.out) + LengthAt(r).value
         /\ IsPrefix(r.out, AllCopied(r))
         /\ \A i \in (Len(r.out) + 1)..Len(AllCopied(r)) :
              AllCopied(r)[i] = AllCopied(r)[i - OffsetAt(r).far]
<1> DEFINE n == LengthAt(r).value
           far == OffsetAt(r).far
           all == AllCopied(r)
           done == r.out
<1>1. n \in Nat /\ far \in 1..(Window - 1) /\ far <= Len(done) /\ done \in Seq(Byte)
  BY OpcodeParts DEF CopyTaken, IsResult
<1>2. all = CopyBytes(done, far, n)
  BY DEF AllCopied
<1> HIDE DEF n, far, all, done
<1>3. far \in 1..Len(done) /\ Len(done) \in Nat
  BY <1>1, Sizes
<1>4. /\ all \in Seq(Byte) /\ Len(all) = Len(done) + n
      /\ \A i \in 1..Len(done) : all[i] = done[i]
      /\ \A i \in (Len(done) + 1)..(Len(done) + n) : all[i] = all[i - far]
  BY <1>1, <1>2, <1>3, CopyBytesFacts
<1>5. IsPrefix(done, all)
  BY <1>1, <1>3, <1>4, PrefixByByte
<1>6. QED
  BY <1>4, <1>5 DEF n, far, all, done

LEMMA OpcodeResult ==
  ASSUME Given, NEW r, IsResult(r), r.status = "goes"
  PROVE  /\ IsResult(OneOpcode(r, limit))
         /\ IsPrefix(r.out, OneOpcode(r, limit).out)
         /\ OneOpcode(r, limit).status = "goes" => OneOpcode(r, limit).at > r.at
<1> DEFINE x == OneOpcode(r, limit)
<1>1. /\ Len(stream) \in Nat /\ r.at \in Nat /\ r.at <= Len(stream)
      /\ r.out \in Seq(Byte) /\ IsPrefix(r.out, r.out) /\ limit \in Nat
  BY PrefixOrder DEF Given, IsResult
<1>2. ASSUME NEW s \in {"done", "refused"}, NEW at \in r.at..Len(stream), x = Result(s, at, r.out)
      PROVE  IsResult(x) /\ IsPrefix(r.out, x.out) /\ x.status # "goes"
  <2> HIDE DEF x
  <2>1. x.status = s /\ x.at = at /\ x.out = r.out
    BY <1>2 DEF Result
  <2>2. QED
    BY <1>1, <1>2, <2>1 DEF IsResult
<1>3. CASE r.at = Len(stream)
  <2>1. x = Refused(r.at, r.out)
    BY <1>1, <1>3 DEF OneOpcode, There
  <2>2. QED
    BY <1>1, <1>2, <2>1 DEF Refused
<1>4. CASE r.at < Len(stream) /\ At(r.at) < 16
  <2>1. x = Refused(r.at, r.out)
    BY <1>1, <1>4 DEF OneOpcode, There
  <2>2. QED
    BY <1>1, <1>2, <2>1 DEF Refused
<1>5. CASE r.at < Len(stream) /\ At(r.at) = 17
  <2>1. x = Result("done", r.at + 1, r.out)
    BY <1>1, <1>5 DEF OneOpcode, There
  <2>2. r.at + 1 \in r.at..Len(stream)
    BY <1>1, <1>5
  <2>3. QED
    BY <1>1, <1>2, <2>1, <2>2
<1>6. CASE HasCopy(r)
  <2>1. CASE x = Refused(r.at, r.out)
    BY <1>1, <1>2, <2>1 DEF Refused
  <2>2. ASSUME CopyTaken(r), NEW at \in Nat, NEW n \in Nat,
               at > r.at, at <= Len(stream), x = Literals(at, n, AllCopied(r))
        PROVE  IsResult(x) /\ IsPrefix(r.out, x.out) /\ x.at > r.at
    <3>1. AllCopied(r) \in Seq(Byte) /\ IsPrefix(r.out, AllCopied(r))
      BY <1>6, <2>2, CopiedBytes
    <3> HIDE DEF x
    <3>2. IsResult(x) /\ IsPrefix(AllCopied(r), x.out) /\ x.at >= at
      BY <2>2, <3>1, LiteralsResult
    <3>3. x.at \in Nat /\ x.out \in Seq(Byte)
      BY <1>1, <3>2 DEF IsResult
    <3>4. x.at > r.at
      BY <1>1, <2>2, <3>2, <3>3
    <3>5. QED
      BY <1>1, <3>1, <3>2, <3>3, <3>4, PrefixOrder
  <2>3. CASE CopyTaken(r)
    <3> DEFINE at == OffsetAt(r).at
               lit == OffsetAt(r).lit
    <3>1. at \in (r.at + 2)..Len(stream) /\ lit \in 0..3
      BY <1>6, <2>3, OpcodeParts DEF CopyTaken
    <3>2. CASE lit > 0
      <4>1. x = Literals(at, lit, AllCopied(r))
        BY <1>6, <2>3, <3>2, OpcodeOutcome
      <4> HIDE DEF at, lit, x
      <4>2. at \in Nat /\ at > r.at /\ at <= Len(stream) /\ lit \in Nat
        BY <1>1, <3>1
      <4>3. QED
        BY <2>2, <2>3, <4>1, <4>2 DEF x
    <3>3. CASE ~(lit > 0) /\ LiteralLength(at).ok
      <4> DEFINE start == LiteralLength(at).at
                 n == LiteralLength(at).value
      <4>1. x = Literals(start, n, AllCopied(r))
        BY <1>6, <2>3, <3>3, OpcodeOutcome
      <4>2. at \in Nat /\ at > r.at /\ at <= Len(stream)
        <5> HIDE DEF at
        <5>1. QED
          BY <1>1, <3>1
      <4> HIDE DEF at, lit, x
      <4>3. start \in at..Len(stream) /\ n \in Nat
        BY <3>3, <4>2, LiteralLengthRead DEF Read
      <4> HIDE DEF start, n
      <4>4. start \in Nat /\ start > r.at /\ start <= Len(stream)
        BY <1>1, <4>2, <4>3
      <4>5. QED
        BY <2>2, <2>3, <4>1, <4>3, <4>4 DEF x
    <3>4. CASE ~(lit > 0) /\ ~LiteralLength(at).ok
      BY <1>6, <2>1, <2>3, <3>4, OpcodeOutcome
    <3>5. QED
      BY <3>2, <3>3, <3>4
  <2>4. CASE ~CopyTaken(r)
    BY <1>6, <2>1, <2>4, OpcodeOutcome
  <2>5. QED
    BY <2>3, <2>4
<1>7. r.at < Len(stream) => At(r.at) \in Nat
  BY <1>1, AtByte
<1>8. r.at = Len(stream) \/ r.at < Len(stream)
  BY <1>1
<1>9. CASE r.at < Len(stream) /\ At(r.at) \in Nat
  BY <1>4, <1>5, <1>6, <1>9 DEF HasCopy
<1>10. QED
  BY <1>3, <1>7, <1>8, <1>9

LEMMA BegunResult == ASSUME Given PROVE IsResult(Begun)
<1> DEFINE lits == LiteralLength(0)
<1>1. <<>> \in Seq(Byte) /\ 0 \in Nat /\ Len(stream) \in Nat /\ 0 <= Len(stream)
  BY DEF Given
<1>2. CASE lits.ok
  <2>1. Begun = Literals(lits.at, lits.value, <<>>)
    BY <1>2 DEF Begun
  <2>2. lits.at \in 0..Len(stream) /\ lits.value \in Nat
    BY <1>1, <1>2, LiteralLengthRead DEF Read
  <2> HIDE DEF lits
  <2>3. lits.at \in Nat /\ lits.at <= Len(stream)
    BY <1>1, <2>2
  <2>4. QED
    BY <1>1, <2>1, <2>2, <2>3, LiteralsResult
<1>3. CASE ~lits.ok
  <2>1. Begun = Refused(0, <<>>)
    BY <1>3 DEF Begun
  <2>2. QED
    BY <1>1, <2>1 DEF Refused, Result, IsResult
<1>4. QED
  BY <1>2, <1>3

\* Each opcode takes a byte at least.
LEMMA AfterResult ==
  ASSUME Given, NEW n \in Nat
  PROVE  IsResult(Full[n]) /\ (Full[n].status = "goes" => Full[n].at >= n)
<1> DEFINE T == {m \in Nat : IsResult(Full[m]) /\ (Full[m].status = "goes" => Full[m].at >= m)}
<1>1. 0 \in T
  <2>1. IsResult(Full[0])
    BY AfterSteps, BegunResult
  <2>2. QED
    BY <2>1 DEF IsResult
<1>2. ASSUME NEW m \in T PROVE m + 1 \in T
  <2> DEFINE r == Full[m]
             x == Full[m + 1]
  <2>1. m \in Nat /\ m + 1 \in Nat /\ IsResult(r) /\ (r.status = "goes" => r.at >= m)
        /\ x = OneOpcode(r, limit)
    BY <1>2, AfterSteps
  <2> HIDE DEF r, x
  <2>2. CASE r.status = "goes"
    <3>1. IsResult(x) /\ (x.status = "goes" => x.at > r.at)
      BY <2>1, <2>2, OpcodeResult
    <3>2. r.at \in Nat /\ x.at \in Nat
      BY <2>1, <3>1 DEF IsResult
    <3>3. x.status = "goes" => x.at >= m + 1
      BY <2>1, <2>2, <3>1, <3>2
    <3>4. QED
      BY <2>1, <3>1, <3>3 DEF x
  <2>3. CASE r.status # "goes"
    <3>1. x = r
      BY <2>1, <2>3 DEF OneOpcode
    <3>2. QED
      BY <2>1, <2>3, <3>1 DEF x
  <2>4. QED
    BY <2>2, <2>3
<1> HIDE DEF T
<1>3. T = Nat
  <2>1. T \in SUBSET Nat
    BY DEF T
  <2>2. QED
    BY <1>1, <1>2, <2>1, SetInduction
<1>4. QED
  BY <1>3 DEF T

\* The output only grows; a final result stays.
LEMMA AfterGrows ==
  ASSUME Given, NEW n \in Nat, NEW k \in Nat
  PROVE  /\ IsPrefix(Full[n].out, Full[n + k].out)
         /\ Full[n].status # "goes" => Full[n + k] = Full[n]
<1> DEFINE T == {m \in Nat : /\ IsPrefix(Full[n].out, Full[n + m].out)
                             /\ Full[n].status # "goes" => Full[n + m] = Full[n]}
<1>1. 0 \in T
  <2>1. IsResult(Full[n]) /\ n + 0 = n
    BY AfterResult
  <2>2. IsPrefix(Full[n].out, Full[n].out)
    BY <2>1, PrefixOrder DEF IsResult
  <2>3. QED
    BY <2>1, <2>2
<1>2. ASSUME NEW m \in T PROVE m + 1 \in T
  <2> DEFINE r == Full[n + m]
             x == Full[(n + m) + 1]
             w == Full[n]
  <2>1. /\ m \in Nat /\ n + m \in Nat /\ n + (m + 1) = (n + m) + 1
        /\ IsPrefix(w.out, r.out) /\ (w.status # "goes" => r = w)
    BY <1>2
  <2>2. x = OneOpcode(r, limit)
    BY <2>1, AfterSteps
  <2>3. IsResult(r) /\ IsResult(x) /\ IsResult(w)
    BY <2>1, AfterResult
  <2> HIDE DEF r, x, w
  <2>4. r.out \in Seq(Byte) /\ x.out \in Seq(Byte) /\ w.out \in Seq(Byte)
    BY <2>3 DEF IsResult
  <2>5. IsPrefix(w.out, x.out) /\ (w.status # "goes" => x = w)
    <3>1. CASE r.status = "goes"
      <4>1. IsPrefix(r.out, x.out)
        BY <2>2, <2>3, <3>1, OpcodeResult
      <4>2. QED
        BY <2>1, <2>4, <3>1, <4>1, PrefixOrder
    <3>2. CASE r.status # "goes"
      BY <2>1, <2>2, <3>2 DEF OneOpcode
    <3>3. QED
      BY <3>1, <3>2
  <2>6. QED
    BY <2>1, <2>5 DEF x, w
<1> HIDE DEF T
<1>3. T = Nat
  <2>1. T \in SUBSET Nat
    BY DEF T
  <2>2. QED
    BY <1>1, <1>2, <2>1, SetInduction
<1>4. QED
  BY <1>3 DEF T

\* `decompress` gives what its opcodes have given so far, and more; what is
\* final is its result.
LEMMA Settles ==
  ASSUME Given, NEW n \in Nat
  PROVE  /\ IsPrefix(Full[n].out, FullEnd.out)
         /\ Full[n].status # "goes" => FullEnd = Full[n]
         /\ IsResult(FullEnd) /\ IsResult(Full[n])
<1> DEFINE l == Len(stream) + 1
<1>1. l \in Nat /\ FullEnd = Full[l]
  BY DEF Given, FullEnd
<1>2. IsResult(Full[l]) /\ IsResult(Full[n]) /\ (Full[l].status = "goes" => Full[l].at >= l)
  BY <1>1, AfterResult
<1>3. Full[l].status # "goes"
  <2>1. Full[l].at <= Len(stream) /\ Full[l].at \in Nat /\ Len(stream) \in Nat
    BY <1>2 DEF IsResult, Given
  <2>2. ~(Full[l].at >= l)
    BY <2>1
  <2>3. QED
    BY <1>2, <2>2
<1> HIDE DEF l
<1>4. CASE n <= l
  <2>1. l - n \in Nat /\ n + (l - n) = l
    BY <1>1, <1>4
  <2>2. IsPrefix(Full[n].out, Full[n + (l - n)].out)
        /\ (Full[n].status # "goes" => Full[n + (l - n)] = Full[n])
    BY <2>1, AfterGrows
  <2>3. QED
    BY <1>1, <1>2, <2>1, <2>2
<1>5. CASE n > l
  <2>1. n - l \in Nat /\ l + (n - l) = n
    BY <1>1, <1>5
  <2>2. Full[l + (n - l)] = Full[l]
    BY <1>1, <1>3, <2>1, AfterGrows
  <2>3. Full[n] = Full[l]
    BY <2>1, <2>2
  <2>4. IsPrefix(Full[n].out, Full[n].out)
    BY <1>2, PrefixOrder DEF IsResult
  <2>5. QED
    BY <1>1, <1>2, <2>3, <2>4
<1>6. QED
  BY <1>1, <1>4, <1>5

----------------------------------------------------------------------------
(* Where the resumable decoder is within `decompress`: z are its fields, o *)
(* is the output so far, and r the result `decompress` has at the head of  *)
(* its loop.                                                               *)

\* Before an opcode.
AtHead(z, o, r) == z.mode = "Opcode" /\ z.consumed = r.at /\ o = r.out

\* Within the count of a copy: all of it was zero bytes so far.
Extends(z, o, r) ==
  /\ HasCopy(r) /\ o = r.out
  /\ z.mode = "Ext" /\ z.ext # "Literal" /\ z.op1 = At(r.at)
  /\ z.consumed > r.at /\ Zeros(r.at + 1, z.consumed)
  /\ z.acc = Span(z.consumed - (r.at + 1))

\* Within the offset of a copy.
Offsets(z, o, r) ==
  /\ HasCopy(r) /\ o = r.out
  /\ z.mode \in {"Offset1", "Offset2", "Op2"} /\ z.op1 = At(r.at)
  /\ LengthAt(r).ok /\ z.count = LengthAt(r).value
  /\ z.consumed = LengthAt(r).at + (IF z.mode = "Offset2" THEN 1 ELSE 0)
  /\ z.mode = "Offset2" => z.first = At(LengthAt(r).at)

\* Giving out a copy, of which `count` bytes are left.
Copies(z, o, r) ==
  /\ HasCopy(r) /\ CopyTaken(r) /\ OffsetAt(r).far >= 1
  /\ z.mode = "Copy" /\ z.consumed = OffsetAt(r).at
  /\ z.distance = OffsetAt(r).far /\ z.lit = OffsetAt(r).lit
  /\ IsPrefix(o, AllCopied(r)) /\ Len(r.out) <= Len(o)
  /\ Len(o) + z.count = Len(AllCopied(r))

\* The m-th result is that of a literal length at `at`, after the output o.
Tailed(m, at, o) ==
  LET lits == LiteralLength(at)
  IN IF lits.ok THEN Full[m] = Literals(lits.at, lits.value, o)
     ELSE Full[m].status = "refused" /\ IsPrefix(Full[m].out, o)

\* Before a literal length, or within a long one.
Lengths(z, o, m, at) ==
  /\ Tailed(m, at, o) /\ at <= Len(stream)
  /\ \/ z.mode \in {"Start", "LitLen"} /\ z.consumed = at
     \/ /\ z.mode = "Ext" /\ z.ext = "Literal"
        /\ z.consumed > at /\ At(at) = 0 /\ Zeros(at + 1, z.consumed)
        /\ z.acc = Lead + Span(z.consumed - (at + 1))

\* Giving out n literals from `at` on, of which `count` are left.
Giving(z, o, m, at, n, base) ==
  /\ Full[m] = Literals(at, n, base) /\ Len(base) + n <= limit
  /\ z.mode = "Literal" /\ z.count <= n /\ z.consumed = at + (n - z.count)
  /\ o = base \o SubSeq(stream, at + 1, z.consumed)

Ended(z, o, n) == z.mode = "Done" /\ Full[n] = Result("done", z.consumed, o)

\* `decompress` refuses the stream as well, sooner or later.
Failing(o, n) ==
  /\ Full[n].status = "refused"
  /\ IsPrefix(o, Full[n].out) \/ IsPrefix(Full[n].out, o)

InLoop(z, o, r) == AtHead(z, o, r) \/ Extends(z, o, r) \/ Offsets(z, o, r) \/ Copies(z, o, r)

Mid(z, o) ==
  IF z.failed THEN z.mode # "Done" /\ \E n \in Nat : Failing(o, n)
  ELSE \/ \E n \in Nat : Full[n].status = "goes" /\ InLoop(z, o, Full[n])
       \/ \E m, at \in Nat : Lengths(z, o, m, at)
       \/ \E m, at, n \in Nat, base \in Seq(Byte) : Giving(z, o, m, at, n, base)
       \/ \E n \in Nat : Ended(z, o, n)

----------------------------------------------------------------------------
(* What a place in `decompress` says of its result. *)

\* The output is within that of `decompress`, or, when it refuses the stream,
\* beyond it.
Within(o, n) ==
  \/ IsPrefix(o, Full[n].out)
  \/ Full[n].status = "refused" /\ IsPrefix(Full[n].out, o)

LEMMA CopiesWithin ==
  ASSUME Given, NEW z, NEW o \in Seq(Byte), NEW n \in Nat,
         Full[n].status = "goes", Copies(z, o, Full[n])
  PROVE  Within(o, n + 1)
<1> DEFINE r == Full[n]
           x == Full[n + 1]
           all == AllCopied(r)
<1>1. IsResult(r) /\ x = OneOpcode(r, limit) /\ IsResult(x)
  BY AfterResult, AfterSteps
<1>2. HasCopy(r) /\ CopyTaken(r) /\ IsPrefix(o, all) /\ Len(r.out) <= Len(o)
  BY DEF Copies
<1> HIDE DEF r, x
<1>3. all \in Seq(Byte) /\ IsPrefix(r.out, all) /\ r.out \in Seq(Byte) /\ x.out \in Seq(Byte)
  BY <1>1, <1>2, CopiedBytes DEF IsResult
<1>4. ASSUME NEW at \in Nat, at <= Len(stream), NEW k \in Nat, x = Literals(at, k, all)
      PROVE  Within(o, n + 1)
  <2>1. IsPrefix(all, x.out)
    BY <1>3, <1>4, LiteralsResult
  <2>2. IsPrefix(o, x.out)
    BY <1>2, <1>3, <2>1, PrefixOrder
  <2>3. QED
    BY <2>2 DEF Within, x
<1>5. CASE x = Refused(r.at, r.out)
  <2>1. x.status = "refused" /\ x.out = r.out
    BY <1>5 DEF Refused, Result
  <2>2. \A i \in 1..Len(r.out) : r.out[i] = o[i]
    <3>1. Len(o) \in Nat /\ Len(r.out) \in Nat /\ (\A i \in 1..Len(o) : o[i] = all[i])
          /\ \A i \in 1..Len(r.out) : r.out[i] = all[i]
      BY <1>2, <1>3, PrefixByByte
    <3>2. \A i \in 1..Len(r.out) : i \in 1..Len(o)
      BY <1>2, <3>1
    <3>3. QED
      BY <3>1, <3>2
  <2>3. IsPrefix(r.out, o)
    BY <1>2, <1>3, <2>2, PrefixByByte
  <2>4. QED
    BY <2>1, <2>3 DEF Within, x
<1>6. /\ OffsetAt(r).at \in (r.at + 2)..Len(stream) /\ OffsetAt(r).lit \in 0..3
      /\ r.at \in Nat /\ Len(stream) \in Nat
  BY <1>1, <1>2, OpcodeParts DEF CopyTaken, IsResult, Given
<1> DEFINE at == OffsetAt(r).at
           lit == OffsetAt(r).lit
<1>7. /\ lit > 0 => x = Literals(at, lit, all)
      /\ ~(lit > 0) => x = IF LiteralLength(at).ok
                           THEN Literals(LiteralLength(at).at, LiteralLength(at).value, all)
                           ELSE Refused(r.at, r.out)
  BY <1>1, <1>2, OpcodeOutcome DEF r
<1> HIDE DEF at, lit
<1>8. at \in Nat /\ at <= Len(stream) /\ lit \in Nat
  BY <1>6 DEF at, lit
<1>9. LiteralLength(at).ok =>
        /\ LiteralLength(at).at \in Nat /\ LiteralLength(at).at <= Len(stream)
        /\ LiteralLength(at).value \in Nat
  <2> DEFINE p == LiteralLength(at).at
  <2>1. LiteralLength(at).ok => p \in at..Len(stream) /\ LiteralLength(at).value \in Nat
    BY <1>8, LiteralLengthRead DEF Read
  <2> HIDE DEF p
  <2>2. p \in at..Len(stream) => p \in Nat /\ p <= Len(stream)
    BY <1>6, <1>8
  <2>3. QED
    BY <2>1, <2>2 DEF p
<1>10. CASE lit > 0
  BY <1>4, <1>7, <1>8, <1>10
<1>11. CASE ~(lit > 0)
  BY <1>4, <1>5, <1>7, <1>9, <1>11
<1>12. QED
  BY <1>10, <1>11

LEMMA MidWithin ==
  ASSUME Given, NEW z \in LzType, z.consumed <= Len(stream), NEW o \in Seq(Byte), Mid(z, o)
  PROVE  \E n \in Nat : /\ Within(o, n)
                        /\ z.failed => Full[n].status = "refused"
                        /\ z.mode = "Done" => Full[n] = Result("done", z.consumed, o)
<1>1. z.failed \in BOOLEAN /\ IsPrefix(o, o) /\ z.consumed \in Nat /\ z.count \in Nat
  BY PrefixOrder DEF LzType
<1>2. CASE z.failed
  BY <1>2 DEF Mid, Failing, Within
<1>3. ASSUME ~z.failed, NEW n \in Nat, Full[n].status = "goes",
             AtHead(z, o, Full[n]) \/ Extends(z, o, Full[n]) \/ Offsets(z, o, Full[n])
      PROVE  Within(o, n) /\ z.mode # "Done"
  BY <1>1, <1>3 DEF AtHead, Extends, Offsets, Within
<1>4. ASSUME ~z.failed, NEW n \in Nat, Full[n].status = "goes", Copies(z, o, Full[n])
      PROVE  Within(o, n + 1) /\ n + 1 \in Nat /\ z.mode # "Done"
  <2>1. Within(o, n + 1)
    BY <1>4, CopiesWithin
  <2>2. QED
    BY <1>4, <2>1 DEF Copies
<1>5. ASSUME ~z.failed, NEW m \in Nat, NEW at \in Nat, Lengths(z, o, m, at)
      PROVE  Within(o, m) /\ z.mode # "Done"
  <2>1. Tailed(m, at, o) /\ at <= Len(stream) /\ z.mode # "Done"
    BY <1>5 DEF Lengths
  <2>2. CASE LiteralLength(at).ok
    <3> DEFINE p == LiteralLength(at).at
               v == LiteralLength(at).value
    <3>1. p \in at..Len(stream) /\ v \in Nat
      BY <2>1, <2>2, LiteralLengthRead DEF Read
    <3>2. Full[m] = Literals(p, v, o)
      BY <2>1, <2>2 DEF Tailed
    <3> HIDE DEF p, v
    <3>3. p \in Nat /\ p <= Len(stream)
      BY <3>1 DEF Given
    <3>4. IsPrefix(o, Full[m].out)
      BY <3>1, <3>2, <3>3, LiteralsResult
    <3>5. QED
      BY <2>1, <3>4 DEF Within
  <2>3. CASE ~LiteralLength(at).ok
    BY <2>1, <2>3 DEF Tailed, Within
  <2>4. QED
    BY <2>2, <2>3
<1>6. ASSUME ~z.failed, NEW m \in Nat, NEW at \in Nat, NEW n \in Nat, NEW base \in Seq(Byte),
             Giving(z, o, m, at, n, base)
      PROVE  Within(o, m) /\ z.mode # "Done"
  <2> DEFINE k == n - z.count
  <2>1. k \in 0..n /\ at + k = z.consumed /\ at + k <= Len(stream) /\ at <= Len(stream)
    <3> DEFINE c == z.count
               p == z.consumed
               l == Len(stream)
    <3>1. c <= n /\ p = at + (n - c) /\ c \in Nat /\ p <= l /\ l \in Nat
      BY <1>1, <1>6 DEF Giving, Given
    <3> HIDE DEF c, p, l
    <3>2. n - c \in 0..n /\ at + (n - c) = p /\ at + (n - c) <= l /\ at <= l
      BY <3>1
    <3>3. QED
      BY <3>2 DEF c, p, l
  <2> HIDE DEF k
  <2>2. /\ Full[m] = Literals(at, n, base) /\ Len(base) + n <= limit
        /\ o = base \o SubSeq(stream, at + 1, at + k) /\ z.mode # "Done"
    BY <1>6, <2>1 DEF Giving
  <2>3. IsPrefix(base \o SubSeq(stream, at + 1, at + k), Literals(at, n, base).out)
    BY <2>1, <2>2, LiteralsResult
  <2>4. QED
    BY <2>2, <2>3 DEF Within
<1>7. ASSUME ~z.failed, NEW n \in Nat, Ended(z, o, n)
      PROVE  Within(o, n) /\ Full[n] = Result("done", z.consumed, o)
  BY <1>1, <1>7 DEF Ended, Result, Within
<1>8. CASE ~z.failed
  BY <1>3, <1>4, <1>5, <1>6, <1>7, <1>8 DEF Mid, InLoop
<1>9. QED
  BY <1>1, <1>2, <1>8

\* A decoder that waits for bytes the stream has not is within a stream that
\* `decompress` refuses.
LEMMA MidStarves ==
  ASSUME Given, NEW z \in LzType, ~z.failed, z.consumed = Len(stream), Formed(z),
         z.mode \notin {"Copy", "Done"}, NEW o \in Seq(Byte), Mid(z, o)
  PROVE  \E n \in Nat : Full[n].status = "refused"
<1>1. Len(stream) \in Nat /\ limit \in Nat /\ z.count \in Nat
  BY DEF Given, LzType
<1>2. ASSUME NEW n \in Nat, Full[n].status = "goes", Full[n].at = Len(stream)
      PROVE  Full[n + 1].status = "refused"
  <2>1. Full[n + 1] = Refused(Full[n].at, Full[n].out)
    BY <1>1, <1>2, AfterSteps DEF OneOpcode, There
  <2>2. QED
    BY <2>1 DEF Refused, Result
<1>3. ASSUME NEW n \in Nat, Full[n].status = "goes", HasCopy(Full[n]), ~CopyTaken(Full[n])
      PROVE  Full[n + 1].status = "refused"
  <2>1. Full[n + 1] = Refused(Full[n].at, Full[n].out)
    BY <1>3, AfterSteps, AfterResult, OpcodeOutcome
  <2>2. QED
    BY <2>1 DEF Refused, Result
<1>4. ASSUME NEW n \in Nat, Full[n].status = "goes", Extends(z, o, Full[n])
      PROVE  Full[n + 1].status = "refused"
  <2> DEFINE r == Full[n]
             op == At(r.at)
  <2>1. IsResult(r) /\ HasCopy(r) /\ z.op1 = op /\ Zeros(r.at + 1, z.consumed)
        /\ z.mode = "Ext" /\ z.ext # "Literal"
    BY <1>4, AfterResult DEF Extends
  <2>2. ExtOk(z)
    BY <2>1 DEF Formed
  <2>3. op \in Byte /\ op >= 16 /\ op # 17 /\ r.at + 1 \in Nat /\ r.at + 1 <= Len(stream)
        /\ op \in {16, 24, 32}
    BY <2>1, <2>2, OpcodeParts DEF HasCopy, ExtOk
  <2> DEFINE at == r.at + 1
  <2> HIDE DEF r, op
  <2>4. ~Extension(at, 0).ok
    <3>1. Len(stream) \in at..Len(stream) /\ 0 \in Nat
      BY <1>1, <2>3
    <3>2. QED
      BY <2>1, <2>3, <3>1, ExtensionAfter
  <2>5. ~LengthAt(r).ok
    <3>1. LengthOf(op, at) = Plus(Extension(at, 0), Base(op)) /\ Base(op) \in {9, 33}
      BY <2>3, LengthKinds
    <3>2. Base(op) \in Nat /\ 0 \in Nat
      BY <3>1
    <3>3. Plus(Extension(at, 0), Base(op)).ok = Extension(at, 0).ok
      BY <2>3, <3>2, ExtensionRead
    <3>4. QED
      BY <2>4, <3>1, <3>3 DEF LengthAt, op
  <2>6. QED
    BY <1>3, <1>4, <2>1, <2>5 DEF CopyTaken, r
<1>5. ASSUME NEW n \in Nat, Full[n].status = "goes", Offsets(z, o, Full[n])
      PROVE  Full[n + 1].status = "refused"
  <2> DEFINE r == Full[n]
             op == At(r.at)
             at == LengthAt(r).at
  <2>1. IsResult(r) /\ HasCopy(r) /\ z.op1 = op /\ LengthAt(r).ok
        /\ z.mode \in {"Offset1", "Offset2", "Op2"}
        /\ z.consumed = at + (IF z.mode = "Offset2" THEN 1 ELSE 0)
    BY <1>5, AfterResult DEF Offsets
  <2>2. op \in Byte /\ op >= 16 /\ op # 17 /\ at \in (r.at + 1)..Len(stream) /\ r.at \in Nat
    BY <2>1, OpcodeParts DEF HasCopy, IsResult
  <2> HIDE DEF r, op, at
  <2>3. /\ z.mode = "Op2" => op >= 64
        /\ z.mode # "Op2" => op < 64
    <3>1. CASE z.mode = "Op2"
      BY <2>1, <3>1 DEF Formed
    <3>2. CASE z.mode \in {"Offset1", "Offset2"}
      <4>1. z.op1 \in {16} \cup 18..63
        BY <3>2 DEF Formed
      <4>2. op = 16 \/ op \in 18..63
        BY <2>1, <4>1
      <4>3. op < 64
        <5>1. \A b \in 18..63 : b < 64
          OBVIOUS
        <5>2. CASE op \in 18..63
          BY <5>1, <5>2
        <5>3. CASE op = 16
          BY <5>3
        <5>4. QED
          BY <4>2, <5>2, <5>3
      <4>4. QED
        BY <3>2, <4>3
    <3>3. QED
      BY <2>1, <3>1, <3>2
  <2>4. at \in Nat /\ at <= Len(stream)
    BY <1>1, <2>2
  <2>5. ~Offset(op, at).ok
    <3>1. CASE z.mode = "Op2"
      <4>1. ~(at < Len(stream)) /\ op >= 64
        BY <1>1, <2>1, <2>3, <2>4, <3>1
      <4>2. QED
        BY <2>2, <2>4, <4>1, OffsetRead
    <3>2. CASE z.mode # "Op2"
      <4>1. ~(at + 1 < Len(stream)) /\ op < 64
        BY <1>1, <2>1, <2>3, <2>4, <3>2
      <4>2. QED
        BY <2>2, <2>4, <4>1, OffsetRead
    <3>3. QED
      BY <3>1, <3>2
  <2>6. QED
    BY <1>3, <1>5, <2>1, <2>5 DEF CopyTaken, OffsetAt, r, op, at
<1>6. ASSUME NEW m \in Nat, NEW at \in Nat, Lengths(z, o, m, at)
      PROVE  Full[m].status = "refused"
  <2>1. Tailed(m, at, o) /\ at <= Len(stream)
    BY <1>6 DEF Lengths
  <2>2. ~LiteralLength(at).ok
    <3>1. CASE z.consumed = at
      BY <2>1, <3>1, LiteralLengthRead
    <3>2. CASE z.consumed > at /\ At(at) = 0 /\ Zeros(at + 1, z.consumed)
      <4>1. at + 1 \in Nat /\ at + 1 <= Len(stream) /\ Len(stream) \in (at + 1)..Len(stream)
            /\ Lead \in Nat
        BY <1>1, <3>2, Sizes
      <4>2. ~Extension(at + 1, Lead).ok
        BY <3>2, <4>1, ExtensionAfter
      <4>3. 3 \in Nat /\ Plus(Extension(at + 1, Lead), 3).ok = Extension(at + 1, Lead).ok
        BY <4>1, ExtensionRead
      <4>4. LiteralLength(at) = Plus(Extension(at + 1, Lead), 3)
        BY <1>1, <3>2, <4>1 DEF LiteralLength, There
      <4>5. QED
        BY <4>2, <4>3, <4>4
    <3>3. QED
      BY <1>6, <3>1, <3>2 DEF Lengths
  <2>3. QED
    BY <2>1, <2>2 DEF Tailed
<1>7. ASSUME NEW m \in Nat, NEW at \in Nat, NEW n \in Nat, NEW base \in Seq(Byte),
             Giving(z, o, m, at, n, base)
      PROVE  Full[m].status = "refused"
  <2>1. Full[m] = Literals(at, n, base) /\ z.count <= n /\ z.consumed = at + (n - z.count)
        /\ z.mode = "Literal"
    BY <1>7 DEF Giving
  <2>2. z.count >= 1
    BY <2>1 DEF Formed
  <2>3. at + n > Len(stream) /\ at <= Len(stream)
    BY <1>1, <2>1, <2>2
  <2>4. Literals(at, n, base).status = "refused"
    BY <2>3, LiteralsResult
  <2>5. QED
    BY <2>1, <2>4
<1>8. /\ \A n \in Nat : ~Ended(z, o, n)
      /\ \A n \in Nat : ~Copies(z, o, Full[n])
  BY DEF Ended, Copies
<1>9. ASSUME NEW n \in Nat, Full[n].status = "goes", InLoop(z, o, Full[n])
      PROVE  Full[n + 1].status = "refused" /\ n + 1 \in Nat
  BY <1>2, <1>4, <1>5, <1>8, <1>9 DEF InLoop, AtHead
<1>10. QED
  BY <1>6, <1>7, <1>8, <1>9 DEF Mid

----------------------------------------------------------------------------
(* A byte of input takes the decoder from one such place to the next.      *)

LEMMA FailedMid ==
  ASSUME NEW z \in LzType, z.mode # "Done", NEW o, NEW n \in Nat, Failing(o, n)
  PROVE  Mid(Failed(z), o)
<1>1. Failed(z).failed /\ Failed(z).mode = z.mode
  BY DEF Failed, LzType
<1>2. QED
  BY <1>1 DEF Mid

LEMMA RefusedFails ==
  ASSUME NEW o \in Seq(Byte), NEW n, NEW at, Full[n] = Refused(at, o)
  PROVE  Failing(o, n)
BY PrefixOrder DEF Refused, Result, Failing

LEMMA LiteralMid ==
  ASSUME Given, NEW z \in LzType, ~z.failed, z.mode # "Done",
         NEW o \in Seq(Byte), z.produced = Len(o),
         NEW m \in Nat, NEW at \in Nat, at <= Len(stream), NEW n \in Nat,
         Full[m] = Literals(at, n, o), z.consumed = at
  PROVE  Mid(Literal(z, n), o)
<1>1. Len(o) \in Nat /\ limit \in Nat
  BY DEF Given
<1>2. CASE Fits(z, n)
  <2> DEFINE y == [z EXCEPT !.count = n, !.mode = "Literal"]
  <2>1. Literal(z, n) = y
    BY <1>2 DEF Literal
  <2>2. y.mode = "Literal" /\ y.count = n /\ y.consumed = at /\ ~y.failed
    BY DEF LzType
  <2> HIDE DEF y
  <2>3. Len(o) + n <= limit
    BY <1>1, <1>2 DEF Fits
  <2>4. o = o \o SubSeq(stream, at + 1, at)
    <3>1. SubSeq(stream, at + 1, at + 0) \in Seq(Byte) /\ Len(SubSeq(stream, at + 1, at + 0)) = 0
          /\ at + 0 = at
      <4>1. 0 \in Nat /\ at + 0 <= Len(stream)
        OBVIOUS
      <4>2. QED
        BY <4>1, SliceFacts
    <3> DEFINE e == SubSeq(stream, at + 1, at)
    <3>2. e \in Seq(Byte) /\ Len(e) = 0
      BY <3>1
    <3> HIDE DEF e
    <3>3. e = <<>>
      BY <3>2
    <3>4. o \o <<>> = o
      OBVIOUS
    <3>5. QED
      BY <3>3, <3>4 DEF e
  <2>5. at + (n - n) = at /\ n <= n
    OBVIOUS
  <2>6. Giving(y, o, m, at, n, o)
    BY <2>2, <2>3, <2>4, <2>5 DEF Giving
  <2>7. QED
    BY <2>1, <2>2, <2>6 DEF Mid
<1>3. CASE ~Fits(z, n)
  <2>1. Len(o) + n > limit
    BY <1>1, <1>3 DEF Fits
  <2>2. Full[m] = Refused(at, o)
    BY <2>1, LiteralsResult
  <2>3. Literal(z, n) = Failed(z)
    BY <1>3 DEF Literal
  <2>4. QED
    BY <2>2, <2>3, RefusedFails, FailedMid
<1>4. QED
  BY <1>2, <1>3

\* The opcode's byte is kept.
Held(z, b) == [z EXCEPT !.op1 = b]

\* What an opcode sets the decoder to.
SetTo(x, b, y) ==
  /\ b < 16 => x = Failed(y)
  /\ b = 17 => x = [y EXCEPT !.op1 = 0, !.mode = "Done"]
  /\ b \in {16, 32} => x = [y EXCEPT !.ext = "Long", !.mode = "Ext"]
  /\ b = 24 => x = [y EXCEPT !.ext = "Count", !.mode = "Ext"]
  /\ b \in 18..63 \ {24, 32} => x = [y EXCEPT !.count = CountBits(b) + 2, !.mode = "Offset1"]
  /\ b >= 64 => x = [y EXCEPT !.count = (b \div 16) - 1, !.mode = "Op2"]

LEMMA OpcodeKinds ==
  ASSUME NEW z, NEW b \in Byte
  PROVE  SetTo(Opcode(z, b), b, Held(z, b))
<1>1. b \in 0..255
  BY DEF Byte
<1>2. CASE b < 16
  BY <1>1, <1>2 DEF Opcode, Held, SetTo
<1>3. CASE b = 17
  BY <1>1, <1>3 DEF Opcode, Held, SetTo
<1>4. CASE b \in {16, 32}
  BY <1>1, <1>4 DEF Opcode, Held, SetTo
<1>5. CASE b = 24
  <2>1. CountBits(24) = 0
    BY DEF CountBits
  <2>2. QED
    BY <1>1, <1>5, <2>1 DEF Opcode, Held, SetTo
<1>6. CASE b \in 18..63 \ {24, 32}
  <2>1. CountBits(b) > 0
    BY <1>6 DEF CountBits
  <2>2. QED
    BY <1>1, <1>6, <2>1 DEF Opcode, Held, SetTo
<1>7. CASE b >= 64
  BY <1>1, <1>7 DEF Opcode, Held, SetTo
<1>8. QED
  BY <1>1, <1>2, <1>3, <1>4, <1>5, <1>6, <1>7 DEF SetTo

LEMMA OpcodeMid ==
  ASSUME Given, NEW z \in LzType, Blank(z), z.mode # "Done",
         NEW n \in Nat, Full[n].status = "goes", Full[n].at < Len(stream),
         z.consumed = Full[n].at + 1
  PROVE  Mid(Opcode(z, At(Full[n].at)), Full[n].out)
<1>1. SUFFICES ASSUME NEW r, r = Full[n], NEW x, x = Full[n + 1],
                       NEW b \in Byte, b = At(r.at), NEW o, o = r.out,
                       NEW y, y = Held(z, b)
                PROVE  Mid(Opcode(z, b), o)
  <2>1. At(Full[n].at) \in Byte
    BY AfterResult, AtByte DEF IsResult
  <2>2. QED
    BY <2>1
<1>2. /\ IsResult(r) /\ r.at \in Nat /\ o \in Seq(Byte) /\ n + 1 \in Nat
      /\ x = OneOpcode(r, limit) /\ b \in Nat /\ r.status = "goes"
  <2>1. IsResult(Full[n]) /\ Full[n + 1] = OneOpcode(Full[n], limit) /\ b \in Nat
    BY AfterResult, AfterSteps, Bytes
  <2>2. r = Full[n] /\ x = Full[n + 1] /\ o = r.out
    BY <1>1
  <2>3. QED
    BY <2>1, <2>2 DEF IsResult
<1>15. y = Held(z, b)
  BY <1>1
<1>16. SetTo(Opcode(z, b), b, y)
  BY <1>15, OpcodeKinds
<1>3. /\ y.op1 = b /\ y.mode = z.mode /\ ~y.failed /\ y.acc = 0 /\ y.consumed = r.at + 1
      /\ y \in LzType
  <2>1. y \in LzType
    BY <1>1 DEF LzType, Held
  <2>2. QED
    BY <1>1, <2>1 DEF LzType, Blank, Quiet, Held
<1>4. There(r.at)
  BY <1>1, <1>2 DEF There
<1>5. CASE b < 16
  <2>1. x = Refused(r.at, o)
    BY <1>1, <1>2, <1>4, <1>5 DEF OneOpcode
  <2>2. Opcode(z, b) = Failed(y)
    BY <1>5, <1>16 DEF SetTo
  <2>3. Failing(o, n + 1)
    BY <1>1, <1>2, <2>1, RefusedFails
  <2>4. Mid(Failed(y), o)
    BY <1>1, <1>2, <1>3, <2>3, FailedMid
  <2>5. QED
    BY <1>1, <1>2, <2>2, <2>4
<1>6. CASE b = 17
  <2> DEFINE w == [y EXCEPT !.op1 = 0, !.mode = "Done"]
  <2>1. x = Result("done", r.at + 1, o)
    BY <1>1, <1>2, <1>4, <1>6 DEF OneOpcode
  <2>2. Opcode(z, b) = w
    BY <1>6, <1>16 DEF SetTo
  <2>3. w.mode = "Done" /\ w.consumed = r.at + 1 /\ ~w.failed
    BY <1>3 DEF LzType
  <2> HIDE DEF w
  <2>4. Ended(w, o, n + 1)
    BY <1>1, <1>2, <2>1, <2>3 DEF Ended
  <2>5. Mid(w, o)
    BY <1>1, <1>2, <2>3, <2>4 DEF Mid
  <2>6. QED
    BY <1>1, <1>2, <2>2, <2>5
<1>7. ASSUME NEW w, ~w.failed, Opcode(z, b) = w, Extends(w, o, r) \/ Offsets(w, o, r)
      PROVE  Mid(Opcode(z, b), o)
  BY <1>1, <1>2, <1>7 DEF Mid, InLoop
<1>8. b >= 16 /\ b # 17 => HasCopy(r)
  BY <1>1, <1>2 DEF HasCopy
<1>9. LengthAt(r) = LengthOf(b, r.at + 1)
  BY <1>1, <1>2 DEF LengthAt
<1>10. CASE b \in {16, 24, 32}
  <2> DEFINE e == IF b = 24 THEN "Count" ELSE "Long"
             w == [y EXCEPT !.ext = e, !.mode = "Ext"]
  <2>1. Opcode(z, b) = w
    <3>1. CASE b = 24
      BY <3>1, <1>16 DEF SetTo
    <3>2. CASE b \in {16, 32}
      BY <3>2, <1>16 DEF SetTo
    <3>3. QED
      BY <1>10, <3>1, <3>2
  <2>2. w.mode = "Ext" /\ w.ext # "Literal" /\ w.op1 = b /\ w.acc = 0 /\ w.consumed = r.at + 1
        /\ ~w.failed
    BY <1>3 DEF LzType
  <2> HIDE DEF w
  <2>3. Zeros(r.at + 1, w.consumed)
    BY <1>1, <1>2, <2>2 DEF Zeros
  <2>4. /\ (r.at + 1) - (r.at + 1) = 0 /\ r.at + 1 > r.at
        /\ b >= 16 /\ b # 17
    BY <1>2, <1>10
  <2>5. Extends(w, o, r)
    <3>1. w.acc = Span(w.consumed - (r.at + 1))
      BY <2>2, <2>4, SpanFacts
    <3>2. QED
      BY <1>1, <1>8, <2>2, <2>3, <2>4, <3>1 DEF Extends
  <2>6. QED
    BY <1>1, <1>2, <1>7, <2>1, <2>2, <2>5
<1>11. CASE b \in 18..63 \ {24, 32}
  <2> DEFINE k == CountBits(b) + 2
             w == [y EXCEPT !.count = k, !.mode = "Offset1"]
  <2>1. LengthAt(r) = Number(r.at + 1, k) /\ CountBits(b) > 0
    <3>1. b >= 16 /\ b # 17
      BY <1>2, <1>11
    <3>2. QED
      BY <1>2, <1>9, <1>11, <3>1, LengthKinds
  <2>2. Opcode(z, b) = w
    BY <1>11, <1>16 DEF SetTo
  <2>3. w.mode = "Offset1" /\ w.op1 = b /\ w.count = k /\ w.consumed = r.at + 1 /\ ~w.failed
    BY <1>3 DEF LzType
  <2> HIDE DEF w, k
  <2>4. LengthAt(r).ok /\ LengthAt(r).value = k /\ LengthAt(r).at = r.at + 1
    BY <2>1 DEF Number
  <2>5. b >= 16 /\ b # 17 /\ (r.at + 1) + 0 = r.at + 1
    BY <1>2, <1>11
  <2>6. Offsets(w, o, r)
    BY <1>1, <1>2, <1>8, <2>3, <2>4, <2>5 DEF Offsets
  <2>7. QED
    BY <1>1, <1>2, <1>7, <2>2, <2>3, <2>6
<1>12. CASE b >= 64
  <2> DEFINE k == (b \div 16) - 1
             w == [y EXCEPT !.count = k, !.mode = "Op2"]
  <2>1. LengthAt(r) = Number(r.at + 1, k)
    <3>1. b >= 16 /\ b # 17
      BY <1>2, <1>12
    <3>2. QED
      BY <1>2, <1>9, <1>12, <3>1, LengthKinds
  <2>2. Opcode(z, b) = w
    BY <1>12, <1>16 DEF SetTo
  <2>3. w.mode = "Op2" /\ w.op1 = b /\ w.count = k /\ w.consumed = r.at + 1 /\ ~w.failed
    BY <1>3 DEF LzType
  <2> HIDE DEF w, k
  <2>4. LengthAt(r).ok /\ LengthAt(r).value = k /\ LengthAt(r).at = r.at + 1
    BY <2>1 DEF Number
  <2>5. b >= 16 /\ b # 17 /\ (r.at + 1) + 0 = r.at + 1
    BY <1>1, <1>2, <1>12
  <2>6. Offsets(w, o, r)
    BY <1>1, <1>2, <1>8, <2>3, <2>4, <2>5 DEF Offsets
  <2>7. QED
    BY <1>1, <1>2, <1>7, <2>2, <2>3, <2>6
<1>13. b < 16 \/ b = 17 \/ b \in {16, 24, 32} \/ b \in 18..63 \ {24, 32} \/ b >= 64
  BY <1>2
<1>14. QED
  BY <1>1, <1>2, <1>5, <1>6, <1>10, <1>11, <1>12, <1>13

LEMMA LengthMid ==
  ASSUME Given, NEW z \in LzType, Blank(z), z.mode # "Done",
         NEW o \in Seq(Byte), z.produced = Len(o),
         NEW m \in Nat, NEW at \in Nat, at < Len(stream), Tailed(m, at, o),
         z.consumed = at + 1
  PROVE  Mid(Length(z, At(at)), o)
<1> DEFINE b == At(at)
<1>1. b \in Byte /\ b \in Nat /\ There(at) /\ Len(stream) \in Nat /\ at <= Len(stream)
      /\ at + 1 \in Nat /\ at + 1 <= Len(stream)
  BY AtByte DEF There, Given
<1> HIDE DEF b
<1>2. CASE b = 0
  <2> DEFINE y == [z EXCEPT !.ext = "Literal", !.acc = Lead, !.mode = "Ext"]
  <2>1. Length(z, b) = y
    BY <1>2 DEF Length
  <2>2. y.mode = "Ext" /\ y.ext = "Literal" /\ y.acc = Lead /\ y.consumed = at + 1 /\ ~y.failed
    BY DEF LzType, Blank
  <2> HIDE DEF y
  <2>3. Zeros(at + 1, y.consumed)
    BY <2>2 DEF Zeros
  <2>4. (at + 1) - (at + 1) = 0 /\ at + 1 > at /\ Lead + 0 = Lead
    BY Sizes
  <2>5. y.acc = Lead + Span(y.consumed - (at + 1))
    BY <2>2, <2>4, SpanFacts
  <2>6. Lengths(y, o, m, at)
    BY <1>1, <1>2, <2>2, <2>3, <2>4, <2>5 DEF Lengths, b
  <2>7. QED
    BY <2>1, <2>2, <2>6 DEF Mid, b
<1>3. CASE b >= 16
  <2>1. LiteralLength(at) = Number(at, 0)
    BY <1>1, <1>3 DEF LiteralLength, b
  <2>2. Full[m] = Literals(at, 0, o)
    BY <2>1 DEF Tailed, Number
  <2>3. Len(o) + 0 <= limit /\ at + 0 <= Len(stream) /\ at + 0 = at /\ 0 \in Nat
    BY <1>1 DEF Blank
  <2>4. Full[m] = Result("goes", at, o \o SubSeq(stream, at + 1, at))
    BY <1>1, <2>2, <2>3, LiteralsResult
  <2>5. o \o SubSeq(stream, at + 1, at) = o
    <3> DEFINE e == SubSeq(stream, at + 1, at)
    <3>1. SubSeq(stream, at + 1, at + 0) \in Seq(Byte) /\ Len(SubSeq(stream, at + 1, at + 0)) = 0
      BY <2>3, SliceFacts
    <3>2. e \in Seq(Byte) /\ Len(e) = 0
      BY <2>3, <3>1
    <3> HIDE DEF e
    <3>3. e = <<>>
      BY <3>2
    <3>4. o \o <<>> = o
      OBVIOUS
    <3>5. QED
      BY <3>3, <3>4 DEF e
  <2>6. Full[m].status = "goes" /\ Full[m].at = at /\ Full[m].out = o
    BY <2>4, <2>5 DEF Result
  <2>7. Mid(Opcode(z, At(Full[m].at)), Full[m].out)
    BY <2>6, OpcodeMid
  <2>8. Length(z, b) = Opcode(z, b)
    BY <1>1, <1>3 DEF Length
  <2>9. QED
    BY <2>6, <2>7, <2>8 DEF b
<1>4. CASE b # 0 /\ b < 16
  <2>1. LiteralLength(at) = Number(at + 1, b + 3)
    BY <1>1, <1>4 DEF LiteralLength, b
  <2>2. Full[m] = Literals(at + 1, b + 3, o)
    BY <2>1 DEF Tailed, Number
  <2>3. Length(z, b) = Literal(z, b + 3) /\ b + 3 \in Nat
    BY <1>1, <1>4 DEF Length
  <2>4. Mid(Literal(z, b + 3), o)
    BY <1>1, <2>2, <2>3, LiteralMid DEF Blank
  <2>5. QED
    BY <2>3, <2>4 DEF b
<1>5. QED
  BY <1>1, <1>2, <1>3, <1>4

\* The decoder with the next byte counted.
Further(z) == [z EXCEPT !.consumed = @ + 1]

LEMMA FurtherFields ==
  ASSUME NEW z \in LzType
  PROVE  /\ Further(z) \in LzType /\ Further(z).consumed = z.consumed + 1
         /\ Further(z).mode = z.mode /\ Further(z).ext = z.ext /\ Further(z).op1 = z.op1
         /\ Further(z).first = z.first /\ Further(z).acc = z.acc /\ Further(z).count = z.count
         /\ Further(z).lit = z.lit /\ Further(z).distance = z.distance
         /\ Further(z).produced = z.produced /\ Further(z).failed = z.failed
<1>1. Further(z) \in LzType
  BY DEF Further, LzType
<1>2. QED
  BY <1>1 DEF Further, LzType

\* Where a decoder is, by its mode.
LEMMA MidKinds ==
  ASSUME NEW z, NEW o, ~z.failed, Mid(z, o)
  PROVE  /\ z.mode = "Opcode" =>
              \E n \in Nat : Full[n].status = "goes" /\ AtHead(z, o, Full[n])
         /\ z.mode = "Ext" /\ z.ext # "Literal" =>
              \E n \in Nat : Full[n].status = "goes" /\ Extends(z, o, Full[n])
         /\ z.mode \in {"Start", "LitLen"} \/ (z.mode = "Ext" /\ z.ext = "Literal") =>
              \E m, at \in Nat : Lengths(z, o, m, at)
         /\ z.mode \in {"Offset1", "Offset2", "Op2"} =>
              \E n \in Nat : Full[n].status = "goes" /\ Offsets(z, o, Full[n])
         /\ z.mode = "Copy" =>
              \E n \in Nat : Full[n].status = "goes" /\ Copies(z, o, Full[n])
         /\ z.mode = "Literal" =>
              \E m, at, n \in Nat, base \in Seq(Byte) : Giving(z, o, m, at, n, base)
<1>1. CASE \E n \in Nat : Full[n].status = "goes" /\ InLoop(z, o, Full[n])
  <2>1. PICK n \in Nat : Full[n].status = "goes" /\ InLoop(z, o, Full[n])
    BY <1>1
  <2>2. \/ AtHead(z, o, Full[n]) /\ z.mode = "Opcode"
        \/ Extends(z, o, Full[n]) /\ z.mode = "Ext" /\ z.ext # "Literal"
        \/ Offsets(z, o, Full[n]) /\ z.mode \in {"Offset1", "Offset2", "Op2"}
        \/ Copies(z, o, Full[n]) /\ z.mode = "Copy"
    BY <2>1 DEF InLoop, AtHead, Extends, Offsets, Copies
  <2>3. QED
    BY <2>1, <2>2
<1>2. CASE \E m, at \in Nat : Lengths(z, o, m, at)
  <2>1. PICK m, at \in Nat : Lengths(z, o, m, at)
    BY <1>2
  <2>2. z.mode \in {"Start", "LitLen"} \/ (z.mode = "Ext" /\ z.ext = "Literal")
    BY <2>1 DEF Lengths
  <2>3. QED
    BY <1>2, <2>2
<1>3. CASE \E m, at, n \in Nat, base \in Seq(Byte) : Giving(z, o, m, at, n, base)
  <2>1. z.mode = "Literal"
    BY <1>3 DEF Giving
  <2>2. QED
    BY <1>3, <2>1
<1>4. CASE \E n \in Nat : Ended(z, o, n)
  BY <1>4 DEF Ended
<1>5. QED
  BY <1>1, <1>2, <1>3, <1>4 DEF Mid

\* A run of zeros goes on with one more.
LEMMA OneMoreZero ==
  ASSUME NEW from \in Nat, NEW to \in Nat, from <= to, Zeros(from, to), At(to) = 0
  PROVE  Zeros(from, to + 1) /\ Span((to + 1) - from) = Span(to - from) + Run
<1>1. \A j \in from..((to + 1) - 1) : j \in from..(to - 1) \/ j = to
  OBVIOUS
<1>2. Zeros(from, to + 1)
  BY <1>1 DEF Zeros
<1>3. to - from \in Nat /\ (to + 1) - from = (to - from) + 1
  OBVIOUS
<1>4. QED
  BY <1>2, <1>3, SpanFacts

\* The counts that extend are those of three opcodes.
LEMMA ExtendedOpcode ==
  ASSUME Given, NEW z \in LzType, Formed(z), NEW o, NEW r, IsResult(r), Extends(z, o, r)
  PROVE  /\ ~z.failed /\ z.ext \in {"Count", "Long"} /\ At(r.at) \in {16, 24, 32}
         /\ z.ext = "Count" <=> At(r.at) = 24
         /\ LengthAt(r) = Plus(Extension(r.at + 1, 0), Base(At(r.at)))
         /\ Base(At(r.at)) \in Nat
         /\ LengthAt(r).ok = Extension(r.at + 1, 0).ok
         /\ Extension(r.at + 1, 0).ok =>
              /\ LengthAt(r).value = Extension(r.at + 1, 0).value + Base(At(r.at))
              /\ LengthAt(r).at = Extension(r.at + 1, 0).at
              /\ Extension(r.at + 1, 0).value \in Nat
<1>1. z.mode = "Ext" /\ z.ext # "Literal" /\ z.op1 = At(r.at) /\ HasCopy(r)
  BY DEF Extends
<1>2. ~z.failed /\ ExtOk(z)
  BY <1>1 DEF Formed
<1>3. /\ z.ext \in {"Count", "Long"} /\ At(r.at) \in {16, 24, 32}
      /\ z.ext = "Count" <=> At(r.at) = 24
  BY <1>1, <1>2 DEF ExtOk
<1>4. At(r.at) \in Byte /\ r.at + 1 \in Nat /\ r.at + 1 <= Len(stream)
  BY <1>1, OpcodeParts
<1>5. LengthAt(r) = Plus(Extension(r.at + 1, 0), Base(At(r.at))) /\ Base(At(r.at)) \in {9, 33}
  <2>1. At(r.at) >= 16 /\ At(r.at) # 17
    BY <1>1 DEF HasCopy
  <2>2. QED
    BY <1>3, <1>4, <2>1, LengthKinds DEF LengthAt
<1>6. Base(At(r.at)) \in Nat
  BY <1>5
<1>7. /\ Read(Extension(r.at + 1, 0), r.at + 1)
      /\ Plus(Extension(r.at + 1, 0), Base(At(r.at))).ok = Extension(r.at + 1, 0).ok
      /\ Extension(r.at + 1, 0).ok =>
           /\ Plus(Extension(r.at + 1, 0), Base(At(r.at))).value
                = Extension(r.at + 1, 0).value + Base(At(r.at))
           /\ Plus(Extension(r.at + 1, 0), Base(At(r.at))).at = Extension(r.at + 1, 0).at
  BY <1>4, <1>6, ExtensionRead
<1>8. Extension(r.at + 1, 0).ok => Extension(r.at + 1, 0).value \in Nat
  BY <1>7 DEF Read
<1>9. QED
  BY <1>2, <1>3, <1>5, <1>6, <1>7, <1>8

\* A zero byte within the count of a copy.
LEMMA ExtendedCopy ==
  ASSUME Given, NEW z \in LzType, Formed(z), z.consumed < Len(stream), At(z.consumed) = 0,
         NEW o, NEW n \in Nat, Full[n].status = "goes", Extends(z, o, Full[n])
  PROVE  Mid(Extended(Further(z)), o)
<1>1. SUFFICES ASSUME NEW r, r = Full[n], NEW t, t = Further(z)
               PROVE  Mid(Extended(t), o)
  OBVIOUS
<1>2. /\ IsResult(r) /\ r.at \in Nat /\ o \in Seq(Byte) /\ o = r.out /\ HasCopy(r)
      /\ r.status = "goes" /\ Extends(z, o, r)
  <2>1. IsResult(Full[n])
    BY AfterResult
  <2>2. QED
    BY <1>1, <2>1 DEF IsResult, Extends
<1>3. /\ t \in LzType /\ t.consumed = z.consumed + 1 /\ t.mode = "Ext" /\ t.ext # "Literal"
      /\ t.op1 = At(r.at) /\ t.acc = Span(z.consumed - (r.at + 1)) /\ ~t.failed
  BY <1>1, <1>2, ExtendedOpcode, FurtherFields DEF Extends
<1>4. z.consumed \in Nat /\ z.consumed > r.at /\ z.consumed + 1 > r.at /\ r.at + 1 \in Nat
      /\ Zeros(r.at + 1, z.consumed) /\ r.at + 1 <= z.consumed /\ Len(stream) \in Nat
      /\ z.consumed + 1 <= Len(stream) /\ z.consumed + 1 \in (r.at + 1)..Len(stream)
      /\ r.at + 1 <= Len(stream) /\ r.at < Len(stream)
  <2>1. z.consumed \in Nat /\ Len(stream) \in Nat
    BY DEF LzType, Given
  <2>2. z.consumed > r.at /\ Zeros(r.at + 1, z.consumed)
    BY <1>2 DEF Extends
  <2>3. QED
    BY <1>2, <2>1, <2>2
<1>5. /\ Zeros(r.at + 1, z.consumed + 1)
      /\ Span((z.consumed + 1) - (r.at + 1)) = t.acc + Run
  BY <1>3, <1>4, OneMoreZero
<1>6. CASE ~(t.acc + Run > limit)
  <2> DEFINE y == [t EXCEPT !.acc = @ + Run]
  <2>1. Extended(t) = y
    BY <1>6 DEF Extended
  <2>2. /\ y.consumed = z.consumed + 1 /\ y.mode = "Ext" /\ y.ext # "Literal"
        /\ y.op1 = At(r.at) /\ y.acc = t.acc + Run /\ ~y.failed
    BY <1>3 DEF LzType
  <2> HIDE DEF y
  <2>3. Extends(y, o, r)
    BY <1>2, <1>4, <1>5, <2>2 DEF Extends
  <2>4. QED
    BY <1>1, <1>2, <2>1, <2>2, <2>3 DEF Mid, InLoop
<1>7. CASE t.acc + Run > limit
  <2>1. Extended(t) = Failed(t)
    BY <1>7 DEF Extended
  <2>2. SUFFICES ~CopyTaken(r)
    <3>1. n + 1 \in Nat /\ Full[n + 1] = OneOpcode(r, limit)
      BY <1>1, AfterSteps
    <3>2. OneOpcode(r, limit) = Refused(r.at, o)
      BY <1>2, <2>2, OpcodeOutcome
    <3>3. Failing(o, n + 1)
      BY <1>2, <3>1, <3>2, RefusedFails
    <3>4. QED
      BY <1>3, <2>1, <3>1, <3>3, FailedMid
  <2>4. Extension(r.at + 1, 0).ok => Extension(r.at + 1, 0).value >= 0 + (t.acc + Run)
    BY <1>4, <1>5, ExtensionAfter
  <2> DEFINE e == Extension(r.at + 1, 0)
             b == Base(At(r.at))
             v == e.value
             k == LengthAt(r).value
  <2>5. LengthAt(r).ok = e.ok /\ b \in Nat /\ (e.ok => k = v + b /\ v \in Nat)
    BY <1>2, ExtendedOpcode
  <2>6. t.acc + Run \in Nat /\ (e.ok => v >= t.acc + Run)
    <3>1. t.acc \in Nat /\ Run \in Nat
      BY <1>3, Sizes DEF LzType
    <3>2. QED
      BY <2>4, <2>5, <3>1
  <2> HIDE DEF e, b, v, k
  <2>7. limit \in Nat /\ Len(o) \in Nat
    BY <1>2 DEF Given
  <2>8. e.ok => Len(o) + k > limit
    BY <1>7, <2>5, <2>6, <2>7
  <2>9. CopyTaken(r) => LengthAt(r).ok /\ Len(o) + k <= limit
    BY <1>2 DEF CopyTaken, k
  <2>10. e.ok => k \in Nat
    BY <2>5
  <2>11. QED
    BY <2>5, <2>7, <2>8, <2>9, <2>10
<1>8. QED
  BY <1>6, <1>7

\* A zero byte within a long literal length.
LEMMA ExtendedLiteral ==
  ASSUME Given, NEW z \in LzType, ~z.failed, z.consumed < Len(stream), At(z.consumed) = 0,
         NEW o \in Seq(Byte), z.mode = "Ext", z.ext = "Literal",
         NEW m \in Nat, NEW at \in Nat, Lengths(z, o, m, at)
  PROVE  Mid(Extended(Further(z)), o)
<1>1. SUFFICES ASSUME NEW t, t = Further(z)
               PROVE  Mid(Extended(t), o)
  OBVIOUS
<1>2. /\ Tailed(m, at, o) /\ at <= Len(stream) /\ z.consumed > at /\ At(at) = 0
      /\ Zeros(at + 1, z.consumed) /\ z.acc = Lead + Span(z.consumed - (at + 1))
  BY DEF Lengths
<1>3. /\ t \in LzType /\ t.consumed = z.consumed + 1 /\ t.mode = "Ext" /\ t.ext = "Literal"
      /\ t.acc = z.acc /\ ~t.failed
  BY <1>1, FurtherFields
<1>4. z.consumed \in Nat /\ z.consumed + 1 > at /\ at + 1 \in Nat
      /\ at + 1 <= z.consumed /\ Len(stream) \in Nat
      /\ z.consumed + 1 <= Len(stream) /\ z.consumed + 1 \in (at + 1)..Len(stream)
      /\ at + 1 <= Len(stream) /\ at < Len(stream)
  <2>1. z.consumed \in Nat /\ Len(stream) \in Nat
    BY DEF LzType, Given
  <2>2. QED
    BY <1>2, <2>1
<1>5. /\ Zeros(at + 1, z.consumed + 1)
      /\ Span((z.consumed + 1) - (at + 1)) = Span(z.consumed - (at + 1)) + Run
  BY <1>2, <1>4, OneMoreZero
<1>6. /\ Lead + Span((z.consumed + 1) - (at + 1)) = t.acc + Run
      /\ t.acc \in Nat /\ Run \in Nat /\ Lead \in Nat
  <2>1. t.acc \in Nat /\ Run \in Nat /\ Lead \in Nat
    BY <1>3, Sizes DEF LzType
  <2>2. z.consumed - (at + 1) \in Nat
    BY <1>4
  <2>3. Span(z.consumed - (at + 1)) \in Nat
    BY <2>2, SpanFacts
  <2> DEFINE s == Span(z.consumed - (at + 1))
             u == Span((z.consumed + 1) - (at + 1))
  <2>4. s \in Nat /\ u = s + Run /\ t.acc = Lead + s
    BY <1>2, <1>3, <1>5, <2>3
  <2> HIDE DEF s, u
  <2>5. Lead + u = t.acc + Run
    BY <2>1, <2>4
  <2>6. QED
    BY <2>1, <2>5 DEF u
<1>7. CASE ~(t.acc + Run > limit)
  <2> DEFINE y == [t EXCEPT !.acc = @ + Run]
  <2>1. Extended(t) = y
    BY <1>7 DEF Extended
  <2>2. /\ y.consumed = z.consumed + 1 /\ y.mode = "Ext" /\ y.ext = "Literal"
        /\ y.acc = t.acc + Run /\ ~y.failed
    BY <1>3 DEF LzType
  <2> HIDE DEF y
  <2>3. Lengths(y, o, m, at)
    BY <1>2, <1>4, <1>5, <1>6, <2>2 DEF Lengths
  <2>4. QED
    BY <2>1, <2>2, <2>3 DEF Mid
<1>8. CASE t.acc + Run > limit
  <2>1. Extended(t) = Failed(t)
    BY <1>8 DEF Extended
  <2> DEFINE e == Extension(at + 1, Lead)
             v == e.value
  <2>2. LiteralLength(at) = Plus(e, 3)
    BY <1>2, <1>4 DEF LiteralLength, There
  <2>3. /\ Plus(e, 3).ok = e.ok /\ Read(Plus(e, 3), at + 1)
        /\ e.ok => Plus(e, 3).value = v + 3 /\ v \in Nat /\ v >= t.acc + Run
    <3>1. 3 \in Nat /\ Lead \in Nat
      BY <1>6
    <3>2. /\ Plus(e, 3).ok = e.ok /\ Read(Plus(e, 3), at + 1) /\ Read(e, at + 1)
          /\ e.ok => Plus(e, 3).value = v + 3
      <4>1. /\ Read(Extension(at + 1, Lead), at + 1)
            /\ Read(Plus(Extension(at + 1, Lead), 3), at + 1)
            /\ Plus(Extension(at + 1, Lead), 3).ok = Extension(at + 1, Lead).ok
            /\ Extension(at + 1, Lead).ok =>
                 Plus(Extension(at + 1, Lead), 3).value = Extension(at + 1, Lead).value + 3
        BY <1>4, <3>1, ExtensionRead, SMTT(30)
      <4>2. QED
        BY <4>1
    <3>3. e.ok => e.value >= Lead + Span((z.consumed + 1) - (at + 1))
      BY <1>4, <1>5, <3>1, ExtensionAfter
    <3>4. QED
      BY <1>6, <3>2, <3>3 DEF Read
  <2> HIDE DEF e
  <2>4. Failing(o, m)
    <3>1. CASE e.ok
      <4> DEFINE a == Plus(e, 3).at
                 l == Plus(e, 3).value
      <4>1. LiteralLength(at).ok /\ LiteralLength(at).at = a /\ LiteralLength(at).value = l
        BY <2>2, <2>3, <3>1
      <4>6. a \in (at + 1)..Len(stream) /\ l \in Nat /\ l = v + 3
        BY <2>3, <3>1 DEF Read
      <4> HIDE DEF a, l
      <4>2. a \in Nat /\ a <= Len(stream) /\ l \in Nat /\ l = v + 3
        BY <1>4, <4>6
      <4>3. Full[m] = Literals(a, l, o)
        BY <1>2, <4>1 DEF Tailed
      <4>4. Len(o) + l > limit
        <5>1. Len(o) \in Nat /\ limit \in Nat
          BY DEF Given
        <5>2. v \in Nat /\ v >= t.acc + Run
          BY <2>3, <3>1
        <5> HIDE DEF v
        <5>3. QED
          BY <1>6, <1>8, <4>2, <5>1, <5>2
      <4>5. Full[m] = Refused(a, o)
        BY <4>2, <4>3, <4>4, LiteralsResult
      <4>7. QED
        BY <4>5, RefusedFails
    <3>2. CASE ~e.ok
      <4>1. ~LiteralLength(at).ok
        BY <2>2, <2>3, <3>2
      <4>2. QED
        BY <1>2, <4>1 DEF Tailed, Failing
    <3>3. QED
      BY <3>1, <3>2
  <2>5. QED
    BY <1>3, <2>1, <2>4, FailedMid
<1>9. QED
  BY <1>7, <1>8

LEMMA ExtendedMid ==
  ASSUME Given, NEW z \in LzType, Formed(z), z.consumed < Len(stream), At(z.consumed) = 0,
         NEW o \in Seq(Byte), z.mode = "Ext", Mid(z, o)
  PROVE  Mid(Extended(Further(z)), o)
<1>1. ~z.failed
  BY DEF Formed
<1>2. CASE z.ext = "Literal"
  BY <1>1, <1>2, MidKinds, ExtendedLiteral
<1>3. CASE z.ext # "Literal"
  BY <1>1, <1>3, MidKinds, ExtendedCopy
<1>4. QED
  BY <1>2, <1>3

\* The byte that ends the count of a copy.
LEMMA ExtensionEndCopy ==
  ASSUME Given, NEW z \in LzType, Formed(z), z.consumed < Len(stream), At(z.consumed) # 0,
         NEW o, NEW n \in Nat, Full[n].status = "goes", Extends(z, o, Full[n])
  PROVE  Mid(ExtensionEnd(Further(z), At(z.consumed)), o)
<1>1. SUFFICES ASSUME NEW r, r = Full[n], NEW t, t = Further(z),
                      NEW b \in Byte, b = At(z.consumed)
               PROVE  Mid(ExtensionEnd(t, b), o)
  <2>1. z.consumed \in Nat
    BY DEF LzType
  <2>2. QED
    BY <2>1, AtByte
<1>2. /\ IsResult(r) /\ r.at \in Nat /\ o = r.out /\ HasCopy(r)
      /\ r.status = "goes" /\ Extends(z, o, r)
  <2>1. IsResult(Full[n])
    BY AfterResult
  <2>2. QED
    BY <1>1, <2>1 DEF IsResult, Extends
<1>3. /\ t \in LzType /\ t.consumed = z.consumed + 1 /\ t.ext = z.ext
      /\ t.op1 = At(r.at) /\ t.acc = Span(z.consumed - (r.at + 1)) /\ ~t.failed
  BY <1>1, <1>2, FurtherFields, ExtendedOpcode DEF Extends
<1>4. /\ z.consumed \in Nat /\ r.at + 1 \in Nat /\ z.consumed \in (r.at + 1)..Len(stream)
      /\ Zeros(r.at + 1, z.consumed) /\ r.at + 1 <= Len(stream)
  <2>1. z.consumed \in Nat /\ Len(stream) \in Nat
    BY DEF LzType, Given
  <2>2. z.consumed > r.at /\ Zeros(r.at + 1, z.consumed)
    BY <1>2 DEF Extends
  <2>3. QED
    BY <1>2, <2>1, <2>2
<1>5. Extension(r.at + 1, 0) = Number(z.consumed + 1, 0 + t.acc + b)
  BY <1>1, <1>3, <1>4, ExtensionAfter
<1> DEFINE k == Base(At(r.at))
<1>6. k \in Nat /\ t.acc \in Nat /\ b \in Nat
  BY <1>2, <1>3, ExtendedOpcode, Bytes DEF LzType
<1>7. LengthAt(r).ok /\ LengthAt(r).at = z.consumed + 1 /\ LengthAt(r).value = (0 + t.acc + b) + k
  BY <1>2, <1>5, ExtendedOpcode DEF Number
<1> DEFINE w == [t EXCEPT !.ext = "None", !.acc = 0, !.count = (t.acc + b) + k, !.mode = "Offset1"]
<1>8. ExtensionEnd(t, b) = w
  <2>1. CASE z.ext = "Count"
    <3>1. k = 9
      BY <1>2, <2>1, ExtendedOpcode DEF Base
    <3>2. QED
      BY <1>3, <2>1, <3>1 DEF ExtensionEnd
  <2>2. CASE z.ext = "Long"
    <3>1. k = LongBase(t.op1)
      BY <1>2, <1>3, <2>2, ExtendedOpcode DEF Base
    <3>2. QED
      BY <1>3, <2>2, <3>1 DEF ExtensionEnd
  <2>3. QED
    BY <1>2, <2>1, <2>2, ExtendedOpcode
<1>9. /\ w.count = (t.acc + b) + k /\ w.mode = "Offset1" /\ w.op1 = At(r.at)
      /\ w.consumed = z.consumed + 1 /\ ~w.failed
  BY <1>3 DEF LzType
<1> HIDE DEF w, k
<1>10. (0 + t.acc + b) + k = (t.acc + b) + k /\ (z.consumed + 1) + 0 = z.consumed + 1
  BY <1>4, <1>6
<1>11. Offsets(w, o, r)
  BY <1>2, <1>7, <1>9, <1>10 DEF Offsets
<1>12. QED
  BY <1>1, <1>2, <1>8, <1>9, <1>11 DEF Mid, InLoop

\* The byte that ends a long literal length.
LEMMA ExtensionEndLiteral ==
  ASSUME Given, NEW z \in LzType, Formed(z), z.consumed < Len(stream), At(z.consumed) # 0,
         NEW o \in Seq(Byte), z.produced = Len(o), z.mode = "Ext", z.ext = "Literal",
         NEW m \in Nat, NEW at \in Nat, Lengths(z, o, m, at)
  PROVE  Mid(ExtensionEnd(Further(z), At(z.consumed)), o)
<1>1. SUFFICES ASSUME NEW t, t = Further(z), NEW b \in Byte, b = At(z.consumed)
               PROVE  Mid(ExtensionEnd(t, b), o)
  <2>1. z.consumed \in Nat
    BY DEF LzType
  <2>2. QED
    BY <2>1, AtByte
<1>2. /\ Tailed(m, at, o) /\ at <= Len(stream) /\ z.consumed > at /\ At(at) = 0
      /\ Zeros(at + 1, z.consumed) /\ z.acc = Lead + Span(z.consumed - (at + 1))
  BY DEF Lengths
<1>3. /\ t \in LzType /\ t.consumed = z.consumed + 1 /\ t.ext = "Literal"
      /\ t.acc = z.acc /\ ~t.failed /\ t.produced = Len(o)
  BY <1>1, FurtherFields DEF Formed
<1>4. /\ z.consumed \in Nat /\ at + 1 \in Nat /\ z.consumed \in (at + 1)..Len(stream)
      /\ at < Len(stream) /\ z.consumed + 1 \in Nat /\ z.consumed + 1 <= Len(stream)
  <2>1. z.consumed \in Nat /\ Len(stream) \in Nat
    BY DEF LzType, Given
  <2>2. QED
    BY <1>2, <2>1
<1>5. t.acc \in Nat /\ b \in Nat /\ Lead \in Nat
      /\ t.acc + b \in Nat /\ (t.acc + b) + 3 \in Nat
  <2>1. t.acc \in Nat /\ b \in Nat /\ Lead \in Nat
    BY <1>3, Bytes, Sizes DEF LzType
  <2> DEFINE a == t.acc
  <2>2. a \in Nat
    BY <2>1
  <2> HIDE DEF a
  <2>3. a + b \in Nat /\ (a + b) + 3 \in Nat
    BY <2>1, <2>2
  <2>4. QED
    BY <2>1, <2>3 DEF a
<1>6. Extension(at + 1, Lead) = Number(z.consumed + 1, t.acc + b)
  <2>1. Extension(at + 1, Lead)
          = Number(z.consumed + 1, Lead + Span(z.consumed - (at + 1)) + At(z.consumed))
    <3>1. /\ at + 1 \in Nat /\ Lead \in Nat /\ at + 1 <= Len(stream)
          /\ z.consumed \in (at + 1)..Len(stream) /\ z.consumed < Len(stream)
      BY <1>4, <1>5
    <3>2. Zeros(at + 1, z.consumed) /\ At(z.consumed) # 0
      BY <1>2
    <3>3. QED
      BY <3>1, <3>2, ExtensionAfter
  <2>2. QED
    BY <1>1, <1>2, <1>3, <2>1
<1>7. /\ LiteralLength(at).ok /\ LiteralLength(at).at = z.consumed + 1
      /\ LiteralLength(at).value = (t.acc + b) + 3
  <2>1. LiteralLength(at) = Plus(Extension(at + 1, Lead), 3)
    BY <1>2, <1>4 DEF LiteralLength, There
  <2>2. /\ Extension(at + 1, Lead).ok /\ Extension(at + 1, Lead).at = z.consumed + 1
        /\ Extension(at + 1, Lead).value = t.acc + b
    BY <1>6 DEF Number
  <2>3. at + 1 <= Len(stream) /\ at + 1 \in Nat /\ 3 \in Nat /\ Lead \in Nat
    BY <1>4, <1>5
  <2>4. /\ Read(Extension(at + 1, Lead), at + 1)
        /\ Read(Plus(Extension(at + 1, Lead), 3), at + 1)
        /\ Plus(Extension(at + 1, Lead), 3).ok = Extension(at + 1, Lead).ok
        /\ Extension(at + 1, Lead).ok =>
             /\ Plus(Extension(at + 1, Lead), 3).value = Extension(at + 1, Lead).value + 3
             /\ Plus(Extension(at + 1, Lead), 3).at = Extension(at + 1, Lead).at
    BY <2>3, ExtensionRead
  <2>5. QED
    BY <2>1, <2>2, <2>4
<1>8. Full[m] = Literals(z.consumed + 1, (t.acc + b) + 3, o)
  BY <1>2, <1>7 DEF Tailed
<1> DEFINE y == [t EXCEPT !.ext = "None", !.acc = 0]
<1>9. ExtensionEnd(t, b) = Literal(y, (t.acc + b) + 3)
  BY <1>3 DEF ExtensionEnd
<1>10. y \in LzType
  BY <1>3, Names DEF LzType
<1>11. y.consumed = z.consumed + 1 /\ ~y.failed /\ y.produced = Len(o) /\ y.mode = "Ext"
  BY <1>1, <1>3, <1>10, FurtherFields DEF LzType
<1> HIDE DEF y
<1>12. QED
  BY <1>4, <1>5, <1>8, <1>9, <1>10, <1>11, LiteralMid

LEMMA ExtensionEndMid ==
  ASSUME Given, NEW z \in LzType, Formed(z), z.consumed < Len(stream), At(z.consumed) # 0,
         NEW o \in Seq(Byte), z.produced = Len(o), z.mode = "Ext", Mid(z, o)
  PROVE  Mid(ExtensionEnd(Further(z), At(z.consumed)), o)
<1>1. ~z.failed
  BY DEF Formed
<1>2. CASE z.ext = "Literal"
  BY <1>1, <1>2, MidKinds, ExtensionEndLiteral
<1>3. CASE z.ext # "Literal"
  BY <1>1, <1>3, MidKinds, ExtensionEndCopy
<1>4. QED
  BY <1>2, <1>3

\* The first byte of an offset.
LEMMA Offset1Mid ==
  ASSUME Given, NEW z \in LzType, Formed(z), z.consumed < Len(stream),
         NEW o, z.mode = "Offset1", Mid(z, o)
  PROVE  Mid([Further(z) EXCEPT !.first = At(z.consumed), !.mode = "Offset2"], o)
<1> DEFINE t == Further(z)
           w == [t EXCEPT !.first = At(z.consumed), !.mode = "Offset2"]
<1>1. ~z.failed
  BY DEF Formed
<1>2. PICK n \in Nat : Full[n].status = "goes" /\ Offsets(z, o, Full[n])
  BY <1>1, MidKinds
<1>3. /\ t \in LzType /\ t.consumed = z.consumed + 1 /\ t.op1 = z.op1 /\ t.count = z.count
      /\ ~t.failed /\ z.consumed \in Nat
  BY <1>1, FurtherFields DEF LzType
<1> HIDE DEF t
<1>4. /\ w.consumed = z.consumed + 1 /\ w.op1 = z.op1 /\ w.count = z.count /\ ~w.failed
      /\ w.first = At(z.consumed) /\ w.mode = "Offset2"
  BY <1>3 DEF LzType
<1> HIDE DEF w
<1>5. z.consumed = LengthAt(Full[n]).at
  <2>1. z.consumed = LengthAt(Full[n]).at + 0 /\ LengthAt(Full[n]).ok /\ HasCopy(Full[n])
    BY <1>2 DEF Offsets
  <2>2. LengthAt(Full[n]).at \in (Full[n].at + 1)..Len(stream) /\ Full[n].at + 1 \in Nat
    BY <2>1, AfterResult, OpcodeParts
  <2> DEFINE a == LengthAt(Full[n]).at
             b == Full[n].at + 1
  <2>3. a \in b..Len(stream) /\ b \in Nat
    BY <2>2
  <2> HIDE DEF a, b
  <2>4. a + 0 = a
    BY <2>3
  <2>5. QED
    BY <2>1, <2>4 DEF a
<1>6. Offsets(w, o, Full[n])
  BY <1>2, <1>4, <1>5 DEF Offsets
<1>7. QED
  BY <1>2, <1>4, <1>6 DEF Mid, InLoop, w, t

\* The decoder is told of a copy that is all read.
LEMMA CopyFromMid ==
  ASSUME Given, NEW y \in LzType, ~y.failed, y.mode # "Done",
         NEW n \in Nat, NEW r, r = Full[n], r.status = "goes", HasCopy(r),
         LengthAt(r).ok, y.count = LengthAt(r).value,
         OffsetAt(r).ok, y.consumed = OffsetAt(r).at, y.produced = Len(r.out)
  PROVE  Mid(CopyFrom(y, OffsetAt(r).far, OffsetAt(r).lit), r.out)
<1>1. SUFFICES ASSUME NEW far \in Nat, far = OffsetAt(r).far, far >= 1,
                      NEW lit \in 0..3, lit = OffsetAt(r).lit,
                      NEW k \in Nat, k = LengthAt(r).value,
                      NEW o \in Seq(Byte), o = r.out
               PROVE  Mid(CopyFrom(y, far, lit), o)
  <2>1. IsResult(r)
    BY AfterResult
  <2>2. OffsetAt(r).far \in 1..(Window - 1) /\ OffsetAt(r).lit \in 0..3 /\ LengthAt(r).value \in Nat
    BY <2>1, OpcodeParts
  <2>3. r.out \in Seq(Byte)
    BY <2>1 DEF IsResult
  <2> DEFINE f == OffsetAt(r).far
  <2>4. f \in 1..(Window - 1)
    BY <2>2
  <2> HIDE DEF f
  <2>5. f \in Nat /\ f >= 1
    BY <2>4, Sizes
  <2>6. QED
    BY <2>2, <2>3, <2>5 DEF f
<1>2. IsResult(r) /\ Len(o) \in Nat /\ limit \in Nat /\ lit \in Nat
  BY AfterResult DEF Given
<1>3. n + 1 \in Nat /\ Full[n + 1] = OneOpcode(r, limit)
  <2>1. Full[n + 1] = OneOpcode(Full[n], limit)
    BY AfterSteps
  <2>2. QED
    BY <2>1
<1>4. y.count = k /\ y.produced = Len(o)
  BY <1>1
<1>5. CopyTaken(r) <=> Len(o) + k <= limit /\ far <= Len(o)
  BY <1>1 DEF CopyTaken
<1>6. CopyTaken(r) =>
        /\ AllCopied(r) \in Seq(Byte) /\ Len(AllCopied(r)) = Len(o) + k
        /\ IsPrefix(o, AllCopied(r))
  BY <1>1, <1>2, CopiedBytes
<1>7. CASE Reaches(y, far) /\ Fits(y, y.count + lit)
  <2> DEFINE w == [y EXCEPT !.op1 = 0, !.distance = far, !.lit = lit, !.mode = "Copy"]
  <2>1. CopyFrom(y, far, lit) = w
    BY <1>7 DEF CopyFrom
  <2>2. /\ w.mode = "Copy" /\ w.distance = far /\ w.lit = lit /\ w.count = k /\ ~w.failed
        /\ w.consumed = OffsetAt(r).at
    BY <1>1 DEF LzType
  <2> HIDE DEF w
  <2>3. CopyTaken(r)
    BY <1>2, <1>4, <1>5, <1>7 DEF Reaches, Fits
  <2>4. Copies(w, o, r)
    BY <1>1, <1>2, <1>6, <2>2, <2>3 DEF Copies
  <2>5. QED
    BY <2>1, <2>2, <2>4 DEF Mid, InLoop
<1>8. CASE ~(Reaches(y, far) /\ Fits(y, y.count + lit))
  <2>1. CopyFrom(y, far, lit) = Failed(y)
    BY <1>8 DEF CopyFrom
  <2>2. CASE ~CopyTaken(r)
    <3>1. Full[n + 1] = Refused(r.at, o)
      BY <1>1, <1>2, <1>3, <2>2, OpcodeOutcome
    <3>2. QED
      BY <1>3, <2>1, <3>1, RefusedFails, FailedMid
  <2>3. CASE CopyTaken(r)
    <3>1. lit > 0 /\ (Len(o) + k) + lit > limit
      BY <1>2, <1>4, <1>5, <1>8, <2>3 DEF Reaches, Fits
    <3>2. Full[n + 1] = Literals(OffsetAt(r).at, lit, AllCopied(r))
      BY <1>1, <1>2, <1>3, <2>3, <3>1, OpcodeOutcome
    <3>3. OffsetAt(r).at \in Nat /\ OffsetAt(r).at <= Len(stream)
      <4>1. r.at + 1 \in Nat /\ OffsetAt(r).at \in (r.at + 2)..Len(stream) /\ r.at \in Nat
        BY <1>2, OpcodeParts DEF IsResult
      <4> DEFINE a == OffsetAt(r).at
                 b == r.at
      <4>2. a \in (b + 2)..Len(stream) /\ b \in Nat /\ Len(stream) \in Nat
        BY <4>1 DEF Given
      <4> HIDE DEF a, b
      <4>3. QED
        BY <4>2 DEF a
    <3>4. Full[n + 1] = Refused(OffsetAt(r).at, AllCopied(r))
      BY <1>2, <1>6, <2>3, <3>1, <3>2, <3>3, LiteralsResult
    <3>5. Failing(o, n + 1)
      BY <1>6, <2>3, <3>4 DEF Refused, Result, Failing
    <3>6. QED
      BY <1>3, <2>1, <3>5, FailedMid
  <2>4. QED
    BY <2>2, <2>3
<1>9. QED
  BY <1>7, <1>8

\* The second byte of an offset, and the only one of a short opcode's.
LEMMA Offset2Mid ==
  ASSUME Given, NEW z \in LzType, Formed(z), z.consumed < Len(stream),
         NEW o, z.produced = Len(o), z.mode = "Offset2", Mid(z, o)
  PROVE  Mid(CopyFrom([Further(z) EXCEPT !.first = 0],
                      Distance(z.op1, (z.first \div 4) + At(z.consumed) * 64), z.first % 4), o)
<1>1. ~z.failed /\ z.op1 \in {16} \cup 18..63
  BY DEF Formed
<1>2. PICK n \in Nat : Full[n].status = "goes" /\ Offsets(z, o, Full[n])
  BY <1>1, MidKinds
<1>3. SUFFICES ASSUME NEW r, r = Full[n], NEW a \in Nat, a = LengthAt(r).at,
                      NEW op \in Byte, op = At(r.at)
               PROVE  Mid(CopyFrom([Further(z) EXCEPT !.first = 0],
                                   Distance(op, (z.first \div 4) + At(z.consumed) * 64),
                                   z.first % 4), o)
  <2>1. z.op1 = At(Full[n].at) /\ z.op1 \in Byte /\ HasCopy(Full[n]) /\ LengthAt(Full[n]).ok
    BY <1>2 DEF Offsets, LzType
  <2>2. LengthAt(Full[n]).at \in (Full[n].at + 1)..Len(stream) /\ Full[n].at + 1 \in Nat
    BY <2>1, AfterResult, OpcodeParts
  <2> DEFINE b == LengthAt(Full[n]).at
             c == Full[n].at + 1
  <2>3. b \in c..Len(stream) /\ c \in Nat
    BY <2>2
  <2> HIDE DEF b, c
  <2>4. b \in Nat
    BY <2>3
  <2>5. QED
    BY <2>1, <2>4 DEF b
<1>4. /\ r.status = "goes" /\ IsResult(r) /\ HasCopy(r) /\ o = r.out
      /\ LengthAt(r).ok /\ z.count = LengthAt(r).value
      /\ z.consumed = a + 1 /\ z.first = At(a) /\ z.op1 = op
  BY <1>2, <1>3, AfterResult DEF Offsets
<1>5. a + 1 < Len(stream) /\ a < Len(stream) /\ a + 2 = z.consumed + 1 /\ Len(stream) \in Nat
  BY <1>4 DEF Given
<1>6. op >= 16 /\ op # 17 /\ op < 64
  <2>1. op \in {16} \cup 18..63
    BY <1>1, <1>4
  <2>2. QED
    BY <2>1
<1>7. /\ OffsetAt(r).ok /\ OffsetAt(r).at = a + 2 /\ OffsetAt(r).lit = z.first % 4
      /\ OffsetAt(r).far = Distance(op, (z.first \div 4) + At(z.consumed) * 64)
  <2>1. OffsetAt(r) = Offset(op, a)
    BY <1>3 DEF OffsetAt
  <2>2. /\ Offset(op, a).ok /\ Offset(op, a).at = a + 2 /\ Offset(op, a).lit = At(a) % 4
        /\ Offset(op, a).far = Distance(op, (At(a) \div 4) + At(a + 1) * 64)
    BY <1>5, <1>6, OffsetRead
  <2>3. QED
    BY <1>4, <2>1, <2>2
<1> DEFINE t == Further(z)
           y == [t EXCEPT !.first = 0]
<1>8. t \in LzType /\ t.consumed = z.consumed + 1 /\ t.produced = z.produced
      /\ t.mode = "Offset2" /\ ~t.failed /\ t.count = z.count
  BY <1>1, FurtherFields
<1> HIDE DEF t
<1>9. y \in LzType
  BY <1>8, Bytes DEF LzType
<1>10. y.consumed = z.consumed + 1 /\ y.produced = z.produced
      /\ y.mode = "Offset2" /\ ~y.failed /\ y.count = z.count
  BY <1>8 DEF LzType
<1> HIDE DEF y
<1>11. y.consumed = OffsetAt(r).at /\ y.count = LengthAt(r).value /\ y.produced = Len(r.out)
  BY <1>4, <1>5, <1>7, <1>10
<1>12. Mid(CopyFrom(y, OffsetAt(r).far, OffsetAt(r).lit), r.out)
  BY <1>3, <1>4, <1>7, <1>9, <1>10, <1>11, CopyFromMid
<1>13. QED
  BY <1>4, <1>7, <1>12 DEF y, t

LEMMA Op2Mid ==
  ASSUME Given, NEW z \in LzType, Formed(z), z.consumed < Len(stream),
         NEW o, z.produced = Len(o), z.mode = "Op2", Mid(z, o)
  PROVE  Mid(CopyFrom(Further(z), ((At(z.consumed) * 4 + (z.op1 % 16) \div 4) % Far) + 1,
                      z.op1 % 4), o)
<1>1. ~z.failed /\ z.op1 >= 64 /\ z.consumed \in Nat
  BY DEF Formed, LzType
<1>2. PICK n \in Nat : Full[n].status = "goes" /\ Offsets(z, o, Full[n])
  BY <1>1, MidKinds
<1>3. SUFFICES ASSUME NEW r, r = Full[n], NEW op \in Byte, op = z.op1
               PROVE  Mid(CopyFrom(Further(z), ((At(z.consumed) * 4 + (op % 16) \div 4) % Far) + 1,
                                   op % 4), o)
  BY DEF LzType
<1>4. /\ r.status = "goes" /\ IsResult(r) /\ HasCopy(r) /\ o = r.out
      /\ LengthAt(r).ok /\ z.count = LengthAt(r).value
      /\ z.consumed = LengthAt(r).at + 0 /\ op = At(r.at)
  BY <1>2, <1>3, AfterResult DEF Offsets
<1>5. z.consumed = LengthAt(r).at
  <2>1. LengthAt(r).at \in (r.at + 1)..Len(stream) /\ r.at + 1 \in Nat
    BY <1>4, OpcodeParts
  <2> DEFINE b == LengthAt(r).at
             c == r.at + 1
  <2>2. b \in c..Len(stream) /\ c \in Nat
    BY <2>1
  <2> HIDE DEF b, c
  <2>3. b + 0 = b
    BY <2>2
  <2>4. QED
    BY <1>4, <2>3 DEF b
<1>6. op >= 16 /\ op # 17 /\ op >= 64
  <2>1. op >= 64 /\ op \in Nat
    BY <1>1, <1>3, Bytes
  <2>2. QED
    BY <2>1
<1>7. /\ OffsetAt(r).ok /\ OffsetAt(r).at = z.consumed + 1 /\ OffsetAt(r).lit = op % 4
      /\ OffsetAt(r).far = ((At(z.consumed) * 4 + (op % 16) \div 4) % Far) + 1
  <2>1. OffsetAt(r) = Offset(op, z.consumed)
    BY <1>4, <1>5 DEF OffsetAt
  <2>2. /\ Offset(op, z.consumed).ok /\ Offset(op, z.consumed).at = z.consumed + 1
        /\ Offset(op, z.consumed).lit = op % 4
        /\ Offset(op, z.consumed).far = ((At(z.consumed) * 4 + (op % 16) \div 4) % Far) + 1
    BY <1>1, <1>6, OffsetRead
  <2>3. QED
    BY <2>1, <2>2
<1> DEFINE t == Further(z)
<1>8. t \in LzType /\ t.consumed = z.consumed + 1 /\ t.produced = z.produced
      /\ t.mode = "Op2" /\ ~t.failed /\ t.count = z.count
  BY <1>1, FurtherFields
<1> HIDE DEF t
<1>9. t.consumed = OffsetAt(r).at /\ t.count = LengthAt(r).value /\ t.produced = Len(r.out)
  BY <1>4, <1>7, <1>8
<1>10. Mid(CopyFrom(t, OffsetAt(r).far, OffsetAt(r).lit), r.out)
  BY <1>3, <1>4, <1>7, <1>8, <1>9, CopyFromMid
<1>11. QED
  BY <1>4, <1>7, <1>10 DEF t

\* A byte more of a sequence that is known.
LEMMA OneMore ==
  ASSUME NEW o \in Seq(Byte), NEW s \in Seq(Byte), IsPrefix(o, s), Len(o) < Len(s)
  PROVE  /\ s[Len(o) + 1] \in Byte
         /\ Append(o, s[Len(o) + 1]) \in Seq(Byte)
         /\ Len(Append(o, s[Len(o) + 1])) = Len(o) + 1
         /\ IsPrefix(Append(o, s[Len(o) + 1]), s)
         /\ Len(o) + 1 = Len(s) => Append(o, s[Len(o) + 1]) = s
<1> DEFINE b == s[Len(o) + 1]
           p == Append(o, b)
<1>1. Len(o) <= Len(s) /\ \A i \in 1..Len(o) : o[i] = s[i]
  BY PrefixByByte
<1>2. b \in Byte
  OBVIOUS
<1>3. p \in Seq(Byte) /\ Len(p) = Len(o) + 1 /\ \A i \in 1..Len(o) : p[i] = o[i]
  BY <1>2
<1>4. p[Len(o) + 1] = b
  BY <1>2
<1>5. \A i \in 1..Len(p) : p[i] = s[i]
  <2>1. \A i \in 1..Len(p) : i \in 1..Len(o) \/ i = Len(o) + 1
    BY <1>3
  <2>2. p[Len(o) + 1] = s[Len(o) + 1]
    BY <1>4
  <2> HIDE DEF p
  <2>3. QED
    BY <1>1, <1>3, <2>1, <2>2
<1>6. IsPrefix(p, s)
  <2>1. Len(p) <= Len(s)
    BY <1>3
  <2> HIDE DEF p
  <2>2. QED
    BY <1>3, <1>5, <2>1, PrefixByByte
<1>7. Len(o) + 1 = Len(s) => p = s
  <2> HIDE DEF p
  <2>1. QED
    BY <1>3, <1>5, SameBytes
<1>8. QED
  BY <1>2, <1>3, <1>6, <1>7

\* The copy is all given out: the decoder after its last byte.
LEMMA CopiedMid ==
  ASSUME Given, NEW z \in LzType, ~z.failed, z.mode = "Copy", z.count = 0,
         NEW n \in Nat, NEW r, r = Full[n], r.status = "goes", HasCopy(r), CopyTaken(r),
         z.consumed = OffsetAt(r).at, z.lit = OffsetAt(r).lit,
         Len(AllCopied(r)) + z.lit <= limit
  PROVE  Mid(Copied(z), AllCopied(r))
<1>1. SUFFICES ASSUME NEW all \in Seq(Byte), all = AllCopied(r),
                      NEW at \in Nat, at = OffsetAt(r).at, at <= Len(stream)
               PROVE  Mid(Copied(z), all)
  <2>1. IsResult(r) /\ AllCopied(r) \in Seq(Byte)
    BY AfterResult, CopiedBytes
  <2>2. OffsetAt(r).at \in (r.at + 2)..Len(stream) /\ r.at \in Nat
    BY <2>1, OpcodeParts DEF IsResult, CopyTaken
  <2> DEFINE a == OffsetAt(r).at
             b == r.at
  <2>3. a \in (b + 2)..Len(stream) /\ b \in Nat /\ Len(stream) \in Nat
    BY <2>2 DEF Given
  <2> HIDE DEF a, b
  <2>4. a \in Nat /\ a <= Len(stream)
    BY <2>3
  <2>5. QED
    BY <2>1, <2>4 DEF a
<1>2. IsResult(r) /\ IsPrefix(r.out, all) /\ n + 1 \in Nat
  BY <1>1, AfterResult, CopiedBytes
<1>3. Full[n + 1] = OneOpcode(r, limit)
  <2>1. Full[n + 1] = OneOpcode(Full[n], limit)
    BY AfterSteps
  <2>2. QED
    BY <2>1
<1>4. CASE z.lit = 0
  <2> DEFINE w == [z EXCEPT !.mode = "LitLen", !.distance = 0]
             lits == LiteralLength(at)
  <2>1. Copied(z) = w
    BY <1>4 DEF Copied
  <2>2. w.mode = "LitLen" /\ w.consumed = at /\ ~w.failed
    BY <1>1 DEF LzType
  <2> HIDE DEF w
  <2>3. ~(OffsetAt(r).lit > 0)
    BY <1>4
  <2>4. Full[n + 1] = IF lits.ok THEN Literals(lits.at, lits.value, all) ELSE Refused(r.at, r.out)
    BY <1>1, <1>2, <1>3, <2>3, OpcodeOutcome
  <2> HIDE DEF lits
  <2>5. Tailed(n + 1, at, all)
    BY <1>2, <2>4 DEF Tailed, Refused, Result, lits
  <2>6. Lengths(w, all, n + 1, at)
    BY <1>1, <2>2, <2>5 DEF Lengths
  <2>7. QED
    BY <1>2, <2>1, <2>2, <2>6 DEF Mid
<1>5. CASE z.lit # 0
  <2> DEFINE k == z.lit
             w == [z EXCEPT !.mode = "Literal", !.distance = 0, !.count = z.lit, !.lit = 0]
  <2>1. Copied(z) = w
    BY <1>5 DEF Copied
  <2>2. w.mode = "Literal" /\ w.consumed = at /\ w.count = k /\ ~w.failed
    BY <1>1 DEF LzType
  <2> HIDE DEF w
  <2>3. k \in Nat /\ k > 0 /\ k <= k /\ at = at + (k - k)
    BY <1>5, SMTT(30) DEF LzType
  <2>4. Full[n + 1] = Literals(at, k, all) /\ Len(all) + k <= limit
    BY <1>1, <1>2, <1>3, <2>3, OpcodeOutcome
  <2>5. all = all \o SubSeq(stream, at + 1, at)
    <3> DEFINE e == SubSeq(stream, at + 1, at)
    <3>1. at + 0 = at /\ at + 0 <= Len(stream) /\ 0 \in Nat
      BY <1>1
    <3>2. SubSeq(stream, at + 1, at + 0) \in Seq(Byte) /\ Len(SubSeq(stream, at + 1, at + 0)) = 0
      BY <3>1, SliceFacts
    <3>3. e \in Seq(Byte) /\ Len(e) = 0
      BY <3>1, <3>2
    <3> HIDE DEF e
    <3>4. e = <<>>
      BY <3>3
    <3>5. all \o <<>> = all
      OBVIOUS
    <3>6. QED
      BY <3>4, <3>5 DEF e
  <2> HIDE DEF k
  <2>6. Giving(w, all, n + 1, at, k, all)
    BY <2>2, <2>3, <2>4, <2>5 DEF Giving
  <2>7. QED
    BY <1>2, <2>1, <2>2, <2>3, <2>6 DEF Mid
<1>6. QED
  BY <1>4, <1>5

\* A byte of a copy.
LEMMA CopyByteMid ==
  ASSUME Given, NEW z \in LzType, Formed(z), z.mode = "Copy",
         NEW o \in Seq(Byte), z.produced = Len(o), Mid(z, o),
         NEW y, y = [z EXCEPT !.produced = @ + 1, !.count = @ - 1],
         NEW b, b = o[(Len(o) - z.distance) + 1]
  PROVE  Mid(IF y.count = 0 THEN Copied(y) ELSE y, Append(o, b))
<1>1. ~z.failed /\ z.count >= 1 /\ CopyOk(z)
  BY DEF Formed
<1>2. PICK n \in Nat : Full[n].status = "goes" /\ Copies(z, o, Full[n])
  BY <1>1, MidKinds
<1>3. SUFFICES ASSUME NEW r, r = Full[n], NEW all \in Seq(Byte), all = AllCopied(r),
                      NEW far \in Nat, far = z.distance, far >= 1
               PROVE  Mid(IF y.count = 0 THEN Copied(y) ELSE y, Append(o, b))
  <2>1. AllCopied(Full[n]) \in Seq(Byte)
    BY <1>2, AfterResult, CopiedBytes DEF Copies
  <2>2. z.distance \in Nat /\ z.distance >= 1
    BY <1>2 DEF Copies, LzType
  <2>3. QED
    BY <2>1, <2>2
<1>4. /\ r.status = "goes" /\ IsResult(r) /\ HasCopy(r) /\ CopyTaken(r)
      /\ z.consumed = OffsetAt(r).at /\ far = OffsetAt(r).far /\ z.lit = OffsetAt(r).lit
      /\ IsPrefix(o, all) /\ Len(r.out) <= Len(o) /\ Len(o) + z.count = Len(all)
      /\ far <= Len(r.out)
  BY <1>2, <1>3, AfterResult DEF Copies, CopyTaken
<1>5. Len(o) \in Nat /\ Len(all) \in Nat /\ z.count \in Nat /\ Len(o) < Len(all) /\ Len(r.out) \in Nat
  BY <1>1, <1>4, SMTT(30) DEF LzType, IsResult
<1>6. b = all[Len(o) + 1]
  <2> DEFINE l == Len(r.out)
             i == Len(o) + 1
  <2>1. \A j \in (Len(r.out) + 1)..Len(all) : all[j] = all[j - far]
    BY <1>3, <1>4, CopiedBytes
  <2>2. \A j \in 1..Len(o) : o[j] = all[j]
    BY <1>4, PrefixByByte
  <2>3. l \in Nat /\ l <= Len(o) /\ far <= l
    BY <1>4, <1>5
  <2> HIDE DEF l
  <2>4. i \in (l + 1)..Len(all) /\ i - far \in 1..Len(o) /\ i - far = (Len(o) - far) + 1
    BY <1>3, <1>5, <2>3
  <2>5. all[i] = all[i - far]
    BY <2>1, <2>4 DEF l
  <2>6. o[i - far] = all[i - far]
    BY <2>2, <2>4
  <2>7. QED
    BY <1>3, <2>4, <2>5, <2>6
<1> DEFINE p == Append(o, b)
<1>7. /\ p \in Seq(Byte) /\ Len(p) = Len(o) + 1 /\ IsPrefix(p, all)
      /\ Len(o) + 1 = Len(all) => p = all
  BY <1>4, <1>5, <1>6, OneMore
<1>8. /\ y.count = z.count - 1 /\ y.mode = "Copy" /\ y.consumed = z.consumed
      /\ y.distance = z.distance /\ y.lit = z.lit /\ ~y.failed
  BY <1>1 DEF LzType
<1> HIDE DEF p
<1>9. CASE y.count = 0
  <2>1. y \in LzType
    <3>1. z.count - 1 \in Nat /\ z.produced + 1 \in Nat
      BY <1>1 DEF LzType
    <3>2. QED
      BY <3>1 DEF LzType
  <2>2. Len(o) + 1 = Len(all)
    BY <1>4, <1>5, <1>8, <1>9
  <2>3. p = all
    BY <1>7, <2>2
  <2>4. Len(all) + y.lit <= limit
    <3>1. z.count + z.lit <= limit - z.produced /\ z.lit \in Nat /\ limit \in Nat
      BY <1>1, SMTT(30) DEF CopyOk, Given, LzType
    <3>2. QED
      BY <1>4, <1>5, <1>8, <3>1
  <2>5. Mid(Copied(y), all)
    BY <1>3, <1>4, <1>8, <1>9, <2>1, <2>4, CopiedMid
  <2>6. QED
    BY <1>9, <2>3, <2>5 DEF p
<1>10. CASE y.count # 0
  <2>1. Len(p) + y.count = Len(all) /\ Len(r.out) <= Len(p)
    BY <1>4, <1>5, <1>7, <1>8, SMTT(30)
  <2>2. Copies(y, p, r)
    BY <1>3, <1>4, <1>7, <1>8, <2>1 DEF Copies
  <2>3. Mid(y, p)
    BY <1>3, <1>4, <1>8, <2>2 DEF Mid, InLoop
  <2>4. QED
    BY <1>10, <2>3 DEF p
<1>11. QED
  BY <1>9, <1>10

\* A literal byte.
LEMMA LiteralByteMid ==
  ASSUME Given, NEW z \in LzType, Formed(z), z.mode = "Literal", z.consumed < Len(stream),
         NEW o \in Seq(Byte), z.produced = Len(o), Mid(z, o),
         NEW y, y = [Further(z) EXCEPT !.produced = @ + 1, !.count = @ - 1],
         NEW b, b = At(z.consumed)
  PROVE  Mid(IF y.count = 0 THEN [y EXCEPT !.mode = "Opcode"] ELSE y, Append(o, b))
<1>1. ~z.failed /\ z.count >= 1 /\ z.consumed \in Nat /\ z.count \in Nat
  BY DEF Formed, LzType
<1>2. PICK m, at, n \in Nat, base \in Seq(Byte) : Giving(z, o, m, at, n, base)
  BY <1>1, MidKinds
<1>3. /\ Full[m] = Literals(at, n, base) /\ Len(base) + n <= limit
      /\ z.count <= n /\ z.consumed = at + (n - z.count)
      /\ o = base \o SubSeq(stream, at + 1, z.consumed)
  BY <1>2 DEF Giving
<1>14. PICK k \in Nat : z.count + k = n /\ z.consumed = at + k
  <2>1. n - z.count \in Nat /\ z.count + (n - z.count) = n
    BY <1>1, <1>3
  <2>2. QED
    BY <1>3, <2>1
<1>4. /\ k + 1 \in Nat /\ k + 1 <= n /\ k <= k + 1
      /\ at + (k + 1) <= Len(stream) /\ at + k <= Len(stream) /\ Len(stream) \in Nat
      /\ z.consumed + 1 = at + (k + 1)
  <2>1. Len(stream) \in Nat
    BY DEF Given
  <2>2. QED
    BY <1>1, <1>14, <2>1, SMTT(30)
<1>5. o = base \o SubSeq(stream, at + 1, at + k)
  BY <1>3, <1>14
<1> DEFINE s == base \o SubSeq(stream, at + 1, at + (k + 1))
<1>6. /\ s \in Seq(Byte) /\ Len(s) = Len(base) + (k + 1)
      /\ IsPrefix(o, s) /\ Len(o) = Len(base) + k
  <2> HIDE DEF s
  <2>1. /\ base \o SubSeq(stream, at + 1, at + (k + 1)) \in Seq(Byte)
        /\ Len(base \o SubSeq(stream, at + 1, at + (k + 1))) = Len(base) + (k + 1)
    <3>1. ASSUME NEW q \in Nat, at + q <= Len(stream)
          PROVE  /\ base \o SubSeq(stream, at + 1, at + q) \in Seq(Byte)
                 /\ Len(base \o SubSeq(stream, at + 1, at + q)) = Len(base) + q
      <4>1. q <= q
        OBVIOUS
      <4>2. QED
        BY <3>1, <4>1, SlicesGrow
    <3>2. QED
      BY <1>4, <3>1
  <2>2. /\ Len(base \o SubSeq(stream, at + 1, at + k)) = Len(base) + k
        /\ IsPrefix(base \o SubSeq(stream, at + 1, at + k),
                    base \o SubSeq(stream, at + 1, at + (k + 1)))
    BY <1>4, SlicesGrow, SMTT(30)
  <2>3. QED
    BY <1>5, <2>1, <2>2 DEF s
<1> HIDE DEF s
<1>7. s[Len(o) + 1] = b
  <2>1. /\ SubSeq(stream, at + 1, at + (k + 1)) \in Seq(Byte)
        /\ Len(SubSeq(stream, at + 1, at + (k + 1))) = k + 1
        /\ SubSeq(stream, at + 1, at + (k + 1))[k + 1] = stream[at + (k + 1)]
    <3>1. k + 1 \in 1..(k + 1)
      OBVIOUS
    <3>2. QED
      BY <1>4, <3>1, SliceFacts
  <2> DEFINE e == SubSeq(stream, at + 1, at + (k + 1))
  <2>2. e \in Seq(Byte) /\ Len(e) = k + 1 /\ e[k + 1] = stream[at + (k + 1)]
    BY <2>1
  <2> HIDE DEF e
  <2>3. (base \o e)[Len(base) + (k + 1)] = e[k + 1]
    BY <1>4, <2>2, SMTT(30)
  <2>4. Len(o) + 1 = Len(base) + (k + 1)
    BY <1>4, <1>6
  <2>5. b = stream[at + (k + 1)]
    BY <1>4 DEF At
  <2>6. QED
    BY <2>2, <2>3, <2>4, <2>5 DEF e, s
<1> DEFINE p == Append(o, b)
<1>8. p = s
  <2>1. Len(o) \in Nat /\ Len(o) < Len(s) /\ Len(o) + 1 = Len(s)
    BY <1>4, <1>6, SMTT(30)
  <2>2. QED
    BY <1>6, <1>7, <2>1, OneMore
<1> DEFINE t == Further(z)
<1>9. t \in LzType /\ t.consumed = z.consumed + 1 /\ t.count = z.count /\ t.mode = "Literal"
      /\ ~t.failed
  BY <1>1, FurtherFields
<1> HIDE DEF t
<1>10. y = [t EXCEPT !.produced = @ + 1, !.count = @ - 1]
  BY DEF t
<1>11. y.consumed = at + (k + 1) /\ y.count = z.count - 1 /\ y.mode = "Literal" /\ ~y.failed
  BY <1>4, <1>9, <1>10 DEF LzType
<1> HIDE DEF p
<1>12. CASE y.count = 0
  <2> DEFINE w == [y EXCEPT !.mode = "Opcode"]
  <2>1. k + 1 = n
    BY <1>1, <1>11, <1>12, <1>14, SMTT(30)
  <2>2. w.mode = "Opcode" /\ w.consumed = y.consumed /\ ~w.failed
    BY <1>9, <1>10, <1>11 DEF LzType
  <2> HIDE DEF w
  <2>3. Full[m] = Result("goes", at + n, base \o SubSeq(stream, at + 1, at + n))
    <3>1. at <= Len(stream) /\ at + n <= Len(stream)
      BY <1>4, <2>1
    <3>2. QED
      BY <1>3, <3>1, LiteralsResult
  <2>6. Full[m] = Result("goes", at + (k + 1), s)
    BY <2>1, <2>3 DEF s
  <2>4. Full[m].status = "goes" /\ AtHead(w, p, Full[m])
    BY <1>8, <1>11, <2>2, <2>6 DEF AtHead, Result
  <2>5. Mid(w, p)
    BY <1>2, <2>2, <2>4 DEF Mid, InLoop
  <2>7. QED
    BY <1>12, <2>5 DEF w, p
<1>13. CASE y.count # 0
  <2>1. y.count <= n /\ k + 1 = n - y.count
    BY <1>1, <1>11, <1>14, SMTT(30)
  <2>2. y.consumed = at + (n - y.count)
    BY <1>11, <2>1
  <2>3. p = base \o SubSeq(stream, at + 1, y.consumed)
    BY <1>8, <1>11 DEF s
  <2>4. Giving(y, p, m, at, n, base)
    BY <1>3, <1>11, <2>1, <2>2, <2>3 DEF Giving
  <2>5. Mid(y, p)
    BY <1>2, <1>11, <2>4 DEF Mid
  <2>6. QED
    BY <1>13, <2>5 DEF p
<1>15. QED
  BY <1>12, <1>13

\* An opcode, and a literal length, where the decoder expects them.
LEMMA HeadMid ==
  ASSUME Given, NEW z \in LzType, Formed(z), z.mode = "Opcode", z.consumed < Len(stream),
         NEW o, z.produced = Len(o), Mid(z, o)
  PROVE  Mid(Opcode(Further(z), At(z.consumed)), o)
<1>1. /\ ~z.failed /\ z.produced <= limit /\ Quiet(z) /\ z.count = 0 /\ NoOffset(z)
      /\ z.consumed \in Nat
  BY DEF Formed, LzType
<1>2. PICK n \in Nat : Full[n].status = "goes" /\ AtHead(z, o, Full[n])
  BY <1>1, MidKinds
<1>3. z.consumed = Full[n].at /\ o = Full[n].out
  BY <1>2 DEF AtHead
<1> DEFINE t == Further(z)
<1>4. t \in LzType /\ t.consumed = z.consumed + 1 /\ t.mode # "Done" /\ Blank(t)
  <2>1. z.consumed + 1 > 0
    BY <1>1
  <2>2. QED
    BY <1>1, <2>1, FurtherFields DEF Blank, Quiet, NoOffset
<1> HIDE DEF t
<1>5. Mid(Opcode(t, At(Full[n].at)), Full[n].out)
  BY <1>2, <1>3, <1>4, OpcodeMid
<1>6. QED
  BY <1>3, <1>5 DEF t

LEMMA LengthsMid ==
  ASSUME Given, NEW z \in LzType, Formed(z), z.mode \in {"Start", "LitLen"},
         z.consumed < Len(stream), NEW o \in Seq(Byte), z.produced = Len(o), Mid(z, o)
  PROVE  Mid(Length(Further(z), At(z.consumed)), o)
<1>1. /\ ~z.failed /\ z.produced <= limit /\ Quiet(z) /\ z.count = 0 /\ NoOffset(z)
      /\ z.consumed \in Nat
  BY DEF Formed, LzType
<1>2. PICK m, at \in Nat : Lengths(z, o, m, at)
  BY <1>1, MidKinds
<1>3. z.consumed = at /\ Tailed(m, at, o)
  BY <1>2 DEF Lengths
<1> DEFINE t == Further(z)
<1>4. /\ t \in LzType /\ t.consumed = at + 1 /\ t.mode # "Done" /\ t.produced = Len(o)
      /\ Blank(t)
  <2>1. z.consumed + 1 > 0
    BY <1>1
  <2>2. QED
    BY <1>1, <1>3, <2>1, FurtherFields DEF Blank, Quiet, NoOffset
<1> HIDE DEF t
<1>5. Mid(Length(t, At(at)), o)
  BY <1>2, <1>3, <1>4, LengthMid
<1>6. QED
  BY <1>3, <1>5 DEF t

----------------------------------------------------------------------------
(* The place of the decoder and of its checkpoint, along the behaviours.   *)

\* The decoder and its checkpoint are where `decompress` passes.
Together == Mid(lz, out) /\ Mid(kept.lz, SubSeq(out, 1, kept.lz.produced))

LEMMA MidStays ==
  ASSUME stream' = stream, limit' = limit
  PROVE  \A z, o : Mid(z, o)' = Mid(z, o)
<1>1. /\ \A at : At(at)' = At(at)
      /\ \A from, to : Zeros(from, to)' = Zeros(from, to)
      /\ Full' = Full
  BY AfterStays DEF At, Zeros
<1>2. \A r : /\ HasCopy(r)' = HasCopy(r)
             /\ LengthAt(r)' = LengthAt(r) /\ OffsetAt(r)' = OffsetAt(r)
  BY <1>1, NumbersStay DEF HasCopy, LengthAt, OffsetAt
<1>3. \A r : CopyTaken(r)' = CopyTaken(r) /\ AllCopied(r)' = AllCopied(r)
  BY <1>2 DEF CopyTaken, AllCopied
<1>4. \A z, o, r : InLoop(z, o, r)' = InLoop(z, o, r)
  BY <1>1, <1>2, <1>3 DEF InLoop, AtHead, Extends, Offsets, Copies
<1>5. \A m, at, o : Tailed(m, at, o)' = Tailed(m, at, o)
  BY <1>1, NumbersStay DEF Tailed
<1>6. \A z, o, m, at : Lengths(z, o, m, at)' = Lengths(z, o, m, at)
  BY <1>1, <1>5 DEF Lengths
<1>7. \A z, o, m, at, n, base : Giving(z, o, m, at, n, base)' = Giving(z, o, m, at, n, base)
  <2>1. ASSUME NEW z, NEW o, NEW m, NEW at, NEW n, NEW base
        PROVE  Giving(z, o, m, at, n, base)' = Giving(z, o, m, at, n, base)
    <3>1. Literals(at, n, base)' = Literals(at, n, base) /\ Full'[m] = Full[m]
      BY <1>1, NumbersStay
    <3>2. QED
      BY <3>1 DEF Giving
  <2>2. QED
    BY <2>1
<1>8. \A z, o, n : Ended(z, o, n)' = Ended(z, o, n) /\ Failing(o, n)' = Failing(o, n)
  BY <1>1 DEF Ended, Failing
<1>9. QED
  BY <1>1, <1>4, <1>6, <1>7, <1>8, ZenonT(60) DEF Mid

LEMMA InvGiven ==
  ASSUME LzInv
  PROVE  /\ Given /\ lz \in LzType /\ kept.lz \in LzType
         /\ out \in Seq(Byte) /\ lz.produced = Len(out)
         /\ lz.consumed <= Len(stream) /\ (~lz.failed => Formed(lz))
         /\ kept.lz.produced \in Nat /\ kept.lz.produced <= Len(out)
BY StreamFacts, RingFacts DEF LzInv, TypeOK, InStream, Reached, Given

LEMMA TakesMid ==
  ASSUME LzInv, Mid(lz, out),
         \/ TakeLength \/ TakeZero \/ TakeExtension \/ TakeOpcode
         \/ TakeOffset1 \/ TakeOffset2 \/ TakeOp2
  PROVE  Mid(lz', out')
<1>1. Reading
  BY DEF TakeLength, TakeZero, TakeExtension, TakeOpcode, TakeOffset1, TakeOffset2, TakeOp2
<1>2. /\ Given /\ lz \in LzType /\ Formed(lz) /\ out \in Seq(Byte) /\ lz.produced = Len(out)
      /\ lz.consumed < Len(stream)
  <2>1. ~lz.failed /\ lz.consumed + 1 <= Len(stream)
    BY <1>1, NextIsByte
  <2>2. lz.consumed \in Nat /\ Len(stream) \in Nat
    BY InvGiven DEF LzType, Given
  <2>3. lz.consumed < Len(stream)
    BY <2>1, <2>2
  <2>4. QED
    BY <2>1, <2>3, InvGiven
<1>3. NextByte = At(lz.consumed) /\ Taken = Further(lz)
  BY DEF NextByte, At, Taken, Further
<1>4. ASSUME NEW y, Mid(y, out), Take(y)
      PROVE  Mid(lz', out')
  BY <1>4 DEF Take
<1>5. CASE TakeLength
  BY <1>2, <1>3, <1>4, <1>5, LengthsMid DEF TakeLength
<1>6. CASE TakeZero
  BY <1>2, <1>3, <1>4, <1>6, ExtendedMid DEF TakeZero
<1>7. CASE TakeExtension
  BY <1>2, <1>3, <1>4, <1>7, ExtensionEndMid DEF TakeExtension
<1>8. CASE TakeOpcode
  BY <1>2, <1>3, <1>4, <1>8, HeadMid DEF TakeOpcode
<1>9. CASE TakeOffset1
  BY <1>2, <1>3, <1>4, <1>9, Offset1Mid DEF TakeOffset1
<1>10. CASE TakeOffset2
  BY <1>2, <1>3, <1>4, <1>10, Offset2Mid DEF TakeOffset2
<1>11. CASE TakeOp2
  BY <1>2, <1>3, <1>4, <1>11, Op2Mid DEF TakeOp2
<1>12. QED
  BY <1>5, <1>6, <1>7, <1>8, <1>9, <1>10, <1>11

LEMMA PutsMid ==
  ASSUME LzInv, Mid(lz, out), CopyByte \/ LiteralByte
  PROVE  Mid(lz', out') /\ \E b \in Byte : out' = Append(out, b)
<1>1. /\ Given /\ lz \in LzType /\ out \in Seq(Byte) /\ lz.produced = Len(out)
      /\ lz.consumed <= Len(stream) /\ ~lz.failed /\ Formed(lz)
  BY InvGiven DEF LzInv, InStream, CopyByte, LiteralByte, Reading, Writing
<1>2. CASE CopyByte
  <2> DEFINE z == [lz EXCEPT !.produced = @ + 1, !.count = @ - 1]
             n == lz.produced - lz.distance
             b == window[Place(n)]
  <2>1. lz.mode = "Copy" /\ lz' = (IF z.count = 0 THEN Copied(z) ELSE z) /\ out' = Append(out, b)
    BY <1>2 DEF CopyByte, Push
  <2>2. n \in Oldest(lz.produced)..(lz.produced - 1) /\ n \in Nat
    <3>1. /\ lz.distance \in Nat /\ lz.produced \in Nat /\ lz.distance >= 1
          /\ lz.distance <= Window - 1 /\ lz.distance <= lz.produced
      <4>1. CopyOk(lz) /\ lz.distance \in Nat /\ lz.produced \in Nat
        BY <1>1, <2>1 DEF Formed, LzType
      <4>2. QED
        BY <4>1, Sizes DEF CopyOk
    <3> DEFINE old == Oldest(lz.produced)
    <3>2. old = (IF lz.produced <= Window THEN 0 ELSE lz.produced - Window) /\ old \in Nat
      BY <3>1, OldestFacts
    <3> HIDE DEF old
    <3>3. n \in old..(lz.produced - 1) /\ n \in Nat
      BY <3>1, <3>2, Sizes
    <3>4. QED
      BY <3>3 DEF old
  <2>3. b = out[n + 1]
    <3>1. WindowHolds
      BY DEF LzInv
    <3>2. QED
      BY <2>2, <3>1 DEF WindowHolds
  <2>4. b \in Byte
    <3>1. Place(n) \in 0..(Window - 1)
      BY <2>2, PlaceType
    <3>2. QED
      BY <3>1, RingFacts
  <2>5. b = out[(Len(out) - lz.distance) + 1]
    BY <1>1, <2>3
  <2> HIDE DEF b
  <2>6. Mid(IF z.count = 0 THEN Copied(z) ELSE z, Append(out, b))
    BY <1>1, <2>1, <2>5, CopyByteMid
  <2>7. QED
    BY <2>1, <2>4, <2>6
<1>3. CASE LiteralByte
  <2> DEFINE z == [Further(lz) EXCEPT !.produced = @ + 1, !.count = @ - 1]
             b == At(lz.consumed)
  <2>1. Reading /\ lz.mode = "Literal"
    BY <1>3 DEF LiteralByte
  <2>2. NextByte = b /\ Taken = Further(lz)
    BY DEF NextByte, At, Taken, Further
  <2>3. b \in Byte /\ lz.consumed < Len(stream)
    <3>1. NextByte \in Byte /\ lz.consumed + 1 <= Len(stream)
      BY <2>1, NextIsByte
    <3>2. lz.consumed \in Nat /\ Len(stream) \in Nat
      BY <1>1 DEF LzType, Given
    <3>3. QED
      BY <2>2, <3>1, <3>2
  <2>4. lz' = (IF z.count = 0 THEN [z EXCEPT !.mode = "Opcode"] ELSE z) /\ out' = Append(out, b)
    BY <1>3, <2>2 DEF LiteralByte, Push
  <2> HIDE DEF b
  <2>5. Mid(IF z.count = 0 THEN [z EXCEPT !.mode = "Opcode"] ELSE z, Append(out, b))
    BY <1>1, <2>1, <2>3, LiteralByteMid DEF b
  <2>6. QED
    BY <2>3, <2>4, <2>5
<1>4. QED
  BY <1>2, <1>3

\* What was put out by then stays put out.
LEMMA HeadStays ==
  ASSUME NEW o \in Seq(Byte), NEW b \in Byte, NEW p \in Nat, p <= Len(o)
  PROVE  /\ SubSeq(Append(o, b), 1, p) = SubSeq(o, 1, p)
         /\ SubSeq(SubSeq(o, 1, p), 1, p) = SubSeq(o, 1, p)
         /\ SubSeq(o, 1, Len(o)) = o
<1> DEFINE s == SubSeq(o, 1, p)
           t == SubSeq(Append(o, b), 1, p)
           u == SubSeq(s, 1, p)
           v == SubSeq(o, 1, Len(o))
<1>1. s \in Seq(Byte) /\ Len(s) = p /\ \A i \in 1..p : s[i] = o[i]
  OBVIOUS
<1>2. t \in Seq(Byte) /\ Len(t) = p /\ \A i \in 1..p : t[i] = o[i]
  OBVIOUS
<1>3. v \in Seq(Byte) /\ Len(v) = Len(o) /\ \A i \in 1..Len(o) : v[i] = o[i]
  OBVIOUS
<1> HIDE DEF s
<1>4. u \in Seq(Byte) /\ Len(u) = p /\ \A i \in 1..p : u[i] = s[i]
  BY <1>1
<1> HIDE DEF t, u, v
<1>5. t = s /\ u = s /\ v = o
  BY <1>1, <1>2, <1>3, <1>4, SameBytes
<1>6. QED
  BY <1>5 DEF s, t, u, v

LEMMA InitTogether == Init => Together
<1>1. SUFFICES ASSUME Init PROVE Together
  OBVIOUS
<1>2. lz = NewLz /\ kept.lz = NewLz /\ out = <<>> /\ stream \in Seq(Byte)
  BY <1>1, FormatAssumption DEF Init
<1>3. NewLz.mode = "Start" /\ NewLz.consumed = 0 /\ ~NewLz.failed /\ NewLz.produced = 0
  BY DEF NewLz
<1>4. SubSeq(out, 1, 0) = <<>>
  BY <1>2
<1>5. Tailed(0, 0, <<>>)
  <2>1. Full[0] = Begun
    BY AfterSteps
  <2> DEFINE lits == LiteralLength(0)
  <2>2. Begun = IF lits.ok THEN Literals(lits.at, lits.value, <<>>) ELSE Refused(0, <<>>)
    BY DEF Begun
  <2>3. IsPrefix(<<>>, <<>>)
    <3>1. <<>> \in Seq(Byte)
      OBVIOUS
    <3>2. QED
      BY <3>1, PrefixOrder
  <2> HIDE DEF lits
  <2>4. QED
    BY <2>1, <2>2, <2>3 DEF Tailed, Refused, Result, lits
<1>6. 0 <= Len(stream) /\ 0 \in Nat
  BY <1>2
<1>7. Lengths(NewLz, <<>>, 0, 0)
  BY <1>3, <1>5, <1>6 DEF Lengths
<1>8. Mid(NewLz, <<>>)
  BY <1>3, <1>6, <1>7 DEF Mid
<1>9. QED
  BY <1>2, <1>3, <1>4, <1>8 DEF Together

LEMMA NextTogether == LzInv /\ Together /\ [Next]_vars => Together'
<1>1. SUFFICES ASSUME LzInv, Mid(lz, out), Mid(kept.lz, SubSeq(out, 1, kept.lz.produced)),
                      [Next]_vars
               PROVE  /\ stream' = stream /\ limit' = limit
                      /\ Mid(lz', out') /\ Mid(kept'.lz, SubSeq(out', 1, kept'.lz.produced))
  BY MidStays DEF Together
<1>2. /\ out \in Seq(Byte) /\ lz.produced = Len(out)
      /\ kept.lz.produced \in Nat /\ kept.lz.produced <= Len(out) /\ Len(out) \in Nat
  BY <1>1, InvGiven
<1>3. CASE \/ TakeLength \/ TakeZero \/ TakeExtension \/ TakeOpcode
           \/ TakeOffset1 \/ TakeOffset2 \/ TakeOp2
  <2>1. UNCHANGED <<stream, limit, out, kept>>
    BY <1>3 DEF TakeLength, TakeZero, TakeExtension, TakeOpcode, TakeOffset1, TakeOffset2,
                TakeOp2, Take
  <2>2. Mid(lz', out')
    BY <1>1, <1>3, TakesMid
  <2>3. QED
    BY <1>1, <2>1, <2>2
<1>4. CASE CopyByte \/ LiteralByte
  <2>1. UNCHANGED <<stream, limit, kept>>
    BY <1>4 DEF CopyByte, LiteralByte
  <2>2. Mid(lz', out')
    BY <1>1, <1>4, PutsMid
  <2>3. PICK b \in Byte : out' = Append(out, b)
    BY <1>1, <1>4, PutsMid
  <2>4. SubSeq(out', 1, kept.lz.produced) = SubSeq(out, 1, kept.lz.produced)
    BY <1>2, <2>3, HeadStays
  <2>5. QED
    BY <1>1, <2>1, <2>2, <2>4
<1>5. CASE Call \/ Return \/ UNCHANGED vars
  <2>1. UNCHANGED <<stream, limit, lz, out, kept>>
    BY <1>5 DEF Call, Return, vars
  <2>2. QED
    BY <1>1, <2>1
<1>6. CASE Save
  <2>1. kept'.lz = lz /\ UNCHANGED <<stream, limit, lz, out>>
    BY <1>6 DEF Save
  <2>2. SubSeq(out, 1, Len(out)) = out
    BY <1>2, Bytes, HeadStays
  <2>3. QED
    BY <1>1, <1>2, <2>1, <2>2
<1>7. CASE Restart
  <2>1. lz' = kept.lz /\ out' = SubSeq(out, 1, kept.lz.produced) /\ UNCHANGED <<stream, limit, kept>>
    BY <1>7 DEF Restart
  <2>2. SubSeq(SubSeq(out, 1, kept.lz.produced), 1, kept.lz.produced)
          = SubSeq(out, 1, kept.lz.produced)
    BY <1>2, Bytes, HeadStays
  <2>3. QED
    BY <1>1, <2>1, <2>2
<1>8. QED
  BY <1>1, <1>3, <1>4, <1>5, <1>6, <1>7 DEF Next, Decode

\* Where max_backref_len does not bind, the two agree altogether.
LEMMA FullAgrees ==
  ASSUME LzInv, Mid(lz, out)
  PROVE  /\ FullEnd.status = "done" => ~lz.failed /\ ~Starved /\ IsPrefix(out, FullEnd.out)
         /\ IsPrefix(out, FullEnd.out) \/ IsPrefix(FullEnd.out, out)
         /\ lz.mode = "Done" => FullEnd = Result("done", lz.consumed, out)
<1>1. Given /\ lz \in LzType /\ lz.consumed <= Len(stream) /\ out \in Seq(Byte)
  BY InvGiven
<1> DEFINE whole == FullEnd
<1>2. PICK n \in Nat : /\ Within(out, n)
                       /\ lz.failed => Full[n].status = "refused"
                       /\ lz.mode = "Done" => Full[n] = Result("done", lz.consumed, out)
  BY <1>1, MidWithin
<1>3. /\ IsPrefix(Full[n].out, whole.out)
      /\ Full[n].status # "goes" => whole = Full[n]
      /\ Full[n].out \in Seq(Byte) /\ whole.out \in Seq(Byte)
  BY <1>1, Settles DEF IsResult
<1>4. IsPrefix(out, Full[n].out) => IsPrefix(out, whole.out)
  BY <1>1, <1>3, PrefixOrder
<1>5. ~lz.failed /\ Starved => whole.status = "refused"
  <2>1. SUFFICES ASSUME ~lz.failed, Starved PROVE whole.status = "refused"
    OBVIOUS
  <2>2. lz.consumed = Len(stream) /\ lz.mode \notin {"Copy", "Done"} /\ Formed(lz)
    <3>1. lz.consumed \in Nat /\ Len(stream) \in Nat
      BY <1>1 DEF LzType, Given
    <3>2. Formed(lz)
      BY <2>1, InvGiven
    <3>3. QED
      BY <2>1, <3>1, <3>2 DEF Starved, Left
  <2>3. PICK k \in Nat : Full[k].status = "refused"
    BY <1>1, <2>1, <2>2, MidStarves
  <2>4. whole = Full[k]
    BY <1>1, <2>3, Settles
  <2>5. QED
    BY <2>3, <2>4
<1> HIDE DEF whole
<1>6. lz.mode = "Done" => whole = Result("done", lz.consumed, out)
  BY <1>2, <1>3 DEF Result
<1>7. IsPrefix(out, whole.out) \/ (whole.status = "refused" /\ IsPrefix(whole.out, out))
  BY <1>2, <1>3, <1>4 DEF Within
<1>8. lz.failed => whole.status = "refused"
  BY <1>2, <1>3
<1>9. QED
  BY <1>5, <1>6, <1>7, <1>8 DEF Result, whole

LEMMA PrefixesMeet ==
  ASSUME NEW s \in Seq(Byte), NEW t \in Seq(Byte), NEW u \in Seq(Byte),
         IsPrefix(s, u), IsPrefix(t, u)
  PROVE  IsPrefix(s, t) \/ IsPrefix(t, s)
<1>1. Len(s) \in Nat /\ Len(t) \in Nat
  OBVIOUS
<1>2. /\ \A i \in 1..Len(s) : s[i] = u[i]
      /\ \A i \in 1..Len(t) : t[i] = u[i]
  BY PrefixByByte
<1>3. CASE Len(s) <= Len(t)
  <2>1. \A i \in 1..Len(s) : s[i] = t[i]
    BY <1>1, <1>2, <1>3
  <2>2. QED
    BY <1>3, <2>1, PrefixByByte
<1>4. CASE Len(t) <= Len(s)
  <2>1. \A i \in 1..Len(t) : t[i] = s[i]
    BY <1>1, <1>2, <1>4
  <2>2. QED
    BY <1>4, <2>1, PrefixByByte
<1>5. QED
  BY <1>1, <1>3, <1>4

\* What max_backref_len adds to one opcode.
LEMMA OpcodeUnder ==
  ASSUME Given, NEW r, IsResult(r), r.status = "goes"
  PROVE  \/ OneOpcode(r, MaxBackref) = OneOpcode(r, limit)
         \/ OneOpcode(r, MaxBackref) = Result("tooLong", r.at, r.out) /\ MaxBackref < limit
<1> DEFINE op == At(r.at)
           length == LengthOf(op, r.at + 1)
           offset == Offset(op, length.at)
           lits == IF offset.lit > 0 THEN Number(offset.at, offset.lit)
                   ELSE LiteralLength(offset.at)
           wrong == \/ ~length.ok \/ ~offset.ok \/ ~lits.ok
                    \/ Len(r.out) + length.value > limit
                    \/ offset.far > Len(r.out)
           taken == Literals(lits.at, lits.value, CopyBytes(r.out, offset.far, length.value))
<1>1. \A longest : Copying(r, op, longest) =
                     IF wrong THEN Refused(r.at, r.out)
                     ELSE IF length.value > longest THEN Result("tooLong", r.at, r.out)
                     ELSE taken
  BY DEF Copying
<1>2. CASE ~There(r.at) \/ op < 16 \/ op = 17
  BY <1>2 DEF OneOpcode
<1>3. CASE ~(~There(r.at) \/ op < 16 \/ op = 17)
  <2>1. \A longest : OneOpcode(r, longest) = Copying(r, op, longest)
    BY <1>3 DEF OneOpcode
  <2>2. HasCopy(r)
    <3>1. r.at < Len(stream)
      BY <1>3 DEF There
    <3>2. op \in Nat
      <4>1. r.at \in Nat
        BY DEF IsResult
      <4>2. QED
        BY <3>1, <4>1, AtByte, Bytes
    <3>3. QED
      BY <1>3, <3>1, <3>2 DEF HasCopy
  <2>3. ~wrong => /\ length.value \in Nat /\ Len(r.out) \in Nat
                  /\ ~(Len(r.out) + length.value > limit)
    BY <2>2, OpcodeParts DEF IsResult, LengthAt
  <2> HIDE DEF wrong, taken, length
  <2>4. ~wrong => length.value <= limit
    BY <2>3 DEF Given
  <2>5. length.value \in Nat /\ length.value <= limit /\ length.value > MaxBackref
          => ~(length.value > limit) /\ MaxBackref < limit
    BY BackrefAssumption DEF Given
  <2>6. length.value \in Nat /\ length.value <= limit => ~(length.value > limit)
    BY DEF Given
  <2>7. QED
    BY <1>1, <2>1, <2>3, <2>4, <2>5, <2>6
<1>4. QED
  BY <1>2, <1>3

\* With max_backref_len, the reading is the same until a copy is too long.
LEMMA AfterUnder ==
  ASSUME Given, NEW n \in Nat
  PROVE  \/ After(MaxBackref)[n] = Full[n]
         \/ /\ After(MaxBackref)[n].status = "tooLong" /\ MaxBackref < limit
            /\ \E m \in Nat : After(MaxBackref)[n].out = Full[m].out
<1> DEFINE a == After(MaxBackref)
           Apart(k) == /\ a[k].status = "tooLong" /\ MaxBackref < limit
                       /\ \E m \in Nat : a[k].out = Full[m].out
           T == {k \in Nat : a[k] = Full[k] \/ Apart(k)}
<1>1. a[0] = Begun /\ \A k \in Nat : a[k + 1] = OneOpcode(a[k], MaxBackref)
  BY LongestSteps
<1> HIDE DEF a
<1>2. 0 \in T
  BY <1>1, AfterSteps
<1>3. ASSUME NEW k \in T PROVE k + 1 \in T
  <2> DEFINE r == Full[k]
  <2>1. k \in Nat /\ k + 1 \in Nat /\ a[k + 1] = OneOpcode(a[k], MaxBackref)
        /\ Full[k + 1] = OneOpcode(r, limit) /\ IsResult(r)
    BY <1>1, <1>3, AfterSteps, AfterResult
  <2>2. CASE Apart(k)
    <3>1. a[k + 1] = a[k]
      BY <2>1, <2>2 DEF OneOpcode
    <3>2. QED
      BY <2>1, <2>2, <3>1
  <2>3. CASE a[k] = r /\ r.status # "goes"
    <3>1. a[k + 1] = r /\ Full[k + 1] = r
      BY <2>1, <2>3 DEF OneOpcode
    <3>2. QED
      BY <2>1, <3>1
  <2>4. CASE a[k] = r /\ r.status = "goes"
    <3>1. \/ a[k + 1] = Full[k + 1]
          \/ a[k + 1] = Result("tooLong", r.at, r.out) /\ MaxBackref < limit
      BY <2>1, <2>4, OpcodeUnder
    <3>2. a[k + 1] = Result("tooLong", r.at, r.out) =>
            a[k + 1].status = "tooLong" /\ a[k + 1].out = Full[k].out
      BY DEF Result
    <3>3. QED
      BY <2>1, <3>1, <3>2
  <2>5. QED
    BY <1>3, <2>2, <2>3, <2>4
<1> HIDE DEF T
<1>4. T = Nat
  <2>1. T \in SUBSET Nat
    BY DEF T
  <2>2. QED
    BY <1>2, <1>3, <2>1, SetInduction
<1>5. QED
  BY <1>4 DEF T, a

\* Decoding in pieces gives what `decompress` gives: however the stream and the
\* room for its output are cut, and however often the decoder is saved and
\* restored, it puts out the same bytes to the same place in the input, refuses
\* what `decompress` refuses but for a copy that is only longer than
\* max_backref_len, and starves only on a stream `decompress` does not finish.
THEOREM AgreesHolds == Spec => []Agrees
<1>1. Spec => []Together
  BY InitTogether, NextTogether, InvariantHolds, PTL DEF Spec
<1>2. LzInv /\ Together => Agrees
  <2>1. SUFFICES ASSUME LzInv, Mid(lz, out) PROVE Agrees
    BY DEF Together
  <2>2. Given /\ out \in Seq(Byte) /\ Len(stream) + 1 \in Nat
    BY <2>1, InvGiven DEF Given
  <2> DEFINE whole == Decompressed
  <2>3. /\ FullEnd.status = "done" => ~lz.failed /\ ~Starved /\ IsPrefix(out, FullEnd.out)
        /\ IsPrefix(out, FullEnd.out) \/ IsPrefix(FullEnd.out, out)
        /\ lz.mode = "Done" => FullEnd = Result("done", lz.consumed, out)
    BY <2>1, FullAgrees
  <2>4. \/ whole = FullEnd
        \/ /\ whole.status = "tooLong" /\ MaxBackref < limit
           /\ \E m \in Nat : whole.out = Full[m].out
    BY <2>2, AfterUnder DEF Decompressed, FullEnd
  <2> HIDE DEF whole
  <2>5. CASE whole = FullEnd
    BY <2>3, <2>5 DEF Agrees, Result, whole
  <2>6. CASE /\ whole.status = "tooLong" /\ MaxBackref < limit
             /\ \E m \in Nat : whole.out = Full[m].out
    <3>1. whole.out \in Seq(Byte) /\ FullEnd.out \in Seq(Byte) /\ IsPrefix(whole.out, FullEnd.out)
      BY <2>2, <2>6, Settles DEF IsResult
    <3>2. IsPrefix(out, whole.out) \/ IsPrefix(whole.out, out)
      BY <2>2, <2>3, <3>1, PrefixesMeet, PrefixOrder
    <3>3. lz.mode = "Done" => IsPrefix(whole.out, out)
      BY <2>3, <3>1 DEF Result
    <3>4. QED
      BY <2>6, <3>2, <3>3 DEF Agrees, whole
  <2>7. QED
    BY <2>4, <2>5, <2>6
<1>3. QED
  BY <1>1, <1>2, InvariantHolds, PTL
=============================================================================
