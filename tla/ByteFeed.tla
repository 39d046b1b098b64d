----------------------------- MODULE ByteFeed -----------------------------
(***************************************************************************)
(* What a polled grammar is promised, whatever carries its bytes: every    *)
(* unit it asks for arrives in order, each byte once, split as the         *)
(* transport likes, and a process that stops resumes from the checkpoint   *)
(* it kept.  There is no transport here; Delivery implements this through  *)
(* an AsyncSource.                                                         *)
(***************************************************************************)
EXTENDS Integers, Sequences

CONSTANTS
  Units,  \* the ranges the grammar reads, in order: what the file's content
          \* makes them is no concern of the delivery
  Early   \* units whose grammar may have had enough before their last byte

VARIABLES
  unit,    \* the unit being read
  filled,  \* bytes of it already fed
  got,     \* what each unit was fed
  kept     \* the checkpoint a new process resumes from

vars == <<unit, filled, got, kept>>

Bytes(offset, n) == [i \in 1..n |-> offset + i - 1]

Done == unit > Len(Units)

Init ==
  /\ unit = 1
  /\ filled = 0
  /\ got = [u \in DOMAIN Units |-> <<>>]
  /\ kept = [unit |-> unit, filled |-> filled, got |-> got]

\* The next n bytes of the unit; the unit ends with its last byte, or
\* sooner when its grammar needs no more.
Feed(n) ==
  /\ got' = [got EXCEPT ![unit] = @ \o Bytes(Units[unit].at + filled, n)]
  /\ \/ /\ filled + n < Units[unit].len
        /\ filled' = filled + n
        /\ unit' = unit
     \/ /\ filled + n = Units[unit].len \/ unit \in Early
        /\ filled' = 0
        /\ unit' = unit + 1
  /\ kept' = kept

Save ==
  /\ kept' = [unit |-> unit, filled |-> filled, got |-> got]
  /\ UNCHANGED <<unit, filled, got>>

Resume ==
  /\ unit' = kept.unit
  /\ filled' = kept.filled
  /\ got' = kept.got
  /\ kept' = kept

FeedSome == ~Done /\ \E n \in 1..(Units[unit].len - filled) : Feed(n)

Next == FeedSome \/ Save \/ Resume

Spec == Init /\ [][Next]_vars
=============================================================================
