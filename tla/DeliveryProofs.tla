-------------------------- MODULE DeliveryProofs --------------------------
(***************************************************************************)
(* Proofs about Delivery for every grammar, source, schedule, scratch and  *)
(* bound.                                                                  *)
(***************************************************************************)
EXTENDS Delivery, TLAPS

(* Arithmetic of byte runs. *)

LEMMA LeastType ==
  ASSUME NEW a \in Nat, NEW b \in Nat
  PROVE  /\ Least(a, b) \in Nat
         /\ Least(a, b) <= a
         /\ Least(a, b) <= b
         /\ Least(a, b) \in {a, b}
BY DEF Least

LEMMA BytesType ==
  ASSUME NEW o \in Nat, NEW n \in Nat
  PROVE  BytesAt(o, n) \in Seq(Nat) /\ Len(BytesAt(o, n)) = n
BY DEF BytesAt

LEMMA BytesNone == \A o \in Nat : BytesAt(o, 0) = <<>>
BY DEF BytesAt

\* A run cut in two.
LEMMA BytesCut ==
  ASSUME NEW o \in Nat, NEW n \in Nat, NEW k \in 0..n
  PROVE  /\ SubSeq(BytesAt(o, n), 1, k) = BytesAt(o, k)
         /\ SubSeq(BytesAt(o, n), k + 1, n) = BytesAt(o + k, n - k)
<1>1. SubSeq(BytesAt(o, n), 1, k) = BytesAt(o, k)
  BY DEF BytesAt
<1>2. SubSeq(BytesAt(o, n), k + 1, n) = BytesAt(o + k, n - k)
  BY DEF BytesAt
<1>3. QED
  BY <1>1, <1>2

\* Two runs joined where the first ends.
LEMMA BytesJoin ==
  ASSUME NEW o \in Nat, NEW a \in Nat, NEW b \in Nat
  PROVE  BytesAt(o, a) \o BytesAt(o + a, b) = BytesAt(o, a + b)
BY DEF BytesAt

----------------------------------------------------------------------------
(* Types. *)

USE DEF Request, NoRequest, NoOffset

LEMMA ChunkBytesType == ChunkBytes \in Nat \ {0}
BY ChunkBytesAssumption

LEMMA UnitsType ==
  /\ Len(Units) \in Nat
  /\ DOMAIN Units = 1..Len(Units)
  /\ \A u \in DOMAIN Units : Units[u].at \in Nat /\ Units[u].len \in Nat \ {0}
<1>1. Len(Units) \in Nat /\ DOMAIN Units = 1..Len(Units)
  BY UnitsAssumption
<1>2. \A u \in DOMAIN Units : Units[u] \in Unit
  BY UnitsAssumption
<1>3. QED
  BY <1>1, <1>2 DEF Unit

\* A demand of a grammar that is inside a unit.
LEMMA DemandType ==
  ASSUME TypeInv, ~Done
  PROVE  /\ unit \in DOMAIN Units
         /\ Units[unit].at \in Nat
         /\ Units[unit].len \in Nat \ {0}
         /\ filled < Units[unit].len
         /\ Demand.offset = Units[unit].at + filled
         /\ Demand.len = Units[unit].len - filled
         /\ Demand.offset \in Nat
         /\ Demand.len \in Nat \ {0}
<1>1. unit \in Nat \ {0} /\ filled \in Nat
  BY DEF TypeInv, TypeOK, Checkpoint, CheckpointType
<1>2. unit \in DOMAIN Units
  BY <1>1, UnitsType DEF Done
<1>3. filled < Units[unit].len
  BY <1>2 DEF TypeInv, InUnit, Checkpoint
<1>4. QED
  BY <1>1, <1>2, <1>3, UnitsType DEF Demand

LEMMA MaximumType ==
  ASSUME NEW demand, demand.len \in Nat \ {0}, NEW scratch \in Scratches
  PROVE  /\ Maximum(demand, scratch) \in Nat \ {0}
         /\ Maximum(demand, scratch) <= demand.len
         /\ Maximum(demand, scratch) <= ChunkBytes
<1>1. demand.len \in Nat /\ scratch \in Nat \ {0} /\ ChunkBytes \in Nat \ {0}
  BY ChunkBytesType, ScratchAssumption
<1> DEFINE m == Least(demand.len, scratch)
<1>2. m \in Nat \ {0} /\ m <= demand.len
  BY <1>1 DEF Least
<1>3. Least(m, ChunkBytes) \in Nat \ {0} /\ Least(m, ChunkBytes) <= m
      /\ Least(m, ChunkBytes) <= ChunkBytes
  BY <1>1, <1>2 DEF Least
<1>4. Maximum(demand, scratch) = Least(m, ChunkBytes)
  BY DEF Maximum
<1> HIDE DEF m
<1>5. QED
  BY <1>1, <1>2, <1>3, <1>4

\* Bytes held are handed over from the front.
LEMMA FrontType ==
  ASSUME NEW s \in Seq(Nat), NEW n \in 0..Len(s)
  PROVE  /\ SubSeq(s, 1, n) \in Seq(Nat)
         /\ Len(SubSeq(s, 1, n)) = n
         /\ SubSeq(s, n + 1, Len(s)) \in Seq(Nat)
         /\ Len(SubSeq(s, n + 1, Len(s))) = Len(s) - n
OBVIOUS

LEMMA InitTypeInv == Init => TypeInv
<1> SUFFICES ASSUME Init PROVE TypeInv
  OBVIOUS
<1>1. SourceTypeOK
  <2>1. held \in Seq(Nat)
    BY DEF Init, SourceInit
  <2>2. QED
    BY <2>1 DEF Init, SourceInit, SourceTypeOK
<1>2. Checkpoint \in CheckpointType
  BY DEF Init, Checkpoint, CheckpointType
<1>3. InUnit(Checkpoint)
  BY UnitsType DEF Init, InUnit, Checkpoint
<1>4. fetched \in [DOMAIN Units -> Nat]
  BY DEF Init
<1>4a. HeldNow \in HeldType
  BY <1>1, <1>4 DEF HeldNow, HeldType, SourceTypeOK
<1>5. outcome \in Outcomes /\ fetches \subseteq Request
      /\ fails \in 0..MaxFails /\ crashes \in 0..MaxCrashes
  BY BoundsAssumption DEF Init, Outcomes
<1>6. kept = Checkpoint /\ keptHeld = HeldNow
  BY DEF Init
<1>7. QED
  BY <1>1, <1>2, <1>3, <1>4, <1>4a, <1>5, <1>6 DEF TypeInv, TypeOK, Init

\* The adapter's own types, poll by poll.
LEMMA PollSourceType ==
  ASSUME SourceTypeOK, NEW demand, demand.offset \in Nat,
         demand.len \in Nat \ {0}, NEW scratch \in Scratches, NEW n \in Nat,
         \/ PollDelivers(demand, scratch, n)
         \/ PollPosts(demand, scratch)
         \/ PollWaits(demand)
         \/ PollEnds(demand)
         \/ PollRefuses(demand)
         \/ PollFails
  PROVE  SourceTypeOK'
<1>1. CASE PollDelivers(demand, scratch, n)
  <2>1. n \in 0..Len(held)
    BY <1>1, MaximumType DEF PollDelivers, Least, SourceTypeOK
  <2>2. held' \in Seq(Nat)
    BY <1>1, <2>1, FrontType DEF PollDelivers, SourceTypeOK
  <2>3. heldOffset' \in Nat
    BY <1>1 DEF PollDelivers, SourceTypeOK
  <2>4. QED
    BY <1>1, <2>2, <2>3 DEF PollDelivers, SourceTypeOK
<1>2. CASE PollPosts(demand, scratch)
  <2>1. posted' \in Request
    BY <1>2, MaximumType DEF PollPosts
  <2>2. QED
    BY <1>2, <2>1 DEF PollPosts, SourceTypeOK
<1>3. CASE PollFails
  BY <1>3 DEF PollFails, SourceTypeOK
<1>4. CASE PollWaits(demand) \/ PollEnds(demand) \/ PollRefuses(demand)
  BY <1>4 DEF PollWaits, PollEnds, PollRefuses, SourceTypeOK, sourceVars
<1>5. QED
  BY <1>1, <1>2, <1>3, <1>4

\* A poll that feeds moves at least one byte and no more than the demand,
\* and the grammar stays inside its units.
LEMMA FedFacts ==
  ASSUME TypeInv, NEW scratch \in Scratches, NEW n \in 1..Len(held), ~Done,
         PollDelivers(Demand, scratch, n), GrammarFeed(SubSeq(held, 1, n))
  PROVE  /\ n <= Demand.len
         /\ unit \in DOMAIN Units
         /\ Len(SubSeq(held, 1, n)) = n
         /\ SubSeq(held, 1, n) \in Seq(Nat)
         /\ got' \in [DOMAIN Units -> Seq(Nat)]
         /\ unit' \in Nat \ {0} /\ filled' \in Nat
         /\ InUnit(Checkpoint)'
<1> USE DemandType
<1>2. held \in Seq(Nat)
  BY DEF TypeInv, TypeOK, SourceTypeOK
<1>1. n <= Demand.len
  <2>1. Maximum(Demand, scratch) \in Nat /\ Maximum(Demand, scratch) <= Demand.len
    BY MaximumType
  <2>2. n <= Maximum(Demand, scratch)
    BY <1>2, <2>1 DEF PollDelivers, Least
  <2>3. QED
    BY <2>1, <2>2
<1>3. Len(SubSeq(held, 1, n)) = n /\ SubSeq(held, 1, n) \in Seq(Nat)
  BY <1>2, FrontType
<1>4. /\ got \in [DOMAIN Units -> Seq(Nat)]
      /\ unit \in Nat \ {0} /\ filled \in Nat
  BY DEF TypeInv, TypeOK, Checkpoint, CheckpointType
<1>5. got' \in [DOMAIN Units -> Seq(Nat)]
  <2>1. got[unit] \o SubSeq(held, 1, n) \in Seq(Nat)
    BY <1>3, <1>4
  <2>2. got' = [got EXCEPT ![unit] = got[unit] \o SubSeq(held, 1, n)]
    BY DEF GrammarFeed
  <2>3. QED
    BY <1>4, <2>1, <2>2
<1>6. unit' \in Nat \ {0} /\ filled' \in Nat
  <2>1. (unit' = unit /\ filled' = filled + n) \/ (unit' = unit + 1 /\ filled' = 0)
    BY <1>3 DEF GrammarFeed
  <2>2. n \in Nat
    BY <1>2
  <2>3. QED
    BY <1>4, <2>1, <2>2
<1>7. InUnit(Checkpoint)'
  <2>1. CASE filled + n < Units[unit].len /\ filled' = filled + n /\ unit' = unit
    BY <2>1, <1>4 DEF TypeInv, InUnit, Checkpoint
  <2>2. CASE filled' = 0 /\ unit' = unit + 1
    <3>1. unit + 1 \in 1..(Len(Units) + 1)
      BY <1>4, UnitsType
    <3>2. 0 < (IF unit + 1 \in DOMAIN Units THEN Units[unit + 1].len ELSE 1)
      BY UnitsType
    <3>3. QED
      BY <2>2, <3>1, <3>2 DEF InUnit, Checkpoint
  <2>3. QED
    BY <1>3, <2>1, <2>2 DEF GrammarFeed
<1>8. QED
  BY <1>1, <1>3, <1>5, <1>6, <1>7

\* What the adapter accepts of an answer is of the adapter's types.
LEMMA AnswerSourceType ==
  ASSUME SourceTypeOK, NEW r \in Request, NEW k \in Nat,
         Complete(r.offset, BytesAt(r.offset, k)) \/ CompleteEof(r.offset)
  PROVE  SourceTypeOK'
<1>1. r.offset \in Nat
  OBVIOUS
<1>2. BytesAt(r.offset, k) \in Seq(Nat)
  BY <1>1, BytesType
<1>3. CASE Complete(r.offset, BytesAt(r.offset, k))
  BY <1>1, <1>2, <1>3 DEF Complete, Settled, SourceTypeOK
<1>4. CASE CompleteEof(r.offset)
  BY <1>1, <1>4 DEF CompleteEof, Settled, SourceTypeOK
<1>5. QED
  BY <1>3, <1>4

LEMMA PollTypeInv == TypeInv /\ Poll => TypeInv'
<1> SUFFICES ASSUME TypeInv, Poll PROVE TypeInv'
  OBVIOUS
<1> USE DEF TypeInv
<1>1. CASE PollComplete
  BY <1>1 DEF PollComplete, sourceVars, grammarVars, processUnchanged, TypeOK,
              SourceTypeOK, Checkpoint, Outcomes
<1>2. CASE PollTruncated \/ PollFailed \/ PollRefused
         \/ \E scratch \in Scratches : PollPending(scratch)
  <2>1. ~Done
    BY <1>2 DEF PollTruncated, PollFailed, PollRefused, PollPending
  <2>2. SourceTypeOK'
    <3>1. SourceTypeOK /\ Demand.offset \in Nat /\ Demand.len \in Nat \ {0}
      BY <2>1, DemandType DEF TypeOK
    <3>2. CASE PollTruncated \/ PollFailed \/ PollRefused
      BY <3>1, <3>2 DEF PollTruncated, PollFailed, PollRefused, PollFails,
                        PollEnds, PollRefuses, sourceVars, SourceTypeOK
    <3>3. CASE \E scratch \in Scratches : PollPending(scratch)
      BY <3>1, <3>3, PollSourceType DEF PollPending
    <3>4. QED
      BY <1>2, <3>2, <3>3
  <2>3. UNCHANGED grammarVars /\ processUnchanged /\ outcome' \in Outcomes
    BY <1>2 DEF PollTruncated, PollFailed, PollRefused, PollPending, Outcomes
  <2>4. QED
    BY <2>2, <2>3 DEF grammarVars, processUnchanged, TypeOK, Checkpoint
<1>3. ASSUME NEW scratch \in Scratches, PollFed(scratch) PROVE TypeInv'
  <2>1. PICK n \in 1..Len(held) :
          PollDelivers(Demand, scratch, n) /\ GrammarFeed(SubSeq(held, 1, n))
    BY <1>3 DEF PollFed
  <2>2. ~Done /\ outcome' \in Outcomes /\ processUnchanged
    BY <1>3 DEF PollFed, Outcomes
  <2>3. SourceTypeOK'
    BY <2>1, <2>2, DemandType, PollSourceType DEF TypeOK
  <2>4. /\ got' \in [DOMAIN Units -> Seq(Nat)]
        /\ unit' \in Nat \ {0} /\ filled' \in Nat
        /\ InUnit(Checkpoint)'
    BY <2>1, <2>2, FedFacts
  <2>5. Checkpoint' \in CheckpointType
    BY <2>4 DEF Checkpoint, CheckpointType
  <2>6. QED
    BY <2>2, <2>3, <2>4, <2>5 DEF TypeOK, processUnchanged
<1>4. QED
  BY <1>1, <1>2, <1>3 DEF Poll

LEMMA ProcessTypeInv == TypeInv /\ (Save \/ Crash) => TypeInv'
<1> SUFFICES ASSUME TypeInv, Save \/ Crash PROVE TypeInv'
  OBVIOUS
<1> USE DEF TypeInv
<1>1. CASE Save
  <2>1. HeldNow \in HeldType
    BY DEF HeldNow, HeldType, TypeOK, SourceTypeOK
  <2>2. QED
    BY <1>1, <2>1 DEF Save, sourceVars, grammarVars, TypeOK, SourceTypeOK, Checkpoint
<1>2. CASE Crash
  <2>1. /\ keptHeld.offset \in Nat /\ keptHeld.bytes \in Seq(Nat)
        /\ keptHeld.fetched \in [DOMAIN Units -> Nat]
    BY DEF TypeOK, HeldType
  <2>2. SourceTypeOK'
    BY <1>2, <2>1 DEF Crash, WithHeld, SourceTypeOK
  <2>3. Checkpoint' = kept
    BY <1>2 DEF Crash, Checkpoint, TypeOK, CheckpointType
  <2>4. InUnit(Checkpoint)' /\ Checkpoint' \in CheckpointType
    <3>1. Checkpoint' \in CheckpointType
      BY <2>3 DEF TypeOK
    <3>2. InUnit(Checkpoint)'
      BY <2>3 DEF InUnit
    <3>3. QED
      BY <3>1, <3>2
  <2>5. fetches' \subseteq Request /\ crashes' \in 0..MaxCrashes
    BY <1>2, BoundsAssumption DEF Crash, TypeOK
  <2>6. QED
    BY <1>2, <2>1, <2>2, <2>4, <2>5 DEF Crash, TypeOK, Outcomes
<1>3. QED
  BY <1>1, <1>2

LEMMA HostTypeInv == TypeInv /\ Host => TypeInv'
<1> SUFFICES ASSUME TypeInv, Host PROVE TypeInv'
  OBVIOUS
<1> USE DEF TypeInv
<1>1. CASE HostTake
  BY <1>1 DEF HostTake, TakeRequest, hostUnchanged, grammarVars, TypeOK,
              SourceTypeOK, Checkpoint
<1>2. CASE HostFail
  <2>0. SourceTypeOK'
    BY <1>2 DEF HostFail, Fail, Settled, TypeOK, SourceTypeOK
  <2>1. SourceTypeOK' /\ fails' \in 0..MaxFails
    BY <1>2, <2>0, BoundsAssumption DEF HostFail, TypeOK
  <2>2. QED
    BY <1>2, <2>1 DEF HostFail, hostUnchanged, grammarVars, TypeOK, Checkpoint
<1>3. ASSUME NEW r \in fetches, HostEof(r) PROVE TypeInv'
  <2>1. r \in Request
    BY DEF TypeOK
  <2>2. SourceTypeOK'
    <3>1. CASE CompleteEof(r.offset)
      BY <2>1, <3>1, AnswerSourceType, 0 \in Nat DEF TypeOK
    <3>2. CASE UNCHANGED sourceVars
      BY <3>2 DEF TypeOK, SourceTypeOK, sourceVars
    <3>3. QED
      BY <1>3, <3>1, <3>2 DEF HostEof
  <2>3. QED
    BY <1>3, <2>2 DEF HostEof, hostUnchanged, grammarVars, TypeOK, Checkpoint
<1>4. ASSUME NEW r \in fetches, NEW n \in 1..r.len, NEW again \in BOOLEAN,
             HostAnswer(r, n, again)
      PROVE  TypeInv'
  <2>1. r \in Request /\ n \in Nat
    BY DEF TypeOK
  <2>2. SourceTypeOK'
    <3>1. CASE Complete(r.offset, BytesAt(r.offset, n))
      BY <2>1, <3>1, AnswerSourceType DEF TypeOK
    <3>2. CASE UNCHANGED sourceVars
      BY <3>2 DEF TypeOK, SourceTypeOK, sourceVars
    <3>3. QED
      BY <1>4, <3>1, <3>2 DEF HostAnswer
  <2>3. fetched' \in [DOMAIN Units -> Nat] /\ fetches' \subseteq Request
    BY <1>4, <2>1 DEF HostAnswer, TypeOK
  <2>4. QED
    BY <1>4, <2>2, <2>3 DEF HostAnswer, hostUnchanged, grammarVars, TypeOK, Checkpoint
<1>5. QED
  BY <1>1, <1>2, <1>3, <1>4 DEF Host

LEMMA NextTypeInv == TypeInv /\ [Next]_vars => TypeInv'
<1>1. TypeInv /\ UNCHANGED vars => TypeInv'
  BY DEF vars, sourceVars, grammarVars, TypeInv, TypeOK, SourceTypeOK, Checkpoint
<1>2. QED
  BY <1>1, PollTypeInv, ProcessTypeInv, HostTypeInv DEF Next

\* The types of every reachable state, for any grammar and any host.
THEOREM TypeCorrect == Spec => []TypeOK
<1>1. TypeInv => TypeOK
  BY DEF TypeInv
<1>2. QED
  BY <1>1, InitTypeInv, NextTypeInv, PTL DEF Spec

----------------------------------------------------------------------------
(* What is fed and what is held, whatever the grammar does with it. *)

\* Fed, unfolded at the present state.
LEMMA FedNow ==
  Fed(Checkpoint, HeldNow) <=>
    /\ \A u \in DOMAIN Units :
         /\ got[u] = BytesAt(Units[u].at, Len(got[u]))
         /\ Len(got[u]) <= Units[u].len
         /\ u >= unit => Len(got[u]) = (IF u = unit THEN filled ELSE 0)
    /\ held = BytesAt(heldOffset, Len(held))
BY DEF Fed, Checkpoint, HeldNow

LEMMA InitFed == Init => FedInv
<1> SUFFICES ASSUME Init PROVE FedInv
  OBVIOUS
<1>1. TypeInv
  BY InitTypeInv
<1>2. Fed(Checkpoint, HeldNow)
  <2>1. \A u \in DOMAIN Units :
          Len(got[u]) = 0 /\ got[u] = BytesAt(Units[u].at, 0) /\ 0 <= Units[u].len
    BY UnitsType DEF Init, BytesAt
  <2>2. held = BytesAt(heldOffset, Len(held))
    BY BytesNone DEF Init, SourceInit
  <2>3. QED
    BY <2>1, <2>2, UnitsType, FedNow DEF Init
<1>3. Fed(kept, keptHeld)
  BY <1>2 DEF Init
<1>4. EofPastEnd /\ TruncatedAtEnd
  BY DEF Init, SourceInit, EofPastEnd, TruncatedAtEnd
<1>5. QED
  BY <1>1, <1>2, <1>3, <1>4 DEF FedInv

\* Feeding the front of the held bytes: what was fed and what is left held
\* are the source bytes they should be, and the adapter kept no more.
LEMMA FedKeeps ==
  ASSUME TypeInv, Fed(Checkpoint, HeldNow),
         NEW scratch \in Scratches, NEW n \in 1..Len(held),
         ~Done, PollDelivers(Demand, scratch, n), GrammarFeed(SubSeq(held, 1, n))
  PROVE  /\ Fed(Checkpoint, HeldNow)'
         /\ SubSeq(held, 1, n) = BytesAt(Units[unit].at + filled, n)
         /\ unit \in DOMAIN Units /\ n <= Units[unit].len - filled
         /\ heldOffset = Units[unit].at + filled
         /\ heldOffset' = heldOffset + n
         /\ Len(held') = Len(held) - n
         /\ Len(got[unit]) = filled
         /\ Len(got'[unit]) = filled + n
         /\ \A u \in DOMAIN Units : u # unit => got'[u] = got[u]
         /\ \/ filled + n < Units[unit].len /\ filled' = filled + n /\ unit' = unit
            \/ filled + n <= Units[unit].len /\ filled' = 0 /\ unit' = unit + 1
<1>2. /\ n \in Nat /\ n <= Units[unit].len - filled /\ unit \in DOMAIN Units
      /\ Len(SubSeq(held, 1, n)) = n
      /\ held \in Seq(Nat) /\ Len(held) \in Nat /\ held # <<>>
      /\ got \in [DOMAIN Units -> Seq(Nat)]
      /\ filled \in Nat /\ unit \in Nat /\ heldOffset \in Nat
  <2>1. /\ n <= Units[unit].len - filled /\ unit \in DOMAIN Units
        /\ Len(SubSeq(held, 1, n)) = n
    BY FedFacts, DemandType
  <2>2. held \in Seq(Nat) /\ heldOffset \in Nat
    BY DEF TypeInv, TypeOK, SourceTypeOK
  <2>3. got \in [DOMAIN Units -> Seq(Nat)] /\ filled \in Nat /\ unit \in Nat
    BY DEF TypeInv, TypeOK, Checkpoint, CheckpointType
  <2>4. n \in Nat /\ Len(held) \in Nat /\ held # <<>>
    BY <2>2
  <2>5. QED
    BY <2>1, <2>2, <2>3, <2>4
<1>3. /\ heldOffset = Units[unit].at + filled
      /\ held = BytesAt(heldOffset, Len(held))
  BY DemandType, FedNow DEF PollDelivers
<1> DEFINE h == Len(held)
           a == Units[unit].at
<1>4. a \in Nat /\ Units[unit].len \in Nat \ {0} /\ a = Units[unit].at
  BY <1>2, UnitsType
<1>h. h \in Nat /\ n \in 0..h /\ h - n \in Nat /\ filled + n \in Nat /\ h = Len(held)
  BY <1>2
<1>b. held = BytesAt(heldOffset, h)
  BY <1>3
<1> HIDE DEF h, a
<1>5. SubSeq(held, 1, n) = BytesAt(heldOffset, n)
  <2>1. SubSeq(BytesAt(heldOffset, h), 1, n) = BytesAt(heldOffset, n)
    BY <1>2, <1>h, BytesCut
  <2>2. QED
    BY <1>b, <2>1
<1>6. /\ held' = BytesAt(heldOffset + n, h - n)
      /\ heldOffset' = heldOffset + n
      /\ Len(held') = h - n
  <2>1. SubSeq(held, n + 1, h) = BytesAt(heldOffset + n, h - n)
    <3>1. SubSeq(BytesAt(heldOffset, h), n + 1, h) = BytesAt(heldOffset + n, h - n)
      BY <1>2, <1>h, BytesCut
    <3>2. QED
      BY <1>b, <3>1
  <2>2. Len(BytesAt(heldOffset + n, h - n)) = h - n
    <3>1. heldOffset + n \in Nat
      BY <1>2
    <3>2. QED
      BY <1>h, <3>1, BytesType
  <2>3. QED
    BY <1>h, <2>1, <2>2 DEF PollDelivers
<1>7. /\ got[unit] = BytesAt(a, filled) /\ Len(got[unit]) = filled
  BY <1>2, <1>4, FedNow
<1>8. /\ got'[unit] = BytesAt(a, filled + n)
      /\ Len(got'[unit]) = filled + n
      /\ \A u \in DOMAIN Units : u # unit => got'[u] = got[u]
  <2>1. got' = [got EXCEPT ![unit] = @ \o BytesAt(a + filled, n)]
    BY <1>3, <1>4, <1>5 DEF GrammarFeed
  <2>2. BytesAt(a, filled) \o BytesAt(a + filled, n) = BytesAt(a, filled + n)
    <3>1. a \in Nat /\ filled \in Nat /\ n \in Nat
      BY <1>2, <1>4
    <3>2. QED
      BY <3>1, BytesJoin
  <2>3. Len(BytesAt(a, filled + n)) = filled + n
    BY <1>4, <1>h, BytesType
  <2>4. QED
    BY <1>2, <1>7, <2>1, <2>2, <2>3
<1>9. filled + n <= Units[unit].len
  BY <1>2, <1>4
<1>10. \/ filled + n < Units[unit].len /\ filled' = filled + n /\ unit' = unit
       \/ filled + n <= Units[unit].len /\ filled' = 0 /\ unit' = unit + 1
  BY <1>2, <1>9 DEF GrammarFeed
<1>11. \A u \in DOMAIN Units :
         /\ got'[u] = BytesAt(Units[u].at, Len(got'[u]))
         /\ Len(got'[u]) <= Units[u].len
         /\ u >= unit' => Len(got'[u]) = (IF u = unit' THEN filled' ELSE 0)
  <2> SUFFICES ASSUME NEW u \in DOMAIN Units
               PROVE  /\ got'[u] = BytesAt(Units[u].at, Len(got'[u]))
                      /\ Len(got'[u]) <= Units[u].len
                      /\ u >= unit' => Len(got'[u]) = (IF u = unit' THEN filled' ELSE 0)
    OBVIOUS
  <2>1. /\ got[u] = BytesAt(Units[u].at, Len(got[u]))
        /\ Len(got[u]) <= Units[u].len
        /\ u >= unit => Len(got[u]) = (IF u = unit THEN filled ELSE 0)
    BY FedNow
  <2>2. u \in Nat
    BY UnitsType
  <2>3. CASE u = unit
    <3>1. got'[u] = BytesAt(Units[u].at, Len(got'[u])) /\ Len(got'[u]) = filled + n
      BY <2>3, <1>4, <1>8
    <3>2. u >= unit' => u = unit' /\ filled' = filled + n
      BY <2>2, <2>3, <1>2, <1>10
    <3>3. QED
      BY <2>3, <3>1, <3>2, <1>9
  <2>4. CASE u # unit
    <3>1. got'[u] = got[u]
      BY <1>8, <2>4
    <3>2. u >= unit' => Len(got[u]) = (IF u = unit' THEN filled' ELSE 0)
      BY <2>1, <2>2, <2>4, <1>2, <1>10
    <3>3. QED
      BY <2>1, <3>1, <3>2
  <2>5. QED
    BY <2>3, <2>4
<1>12. held' = BytesAt(heldOffset', Len(held'))
  BY <1>6
<1>13. Fed(Checkpoint, HeldNow)'
  BY <1>11, <1>12, FedNow DEF Fed, Checkpoint, HeldNow
<1>14. QED
  BY <1>2, <1>3, <1>4, <1>5, <1>6, <1>7, <1>8, <1>10, <1>13, <1>h

\* A poll that feeds nothing leaves the grammar, the held bytes and their
\* account alone.
LEMMA QuietPoll ==
  ASSUME Poll, \A scratch \in Scratches : ~PollFed(scratch)
  PROVE  UNCHANGED <<grammarVars, held, heldOffset, eofAt, fetched>>
<1>1. ASSUME NEW scratch \in Scratches, PollPending(scratch)
      PROVE  UNCHANGED <<grammarVars, held, heldOffset, eofAt, fetched>>
  BY <1>1 DEF PollPending, PollWaits, PollPosts, processUnchanged, sourceVars
<1>2. CASE PollComplete \/ PollTruncated \/ PollFailed \/ PollRefused
  BY <1>2 DEF PollComplete, PollTruncated, PollEnds, PollFailed, PollFails,
     PollRefused, PollRefuses, processUnchanged, sourceVars
<1>3. QED
  BY <1>1, <1>2 DEF Poll

LEMMA PollProcessUnchanged == Poll => processUnchanged
BY DEF Poll, PollComplete, PollTruncated, PollFailed, PollRefused, PollFed, PollPending

LEMMA PollFedInv == FedInv /\ Poll => FedInv'
<1> SUFFICES ASSUME FedInv, Poll PROVE FedInv'
  OBVIOUS
<1>1. TypeInv'
  BY PollTypeInv DEF FedInv
<1>2. Fed(kept, keptHeld)' /\ UNCHANGED <<sourceLength, fetched>>
  BY PollProcessUnchanged DEF FedInv, Fed, processUnchanged
<1>3. ASSUME NEW scratch \in Scratches, PollFed(scratch) PROVE FedInv'
  <2>1. PICK n \in 1..Len(held) :
          PollDelivers(Demand, scratch, n) /\ GrammarFeed(SubSeq(held, 1, n))
    BY <1>3 DEF PollFed
  <2>2. ~Done /\ outcome' = "fed" /\ eofAt' = eofAt
    BY <1>3, <2>1 DEF PollFed, PollDelivers
  <2>3. Fed(Checkpoint, HeldNow)'
    BY <2>1, <2>2, FedKeeps DEF FedInv
  <2>4. QED
    BY <1>1, <1>2, <2>2, <2>3 DEF FedInv, EofPastEnd, TruncatedAtEnd
<1>4. CASE \A scratch \in Scratches : ~PollFed(scratch)
  <2>1. UNCHANGED <<grammarVars, held, heldOffset, eofAt>>
    BY <1>4, QuietPoll
  <2>2. Fed(Checkpoint, HeldNow)' /\ EofPastEnd'
    BY <1>2, <2>1 DEF FedInv, Fed, EofPastEnd, Checkpoint, HeldNow, grammarVars
  <2>3. Done' = Done /\ Demand' = Demand
    BY <2>1 DEF grammarVars, Done, Demand
  <2>4. TruncatedAtEnd'
    <3>1. CASE PollTruncated
      <4>1. ~Done /\ eofAt = Demand.offset
        BY <3>1 DEF PollTruncated, PollEnds
      <4>2. Demand.offset \in Nat
        BY <4>1, DemandType DEF FedInv
      <4>3. QED
        BY <1>2, <2>3, <4>1, <4>2 DEF FedInv, EofPastEnd, TruncatedAtEnd
    <3>2. CASE outcome' # "truncated"
      BY <3>2 DEF TruncatedAtEnd
    <3>3. QED
      BY <3>1, <3>2 DEF Poll, PollComplete, PollFailed, PollRefused, PollFed, PollPending
  <2>5. QED
    BY <1>1, <1>2, <2>2, <2>4 DEF FedInv
<1>5. QED
  BY <1>3, <1>4

\* What a restart finds is what was saved.
LEMMA CrashRestores ==
  ASSUME TypeInv, Crash
  PROVE  /\ Checkpoint' = kept /\ HeldNow' = keptHeld
         /\ UNCHANGED <<kept, keptHeld, sourceLength>>
         /\ posted' = NoRequest /\ eofAt' = NoOffset /\ outcome' = "none"
BY DEF Crash, WithHeld, Checkpoint, HeldNow, TypeInv, TypeOK, CheckpointType, HeldType

LEMMA ProcessFedInv == FedInv /\ (Save \/ Crash) => FedInv'
<1> SUFFICES ASSUME FedInv, Save \/ Crash PROVE FedInv'
  OBVIOUS
<1>1. TypeInv'
  BY ProcessTypeInv DEF FedInv
<1>2. CASE Save
  <2>1. /\ UNCHANGED <<sourceLength, sourceVars, grammarVars, fetched, outcome>>
        /\ kept' = Checkpoint /\ keptHeld' = HeldNow
    BY <1>2 DEF Save
  <2>2. Fed(kept, keptHeld)' /\ Fed(Checkpoint, HeldNow)'
    BY <2>1 DEF FedInv, Fed, Checkpoint, HeldNow, sourceVars, grammarVars
  <2>3. QED
    BY <1>1, <2>1, <2>2 DEF FedInv, sourceVars, grammarVars, EofPastEnd,
       TruncatedAtEnd, Done, Demand
<1>3. CASE Crash
  <2>1. /\ Checkpoint' = kept /\ HeldNow' = keptHeld
        /\ UNCHANGED <<kept, keptHeld>>
        /\ eofAt' = NoOffset /\ outcome' = "none"
    BY <1>3, CrashRestores DEF FedInv
  <2>2. Fed(kept, keptHeld)' /\ Fed(Checkpoint, HeldNow)'
    BY <2>1 DEF FedInv, Fed
  <2>3. QED
    BY <1>1, <2>1, <2>2 DEF FedInv, EofPastEnd, TruncatedAtEnd
<1>4. QED
  BY <1>2, <1>3

LEMMA HostFedInv == FedInv /\ Host => FedInv'
<1> SUFFICES ASSUME FedInv, Host PROVE FedInv'
  OBVIOUS
<1>1. TypeInv'
  BY HostTypeInv DEF FedInv
<1>2. UNCHANGED <<sourceLength, grammarVars, outcome, kept, keptHeld>>
  BY DEF Host, HostTake, HostFail, HostEof, HostAnswer, hostUnchanged
<1>3. Fed(kept, keptHeld)' /\ TruncatedAtEnd'
  BY <1>2 DEF FedInv, Fed, TruncatedAtEnd, Done, Demand, grammarVars
<1>4. ASSUME UNCHANGED <<held, heldOffset>>
      PROVE  Fed(Checkpoint, HeldNow)'
  BY <1>2, <1>4 DEF FedInv, Fed, Checkpoint, HeldNow, grammarVars
<1>5. CASE HostTake \/ HostFail
  <2>1. UNCHANGED <<held, heldOffset, eofAt>>
    BY <1>5 DEF HostTake, TakeRequest, HostFail, Fail
  <2>2. QED
    BY <1>1, <1>2, <1>3, <1>4, <2>1 DEF FedInv, EofPastEnd
<1>6. ASSUME NEW r \in fetches, HostEof(r) PROVE FedInv'
  <2>1. /\ UNCHANGED <<held, heldOffset>>
        /\ \/ UNCHANGED eofAt
           \/ eofAt' = r.offset /\ r.offset >= sourceLength
    BY <1>6 DEF HostEof, CompleteEof, sourceVars
  <2>2. EofPastEnd'
    BY <1>2, <2>1 DEF FedInv, EofPastEnd
  <2>3. QED
    BY <1>1, <1>3, <1>4, <2>1, <2>2 DEF FedInv
<1>7. ASSUME NEW r \in fetches, NEW n \in 1..r.len, NEW again \in BOOLEAN,
             HostAnswer(r, n, again)
      PROVE  FedInv'
  <2>1. CASE Complete(r.offset, BytesAt(r.offset, n))
    <3>1. r.offset \in Nat /\ n \in Nat
      BY DEF FedInv, TypeInv, TypeOK
    <3>2. Len(BytesAt(r.offset, n)) = n
      BY <3>1, BytesType
    <3>3. /\ held' = BytesAt(heldOffset', Len(held')) /\ UNCHANGED eofAt
      BY <2>1, <3>2 DEF Complete
    <3>4. Fed(Checkpoint, HeldNow)'
      BY <1>2, <3>3 DEF FedInv, Fed, Checkpoint, HeldNow, grammarVars
    <3>5. QED
      BY <1>1, <1>2, <1>3, <3>3, <3>4 DEF FedInv, EofPastEnd
  <2>2. CASE UNCHANGED sourceVars
    BY <1>1, <1>2, <1>3, <1>4, <2>2 DEF FedInv, sourceVars, EofPastEnd
  <2>3. QED
    BY <1>7, <2>1, <2>2 DEF HostAnswer
<1>8. QED
  BY <1>5, <1>6, <1>7 DEF Host

LEMMA NextFedInv == FedInv /\ [Next]_vars => FedInv'
<1>1. FedInv /\ UNCHANGED vars => FedInv'
  <2> SUFFICES ASSUME FedInv, UNCHANGED vars PROVE FedInv'
    OBVIOUS
  <2>1. TypeInv'
    BY NextTypeInv DEF FedInv
  <2>2. Fed(Checkpoint, HeldNow)' /\ Fed(kept, keptHeld)'
    BY DEF FedInv, Fed, Checkpoint, HeldNow, vars, sourceVars, grammarVars
  <2>3. QED
    BY <2>1, <2>2 DEF FedInv, vars, sourceVars, grammarVars, EofPastEnd,
       TruncatedAtEnd, Done, Demand
<1>2. QED
  BY <1>1, PollFedInv, ProcessFedInv, HostFedInv DEF Next

LEMMA FedInvHolds == Spec => []FedInv
BY InitFed, NextFedInv, PTL DEF Spec

\* Each unit is fed its own bytes, in order and once, whatever the host sends,
\* wherever the process dies and whatever units the grammar leaves early
\* (poll_once and AsyncSource together).
THEOREM InOrder == Spec => []FedInOrder
<1>1. FedInv => FedInOrder
  BY FedNow DEF FedInv, FedInOrder
<1>2. QED
  BY <1>1, FedInvHolds, PTL

\* A walk is cut short only where the source ends: no stale answer, failure or
\* restart makes complete_eof's offset another read's.
THEOREM EndIsTheEnd == Spec => []TruncatedAtEnd
<1>1. FedInv => TruncatedAtEnd
  BY DEF FedInv
<1>2. QED
  BY <1>1, FedInvHolds, PTL

----------------------------------------------------------------------------
(* Delivery implements ByteFeed. *)

LEMMA InitRefines == Init => Feed!Init
BY DEF Init, Feed!Init, Checkpoint

LEMMA StepRefines == FedInv /\ [Next]_vars => [Feed!Next]_Feed!vars
<1> SUFFICES ASSUME FedInv, [Next]_vars
             PROVE  Feed!Next \/ UNCHANGED Feed!vars
  OBVIOUS
<1>1. CASE UNCHANGED <<grammarVars, kept>>
  BY <1>1 DEF grammarVars, Feed!vars
<1>2. ASSUME NEW scratch \in Scratches, PollFed(scratch)
      PROVE  Feed!Next
  <2>1. PICK n \in 1..Len(held) :
          PollDelivers(Demand, scratch, n) /\ GrammarFeed(SubSeq(held, 1, n))
    BY <1>2 DEF PollFed
  <2>2. ~Done /\ UNCHANGED kept
    BY <1>2 DEF PollFed, processUnchanged
  <2>3. /\ n \in 1..(Units[unit].len - filled)
        /\ SubSeq(held, 1, n) = BytesAt(Units[unit].at + filled, n)
        /\ Len(SubSeq(held, 1, n)) = n
    <3>1. TypeInv /\ Fed(Checkpoint, HeldNow)
      BY DEF FedInv
    <3>2. /\ n <= Units[unit].len - filled
          /\ SubSeq(held, 1, n) = BytesAt(Units[unit].at + filled, n)
      BY <2>1, <2>2, <3>1, FedKeeps
    <3>3. Len(SubSeq(held, 1, n)) = n
      BY <2>1, <2>2, <3>1, FedFacts
    <3>4. Units[unit].len - filled \in Nat
      BY <2>2, <3>1, DemandType
    <3>5. QED
      BY <3>2, <3>3, <3>4
  <2>4. Feed!Feed(n)
    BY <2>1, <2>2, <2>3 DEF GrammarFeed, Feed!Feed, Feed!Bytes, BytesAt
  <2>5. QED
    BY <2>2, <2>3, <2>4 DEF Feed!Next, Feed!FeedSome, Feed!Done, Done
<1>3. CASE Save
  BY <1>3 DEF Save, Feed!Next, Feed!Save, Checkpoint, grammarVars
<1>4. CASE Crash
  BY <1>4 DEF Crash, Feed!Next, Feed!Resume
<1>5. QED
  <2>1. CASE Poll
    <3>1. CASE \E scratch \in Scratches : PollFed(scratch)
      BY <1>2, <3>1
    <3>2. CASE \A scratch \in Scratches : ~PollFed(scratch)
      BY <1>1, <2>1, <3>2, QuietPoll, PollProcessUnchanged DEF processUnchanged
    <3>3. QED
      BY <3>1, <3>2
  <2>2. CASE Host
    BY <1>1, <2>2 DEF Host, HostTake, HostFail, HostEof, HostAnswer, hostUnchanged
  <2>3. CASE UNCHANGED vars
    BY <1>1, <2>3 DEF vars
  <2>4. QED
    BY <1>3, <1>4, <2>1, <2>2, <2>3 DEF Next

\* The adapter, the host and the restarts together are a ByteFeed: a grammar
\* cannot tell an asynchronous transport from one that hands it its bytes.
THEOREM Implements == Spec => FeedSpec
BY FedInvHolds, InitRefines, StepRefines, PTL DEF Spec, FeedSpec, Feed!Spec

----------------------------------------------------------------------------
(* While no unit was left before its end. *)

\* Paired, unfolded at the present state.
LEMMA PairedNow ==
  Paired(Checkpoint, HeldNow) <=>
    /\ \A u \in DOMAIN Units :
         /\ u < unit => Len(got[u]) = Units[u].len
         /\ fetched[u] = Len(got[u]) + (IF u = unit THEN Len(held) ELSE 0)
    /\ held # <<>> =>
         /\ unit \in DOMAIN Units
         /\ heldOffset = Units[unit].at + filled
         /\ Len(held) <= Units[unit].len - filled
BY DEF Paired, Checkpoint, HeldNow

LEMMA LeftNow == LeftEarly <=> \E u \in DOMAIN Units : u < unit /\ Len(got[u]) < Units[u].len
BY DEF LeftEarly, LeftBehind, Checkpoint

LEMMA InitInv == Init => IInv
<1> SUFFICES ASSUME Init PROVE IInv
  OBVIOUS
<1>1. FedInv
  BY InitFed
<1>2. Paired(Checkpoint, HeldNow)
  BY UnitsType, PairedNow DEF Init, SourceInit
<1>3. Paired(kept, keptHeld)
  BY <1>2 DEF Init
<1>4. PostedIsDemand /\ EofIsDemand /\ NeverRefused
  BY DEF Init, SourceInit, PostedIsDemand, EofIsDemand, NeverRefused
<1>5. QED
  BY <1>1, <1>2, <1>3, <1>4 DEF IInv, InStep

\* A grammar that has not left a unit early was in step before it fed, and
\* feeding leaves it paired with what is still held.
LEMMA FedPaired ==
  ASSUME FedInv, InStep, ~LeftEarly',
         NEW scratch \in Scratches, NEW n \in 1..Len(held),
         ~Done, PollDelivers(Demand, scratch, n), GrammarFeed(SubSeq(held, 1, n)),
         fetched' = fetched
  PROVE  Paired(Checkpoint, HeldNow)'
<1>1. TypeInv /\ Fed(Checkpoint, HeldNow) /\ Paired(Checkpoint, HeldNow)
  BY DEF FedInv, InStep
<1> DEFINE h == Len(held)
<1>2. /\ unit \in DOMAIN Units /\ n <= Units[unit].len - filled
      /\ heldOffset = Units[unit].at + filled
      /\ heldOffset' = heldOffset + n
      /\ Len(held') = h - n
      /\ Len(got[unit]) = filled
      /\ Len(got'[unit]) = filled + n
      /\ \A u \in DOMAIN Units : u # unit => got'[u] = got[u]
      /\ \/ filled + n < Units[unit].len /\ filled' = filled + n /\ unit' = unit
         \/ filled + n <= Units[unit].len /\ filled' = 0 /\ unit' = unit + 1
  BY <1>1, FedKeeps
<1>3. /\ h \in Nat /\ n \in 1..h /\ held # <<>> /\ held' \in Seq(Nat)
      /\ filled \in Nat /\ unit \in Nat
      /\ Units[unit].at \in Nat /\ Units[unit].len \in Nat \ {0}
  <2>1. held \in Seq(Nat) /\ filled \in Nat /\ unit \in Nat
    BY <1>1 DEF TypeInv, TypeOK, SourceTypeOK, Checkpoint, CheckpointType
  <2>2. held' \in Seq(Nat)
    BY <2>1 DEF PollDelivers
  <2>3. h \in Nat /\ n \in 1..h /\ held # <<>>
    BY <2>1
  <2>4. Units[unit].at \in Nat /\ Units[unit].len \in Nat \ {0}
    BY <1>2, UnitsType
  <2>5. QED
    BY <2>1, <2>2, <2>3, <2>4
<1>4. /\ h <= Units[unit].len - filled
      /\ \A u \in DOMAIN Units :
           /\ u < unit => Len(got[u]) = Units[u].len
           /\ fetched'[u] = Len(got[u]) + (IF u = unit THEN h ELSE 0)
  BY <1>1, <1>3, PairedNow
<1>5. held' # <<>> => h # n
  BY <1>2, <1>3
<1> HIDE DEF h
<1>6. \/ filled + n < Units[unit].len /\ filled' = filled + n /\ unit' = unit
      \/ filled + n = Units[unit].len /\ filled' = 0 /\ unit' = unit + 1
  <2>1. CASE unit' = unit + 1
    <3>1. ~(Len(got'[unit]) < Units[unit].len)
      BY <2>1, <1>2, <1>3 DEF LeftEarly, LeftBehind, Checkpoint
    <3>2. filled + n <= Units[unit].len /\ filled' = 0
      <4>1. unit + 1 # unit
        BY <1>3
      <4>2. QED
        BY <2>1, <4>1, <1>2
    <3>3. filled + n \in Nat /\ Units[unit].len \in Nat
      BY <1>3
    <3>4. Len(got'[unit]) = filled + n
      BY <1>2
    <3>5. ~(filled + n < Units[unit].len)
      BY <3>1, <3>4
    <3>6. filled + n = Units[unit].len
      BY <3>2, <3>3, <3>5
    <3>7. QED
      BY <2>1, <3>2, <3>6
  <2>2. CASE unit' # unit + 1
    BY <2>2, <1>2
  <2>3. QED
    BY <2>1, <2>2
<1>7. \A u \in DOMAIN Units :
        /\ u < unit' => Len(got'[u]) = Units[u].len
        /\ fetched'[u] = Len(got'[u]) + (IF u = unit' THEN Len(held') ELSE 0)
  <2> SUFFICES ASSUME NEW u \in DOMAIN Units
               PROVE  /\ u < unit' => Len(got'[u]) = Units[u].len
                      /\ fetched'[u] = Len(got'[u])
                                        + (IF u = unit' THEN Len(held') ELSE 0)
    OBVIOUS
  <2>1. u \in Nat
    BY UnitsType
  <2>2. CASE u = unit
    <3>1. Len(got'[u]) = filled + n /\ fetched'[u] = filled + h
      BY <2>2, <1>2, <1>4
    <3>2. CASE filled + n < Units[unit].len /\ filled' = filled + n /\ unit' = unit
      BY <2>2, <3>1, <3>2, <1>2, <1>3
    <3>3. CASE filled + n = Units[unit].len /\ filled' = 0 /\ unit' = unit + 1
      <4>1. n = h
        BY <3>3, <1>3, <1>4
      <4>2. u < unit' /\ u # unit'
        BY <2>2, <3>3, <1>3
      <4>3. QED
        BY <2>2, <3>1, <3>3, <4>1, <4>2, <1>3
    <3>4. QED
      BY <1>6, <3>2, <3>3
  <2>3. CASE u # unit
    <3>1. got'[u] = got[u] /\ fetched'[u] = Len(got[u]) + 0
      BY <1>2, <1>4, <2>3
    <3>2. u < unit' => Len(got'[u]) = Units[u].len
      <4>1. u < unit' => u < unit
        BY <2>1, <2>3, <1>3, <1>6
      <4>2. QED
        BY <3>1, <4>1, <1>4
    <3>3. CASE u # unit'
      BY <3>1, <3>2, <3>3
    <3>4. CASE u = unit'
      <4>1. filled + n = Units[unit].len
        BY <1>6, <2>3, <3>4
      <4>2. Len(held') = 0
        BY <1>2, <1>3, <1>4, <4>1
      <4>3. QED
        BY <3>1, <3>2, <4>2
    <3>5. QED
      BY <3>3, <3>4
  <2>4. QED
    BY <2>2, <2>3
<1>8. held' # <<>> =>
        /\ unit' \in DOMAIN Units
        /\ heldOffset' = Units[unit'].at + filled'
        /\ Len(held') <= Units[unit'].len - filled'
  <2> SUFFICES ASSUME held' # <<>>
               PROVE  /\ unit' \in DOMAIN Units
                      /\ heldOffset' = Units[unit'].at + filled'
                      /\ Len(held') <= Units[unit'].len - filled'
    OBVIOUS
  <2>1. n < h
    BY <1>3, <1>5
  <2>2. unit' = unit /\ filled' = filled + n
    BY <1>3, <1>4, <1>6, <2>1
  <2>3. heldOffset' = Units[unit'].at + filled' /\ unit' \in DOMAIN Units
    BY <1>2, <1>3, <2>2
  <2>4. Len(held') <= Units[unit'].len - filled'
    BY <1>2, <1>3, <1>4, <2>2
  <2>5. QED
    BY <2>3, <2>4
<1>9. QED
  BY <1>7, <1>8, PairedNow DEF Paired, Checkpoint, HeldNow

LEMMA PollInStep == FedInv /\ InStep /\ Poll /\ ~LeftEarly' => InStep'
<1> SUFFICES ASSUME FedInv, InStep, Poll, ~LeftEarly' PROVE InStep'
  OBVIOUS
<1>1. CASE \E scratch \in Scratches : PollFed(scratch)
  <2>1. PICK scratch \in Scratches : PollFed(scratch)
    BY <1>1
  <2>2. PICK n \in 1..Len(held) :
          PollDelivers(Demand, scratch, n) /\ GrammarFeed(SubSeq(held, 1, n))
    BY <2>1 DEF PollFed
  <2>3. ~Done /\ fetched' = fetched /\ outcome' = "fed"
    BY <2>1 DEF PollFed, processUnchanged
  <2>4. Paired(Checkpoint, HeldNow)'
    BY <2>2, <2>3, FedPaired
  <2>5. posted' = NoRequest /\ eofAt' = NoOffset
    BY <2>2 DEF PollDelivers, InStep, PostedIsDemand, EofIsDemand
  <2>6. QED
    BY <2>3, <2>4, <2>5 DEF InStep, PostedIsDemand, EofIsDemand, NeverRefused
<1>2. CASE \A scratch \in Scratches : ~PollFed(scratch)
  <2>1. UNCHANGED <<grammarVars, held, heldOffset, eofAt, fetched>>
    BY <1>2, QuietPoll
  <2>2. Paired(Checkpoint, HeldNow)' /\ Done' = Done /\ Demand' = Demand
    BY <2>1 DEF InStep, Paired, Checkpoint, HeldNow, grammarVars, Done, Demand
  <2>3. CASE PollComplete \/ PollTruncated \/ PollFailed
    <3>1. UNCHANGED posted /\ outcome' # "refused"
      BY <2>3 DEF PollComplete, PollTruncated, PollEnds, PollFailed, PollFails, sourceVars
    <3>2. QED
      BY <2>1, <2>2, <3>1 DEF InStep, PostedIsDemand, EofIsDemand, NeverRefused
  <2>4. CASE PollRefused
    <3>1. ~Done /\ PollRefuses(Demand)
      BY <2>4 DEF PollRefused
    <3>2. held # <<>> => heldOffset = Demand.offset
      BY <3>1, DemandType, PairedNow DEF FedInv, InStep
    <3>3. FALSE
      BY <3>1, <3>2 DEF PollRefuses, InStep, EofIsDemand, PostedIsDemand
    <3>4. QED
      BY <3>3
  <2>5. ASSUME NEW scratch \in Scratches, PollPending(scratch) PROVE InStep'
    <3>1. /\ outcome' = "pending" /\ ~Done /\ held = <<>>
          /\ \/ UNCHANGED posted
             \/ /\ posted' = [offset |-> Demand.offset, len |-> Maximum(Demand, scratch)]
                /\ eofAt = NoOffset
      BY <2>5 DEF PollPending, PollWaits, PollPosts, sourceVars
    <3>2. Maximum(Demand, scratch) <= Demand.len
      BY <3>1, DemandType, MaximumType DEF FedInv
    <3>3. PostedIsDemand'
      BY <2>1, <2>2, <3>1, <3>2 DEF InStep, PostedIsDemand
    <3>4. EofIsDemand'
      BY <2>1, <2>2, <3>1 DEF InStep, EofIsDemand
    <3>5. QED
      BY <2>2, <3>1, <3>3, <3>4 DEF InStep, NeverRefused
  <2>6. QED
    BY <1>2, <2>3, <2>4, <2>5 DEF Poll
<1>3. QED
  BY <1>1, <1>2

LEMMA HostInStep == FedInv /\ InStep /\ Host => InStep'
<1> SUFFICES ASSUME FedInv, InStep, Host PROVE InStep'
  OBVIOUS
<1>2. UNCHANGED <<sourceLength, grammarVars, outcome, kept, keptHeld>>
  BY DEF Host, HostTake, HostFail, HostEof, HostAnswer, hostUnchanged
<1>3. /\ NeverRefused'
      /\ Done' = Done /\ Demand' = Demand /\ sourceLength' = sourceLength
  BY <1>2 DEF InStep, NeverRefused, Done, Demand, grammarVars
<1>4. ASSUME UNCHANGED <<held, heldOffset, fetched>>
      PROVE  Paired(Checkpoint, HeldNow)'
  BY <1>2, <1>4 DEF InStep, Paired, Checkpoint, HeldNow, grammarVars
<1>5. CASE HostTake \/ HostFail
  <2>1. /\ UNCHANGED <<held, heldOffset, eofAt, fetched>>
        /\ posted' \in {posted, NoRequest}
    BY <1>5 DEF HostTake, TakeRequest, HostFail, Fail, Settled
  <2>2. QED
    BY <1>3, <1>4, <2>1 DEF InStep, PostedIsDemand, EofIsDemand
<1>6. ASSUME NEW r \in fetches, HostEof(r) PROVE InStep'
  <2>1. CASE CompleteEof(r.offset)
    <3>1. /\ UNCHANGED <<held, heldOffset, fetched>>
          /\ posted # NoRequest /\ posted.offset = r.offset
          /\ posted' = NoRequest /\ eofAt' = r.offset
      BY <1>6, <2>1 DEF HostEof, CompleteEof, Answers, Settled
    <3>2. QED
      BY <1>3, <1>4, <3>1 DEF InStep, PostedIsDemand, EofIsDemand
  <2>2. CASE UNCHANGED sourceVars
    BY <1>3, <1>4, <1>6, <2>2
       DEF HostEof, InStep, sourceVars, PostedIsDemand, EofIsDemand
  <2>3. QED
    BY <1>6, <2>1, <2>2 DEF HostEof
<1>7. ASSUME NEW r \in fetches, NEW n \in 1..r.len, NEW again \in BOOLEAN,
             HostAnswer(r, n, again)
      PROVE  InStep'
  <2>1. CASE /\ Complete(r.offset, BytesAt(r.offset, n))
             /\ fetched' = [fetched EXCEPT ![unit] = @ + n]
    <3>1. r \in Request /\ n \in Nat \ {0}
      BY DEF FedInv, TypeInv, TypeOK
    <3>2. BytesAt(r.offset, n) \in Seq(Nat) /\ Len(BytesAt(r.offset, n)) = n
      BY <3>1, BytesType
    <3>3. /\ posted # NoRequest /\ posted.offset = r.offset /\ n <= posted.len
          /\ held' = BytesAt(r.offset, n) /\ heldOffset' = r.offset
          /\ posted' = NoRequest /\ UNCHANGED eofAt
      BY <2>1, <3>2 DEF Complete, Accepts, Answers, Settled
    <3>4. ~Done /\ held = <<>> /\ posted.offset = Demand.offset
          /\ posted.len <= Demand.len
      BY <3>3 DEF InStep, PostedIsDemand
    <3>5. eofAt' = NoOffset
      BY <3>3 DEF InStep, EofIsDemand
    <3>6. Paired(Checkpoint, HeldNow)'
      <4>1. /\ unit \in DOMAIN Units /\ unit \in Nat
            /\ Demand.offset = Units[unit].at + filled
            /\ Demand.len = Units[unit].len - filled
            /\ fetched \in [DOMAIN Units -> Nat]
            /\ Demand.len \in Nat /\ posted \in Request
        <5>1. TypeInv /\ posted \in Request
          BY <3>3 DEF FedInv, TypeInv, TypeOK, SourceTypeOK
        <5>2. fetched \in [DOMAIN Units -> Nat] /\ unit \in Nat
          BY <5>1 DEF TypeInv, TypeOK, Checkpoint, CheckpointType
        <5>3. QED
          BY <3>4, <5>1, <5>2, DemandType
      <4>2. Len(held) = 0 /\ Len(held') = n /\ n <= Demand.len
        BY <3>1, <3>2, <3>3, <3>4, <4>1
      <4>3. \A u \in DOMAIN Units :
              /\ u < unit => Len(got[u]) = Units[u].len
              /\ fetched[u] = Len(got[u]) + (IF u = unit THEN 0 ELSE 0)
        BY <4>2, PairedNow DEF InStep
      <4>4. \A u \in DOMAIN Units :
              fetched'[u] = Len(got[u]) + (IF u = unit THEN n ELSE 0)
        <5>1. \A u \in DOMAIN Units : Len(got[u]) \in Nat
          BY DEF FedInv, TypeInv, TypeOK, Checkpoint, CheckpointType
        <5>2. \A u \in DOMAIN Units : fetched[u] = Len(got[u])
          BY <4>3, <5>1
        <5>3. fetched'[unit] = Len(got[unit]) + n
              /\ \A u \in DOMAIN Units : u # unit => fetched'[u] = Len(got[u])
          BY <2>1, <4>1, <5>2
        <5>4. n \in Nat
          BY <3>1
        <5> SUFFICES ASSUME NEW u \in DOMAIN Units
                     PROVE  fetched'[u] = Len(got[u]) + (IF u = unit THEN n ELSE 0)
          OBVIOUS
        <5>5. CASE u = unit
          BY <5>3, <5>5
        <5>6. CASE u # unit
          BY <5>1, <5>3, <5>6
        <5>7. QED
          BY <5>5, <5>6
      <4>5. UNCHANGED <<got, unit, filled>>
        BY <1>2 DEF grammarVars
      <4>6. QED
        <5>1. \A u \in DOMAIN Units :
                /\ u < unit' => Len(got'[u]) = Units[u].len
                /\ fetched'[u] = Len(got'[u]) + (IF u = unit' THEN Len(held') ELSE 0)
          BY <4>2, <4>3, <4>4, <4>5
        <5>2. /\ unit' \in DOMAIN Units
              /\ heldOffset' = Units[unit'].at + filled'
              /\ Len(held') <= Units[unit'].len - filled'
          BY <3>3, <3>4, <4>1, <4>2, <4>5
        <5>3. QED
          BY <5>1, <5>2 DEF Paired, Checkpoint, HeldNow
    <3>7. QED
      BY <1>3, <3>3, <3>5, <3>6 DEF InStep, PostedIsDemand, EofIsDemand
  <2>2. CASE UNCHANGED <<sourceVars, fetched>>
    BY <1>3, <1>4, <2>2 DEF InStep, sourceVars, PostedIsDemand, EofIsDemand
  <2>3. QED
    BY <1>7, <2>1, <2>2 DEF HostAnswer
<1>8. QED
  BY <1>5, <1>6, <1>7 DEF Host

\* A unit once left stays left: only a restart goes back.
LEMMA LeftStays ==
  ASSUME FedInv, [Next]_vars, LeftEarly, ~LeftEarly'
  PROVE  Crash
<1>1. ASSUME UNCHANGED grammarVars PROVE FALSE
  BY <1>1 DEF grammarVars, LeftEarly, LeftBehind, Checkpoint
<1>2. ASSUME NEW scratch \in Scratches, PollFed(scratch) PROVE FALSE
  <2>1. PICK n \in 1..Len(held) :
          ~Done /\ PollDelivers(Demand, scratch, n) /\ GrammarFeed(SubSeq(held, 1, n))
    BY <1>2 DEF PollFed
  <2>2. PICK u \in DOMAIN Units : u < unit /\ Len(got[u]) < Units[u].len
    BY LeftNow
  <2>3. u \in Nat /\ unit \in Nat
    BY UnitsType DEF FedInv, TypeInv, TypeOK, Checkpoint, CheckpointType
  <2>4. got'[u] = got[u] /\ unit' \in {unit, unit + 1}
    <3>1. TypeInv /\ Fed(Checkpoint, HeldNow) /\ u # unit
      BY <2>2, <2>3 DEF FedInv
    <3>2. /\ \A v \in DOMAIN Units : v # unit => got'[v] = got[v]
          /\ unit' = unit \/ unit' = unit + 1
      BY <2>1, <3>1, FedKeeps
    <3>3. QED
      BY <3>1, <3>2
  <2>5. u < unit' /\ Len(got'[u]) < Units[u].len
    BY <2>2, <2>3, <2>4
  <2>6. QED
    BY <2>5 DEF LeftEarly, LeftBehind, Checkpoint
<1>3. CASE Poll
  BY <1>1, <1>2, <1>3, QuietPoll
<1>4. CASE Host \/ Save \/ UNCHANGED vars
  BY <1>1, <1>4 DEF Host, HostTake, HostFail, HostEof, HostAnswer, hostUnchanged, Save, vars
<1>5. QED
  BY <1>3, <1>4 DEF Next

LEMMA NextInv == IInv /\ [Next]_vars => IInv'
<1> SUFFICES ASSUME IInv, [Next]_vars PROVE IInv'
  OBVIOUS
<1>1. FedInv /\ FedInv'
  BY NextFedInv DEF IInv
<1>2. LeftBehind(kept)' \/ Paired(kept, keptHeld)'
  <2>1. CASE UNCHANGED <<kept, keptHeld>>
    BY <2>1 DEF IInv, LeftBehind, Paired
  <2>2. CASE Save
    BY <2>2 DEF Save, IInv, InStep, LeftEarly, LeftBehind, Paired, Checkpoint, HeldNow
  <2>3. CASE ~Save
    BY <2>1, <2>3, PollProcessUnchanged DEF Next, Crash, Host, HostTake, HostFail, HostEof,
       HostAnswer, hostUnchanged, processUnchanged, vars
  <2>4. QED
    BY <2>2, <2>3
<1>3. CASE Crash
  <2>1. /\ Checkpoint' = kept /\ HeldNow' = keptHeld
        /\ posted' = NoRequest /\ eofAt' = NoOffset /\ outcome' = "none"
    BY <1>1, <1>3, CrashRestores DEF FedInv
  <2>2. LeftEarly' \/ Paired(Checkpoint, HeldNow)'
    BY <2>1 DEF IInv, LeftEarly, LeftBehind, Paired
  <2>3. PostedIsDemand' /\ EofIsDemand' /\ NeverRefused'
    BY <2>1 DEF PostedIsDemand, EofIsDemand, NeverRefused
  <2>4. QED
    BY <1>1, <1>2, <2>2, <2>3 DEF IInv, InStep
<1>4. CASE ~Crash
  <2>1. ASSUME ~LeftEarly' PROVE InStep'
    <3>1. InStep
      BY <1>1, <1>4, <2>1, LeftStays DEF IInv
    <3>2. CASE Poll
      BY <1>1, <2>1, <3>1, <3>2, PollInStep
    <3>3. CASE Host
      BY <1>1, <3>1, <3>3, HostInStep
    <3>4. CASE Save \/ UNCHANGED vars
      <4>1. UNCHANGED <<sourceVars, grammarVars, fetched, outcome>>
        BY <3>4 DEF Save, vars
      <4>2. Paired(Checkpoint, HeldNow)' /\ Done' = Done /\ Demand' = Demand
        BY <3>1, <4>1 DEF InStep, Paired, Checkpoint, HeldNow, sourceVars, grammarVars,
           Done, Demand
      <4>3. QED
        BY <3>1, <4>1, <4>2 DEF InStep, sourceVars, PostedIsDemand, EofIsDemand, NeverRefused
    <3>5. QED
      BY <1>4, <3>2, <3>3, <3>4 DEF Next
  <2>2. QED
    BY <1>1, <1>2, <2>1 DEF IInv
<1>5. QED
  BY <1>3, <1>4

LEMMA InvHolds == Spec => []IInv
BY InitInv, NextInv, PTL DEF Spec

\* AsyncSource accepts no byte twice, restarts with saved held bytes included,
\* while each unit is read to its end.
THEOREM NothingFetchedTwice == Spec => []FetchedOnce
<1>1. IInv => FetchedOnce
  BY PairedNow DEF IInv, InStep, FetchedOnce
<1>2. QED
  BY <1>1, InvHolds, PTL

\* While each unit is read to its end, the held bytes are always the start of
\* what the grammar asks for next.
THEOREM HeldIsUsed == Spec => []HeldContinues
<1>1. IInv => HeldContinues
  <2> SUFFICES ASSUME IInv, ~LeftEarly, held # <<>> PROVE HeldServesDemand
    BY DEF HeldContinues, HeldServesDemand
  <2>1. Paired(Checkpoint, HeldNow) /\ Fed(Checkpoint, HeldNow)
    BY DEF IInv, FedInv, InStep
  <2>2. /\ unit \in DOMAIN Units
        /\ heldOffset = Units[unit].at + filled
        /\ Len(held) <= Units[unit].len - filled
        /\ held = BytesAt(heldOffset, Len(held))
    BY <2>1, PairedNow, FedNow
  <2>3. ~Done
    BY <2>2, UnitsType DEF Done
  <2>4. QED
    BY <2>2, <2>3 DEF HeldServesDemand, Demand
<1>2. QED
  BY <1>1, InvHolds, PTL

\* While each unit is read to its end, poll_read returns none of its misuse
\* errors.
THEOREM NoMisuse == Spec => [](LeftEarly \/ NeverRefused)
<1>1. IInv => LeftEarly \/ NeverRefused
  BY DEF IInv, InStep
<1>2. QED
  BY <1>1, InvHolds, PTL
=============================================================================
