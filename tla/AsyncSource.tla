---------------------------- MODULE AsyncSource ----------------------------
(***************************************************************************)
(* byte_source.rs, AsyncSource: the adapter between a polled grammar and a *)
(* transport that answers later.  It holds at most one posted request and  *)
(* at most one chunk of fetched bytes.  A source byte is identified by its *)
(* offset, so a sequence of bytes is a sequence of offsets and a byte that *)
(* is delivered in the wrong place shows.                                  *)
(*                                                                         *)
(* Each public method is an action over the adapter's fields alone; a      *)
(* module that composes the adapter with a grammar and a host conjoins     *)
(* them with the steps of those two.                                       *)
(***************************************************************************)
EXTENDS Integers, Sequences

CONSTANT ChunkBytes  \* streaming/mod.rs CHUNK_BYTES: the size of `held`

ASSUME ChunkBytesAssumption == ChunkBytes \in Nat \ {0}

VARIABLES
  posted,      \* the posted request, or NoRequest
  taken,       \* has the host collected it
  held,        \* bytes fetched and not yet delivered
  heldOffset,  \* source offset of the first of them
  eofAt,       \* offset the host found the source to end at, or NoOffset
  failure      \* a transport error waits for the next poll

sourceVars == <<posted, taken, held, heldOffset, eofAt, failure>>

Request   == [offset : Nat, len : Nat \ {0}]
NoRequest == [offset |-> 0, len |-> 0]
NoOffset  == -1

Least(a, b) == IF a < b THEN a ELSE b

\* Faulty variants, named Bad..., are the slips the properties must notice;
\* nothing but the mutation table of PROJECT.json uses them.

\* What one poll may move: the demand, the caller's scratch, one chunk.
Maximum(demand, scratch) == Least(Least(demand.len, scratch), ChunkBytes)

\* The n source bytes from offset on.
BytesAt(offset, n) == [i \in 1..n |-> offset + i - 1]

SourceInit ==
  /\ posted = NoRequest
  /\ taken = FALSE
  /\ held = <<>>
  /\ heldOffset = 0
  /\ eofAt = NoOffset
  /\ failure = FALSE

BadWithHeldEmpty(offset, bytes) ==
  /\ Len(bytes) <= ChunkBytes
  /\ posted' = NoRequest /\ taken' = FALSE /\ eofAt' = NoOffset /\ failure' = FALSE
  /\ held' = <<>> /\ heldOffset' = offset

\* AsyncSource::with_held: the adapter of a resumed process.
WithHeld(offset, bytes) ==
  /\ Len(bytes) <= ChunkBytes
  /\ posted' = NoRequest
  /\ taken' = FALSE
  /\ held' = bytes
  /\ heldOffset' = offset
  /\ eofAt' = NoOffset
  /\ failure' = FALSE

----------------------------------------------------------------------------
(* The host's side. *)

\* take_request hands out the posted request once.
TakeRequest ==
  /\ posted # NoRequest
  /\ ~taken
  /\ taken' = TRUE
  /\ UNCHANGED <<posted, held, heldOffset, eofAt, failure>>

\* `answer`: an answer counts only for a request that was taken.
Answers(offset) == posted # NoRequest /\ taken /\ posted.offset = offset

Settled == posted' = NoRequest /\ taken' = FALSE

BadAcceptsAnyLength(offset, bytes) == Answers(offset) /\ bytes # <<>>

Accepts(offset, bytes) == Answers(offset) /\ Len(bytes) \in 1..posted.len

Complete(offset, bytes) ==
  /\ Accepts(offset, bytes)
  /\ held' = bytes
  /\ heldOffset' = offset
  /\ Settled
  /\ UNCHANGED <<eofAt, failure>>

BadCompleteEofAnyOffset(offset) ==
  /\ posted # NoRequest /\ taken /\ offset \in Nat
  /\ eofAt' = posted.offset
  /\ Settled
  /\ UNCHANGED <<held, heldOffset, failure>>

CompleteEof(offset) ==
  /\ Answers(offset)
  /\ eofAt' = offset
  /\ Settled
  /\ UNCHANGED <<held, heldOffset, failure>>

\* `fail` asks nothing of the adapter's state.
Fail ==
  /\ failure' = TRUE
  /\ Settled
  /\ UNCHANGED <<held, heldOffset, eofAt>>

----------------------------------------------------------------------------
(* poll_read, one action per outcome, in the order the code tries them. *)

BadPollFailsForever ==
  /\ failure
  /\ UNCHANGED sourceVars

PollFails ==
  /\ failure
  /\ failure' = FALSE
  /\ UNCHANGED <<posted, taken, held, heldOffset, eofAt>>

BadPollDeliversNoShift(demand, scratch, n) ==
  /\ ~failure /\ held # <<>> /\ demand.offset = heldOffset
  /\ n = Least(Maximum(demand, scratch), Len(held))
  /\ held' = SubSeq(held, 1, Len(held) - n)
  /\ heldOffset' = heldOffset + n
  /\ UNCHANGED <<posted, taken, eofAt, failure>>

PollDelivers(demand, scratch, n) ==
  /\ ~failure
  /\ held # <<>>
  /\ demand.offset = heldOffset
  /\ n = Least(Maximum(demand, scratch), Len(held))
  /\ held' = SubSeq(held, n + 1, Len(held))
  /\ heldOffset' = heldOffset + n
  /\ UNCHANGED <<posted, taken, eofAt, failure>>

PollEnds(demand) ==
  /\ ~failure
  /\ held = <<>>
  /\ eofAt = demand.offset
  /\ UNCHANGED sourceVars

PollWaits(demand) ==
  /\ ~failure
  /\ held = <<>>
  /\ eofAt = NoOffset
  /\ posted # NoRequest
  /\ posted.offset = demand.offset
  /\ UNCHANGED sourceVars

PollPosts(demand, scratch) ==
  /\ ~failure
  /\ held = <<>>
  /\ eofAt = NoOffset
  /\ posted = NoRequest
  /\ posted' = [offset |-> demand.offset, len |-> Maximum(demand, scratch)]
  /\ taken' = FALSE
  /\ UNCHANGED <<held, heldOffset, eofAt, failure>>

\* The three InvalidInput errors: the demand does not continue the held
\* bytes, comes after the end of the source, or changed under a read.
PollRefuses(demand) ==
  /\ ~failure
  /\ \/ held # <<>> /\ demand.offset # heldOffset
     \/ held = <<>> /\ eofAt \notin {NoOffset, demand.offset}
     \/ /\ held = <<>>
        /\ eofAt = NoOffset
        /\ posted # NoRequest
        /\ posted.offset # demand.offset
  /\ UNCHANGED sourceVars

SourceTypeOK ==
  /\ posted \in Request \cup {NoRequest}
  /\ taken \in BOOLEAN
  /\ held \in Seq(Nat)
  /\ heldOffset \in Nat
  /\ eofAt \in Nat \cup {NoOffset}
  /\ failure \in BOOLEAN
=============================================================================
