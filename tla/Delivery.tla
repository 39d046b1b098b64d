----------------------------- MODULE Delivery -----------------------------
(***************************************************************************)
(* A grammar polled through an AsyncSource (byte_source.rs, poll_once and  *)
(* its siblings), the host that fetches for it, and a process that saves   *)
(* its grammar checkpoint with the held bytes, dies and resumes.           *)
(*                                                                         *)
(* The grammar is any of the streaming walkers seen from its demands: it   *)
(* reads Units in order, each to the last byte, except that the decode     *)
(* pass of an LZ77 page (a unit of Early) stops at the stream's            *)
(* terminator and leaves the rest unread.                                  *)
(*                                                                         *)
(* The host is the environment: it may answer late, twice, short, after it *)
(* gave up on a request or after the process that asked has died.          *)
(***************************************************************************)
EXTENDS AsyncSource

CONSTANTS
  Units, Early,  \* the grammar's reads, as in ByteFeed
  SourceLengths, \* bytes the source may really have
  Scratches,     \* scratch sizes the caller polls with
  MaxFails,      \* bound: transport failures
  MaxCrashes     \* bound: process deaths

Unit == [at : Nat, len : Nat \ {0}]

ASSUME UnitsAssumption  == Units \in Seq(Unit)
ASSUME EarlyAssumption  == Early \subseteq DOMAIN Units
ASSUME SourceAssumption == SourceLengths \subseteq Nat
ASSUME ScratchAssumption == Scratches \subseteq Nat \ {0}
ASSUME BoundsAssumption == MaxFails \in Nat /\ MaxCrashes \in Nat

VARIABLES
  sourceLength,  \* bytes the source has; no action changes it
  unit, filled,  \* the grammar: which unit, how much of it
  got,           \* what each unit was fed
  fetched,       \* how many bytes the adapter accepted while each unit was read
  outcome,       \* what the last poll returned
  fetches,       \* requests the host has taken and not dropped
  kept,          \* the saved grammar checkpoint
  keptHeld,      \* the held bytes saved with it, and the accounts then
  fails, crashes

grammarVars == <<unit, filled, got>>
vars == <<sourceLength, sourceVars, grammarVars, fetched, outcome, fetches, kept, keptHeld,
          fails, crashes>>

Outcomes == {"none", "pending", "fed", "complete", "truncated", "failed", "refused"}

Done   == unit > Len(Units)
Demand == [offset |-> Units[unit].at + filled, len |-> Units[unit].len - filled]

Checkpoint == [unit |-> unit, filled |-> filled, got |-> got]
HeldNow    == [offset |-> heldOffset, bytes |-> held, fetched |-> fetched]

Init ==
  /\ SourceInit
  /\ sourceLength \in SourceLengths
  /\ unit = 1
  /\ filled = 0
  /\ got = [u \in DOMAIN Units |-> <<>>]
  /\ fetched = [u \in DOMAIN Units |-> 0]
  /\ outcome = "none"
  /\ fetches = {}
  /\ kept = Checkpoint
  /\ keptHeld = HeldNow
  /\ fails = 0
  /\ crashes = 0

----------------------------------------------------------------------------
(* The process: poll_once. *)

processUnchanged == UNCHANGED <<sourceLength, fetched, fetches, kept, keptHeld, fails, crashes>>

\* The grammar's feed: the bytes fill the unit, which ends with its last.
GrammarFeed(bytes) ==
  /\ got' = [got EXCEPT ![unit] = @ \o bytes]
  /\ \/ /\ filled + Len(bytes) < Units[unit].len
        /\ filled' = filled + Len(bytes)
        /\ unit' = unit
     \/ /\ filled + Len(bytes) = Units[unit].len \/ unit \in Early
        /\ filled' = 0
        /\ unit' = unit + 1

PollComplete ==
  /\ Done
  /\ outcome' = "complete"
  /\ UNCHANGED <<sourceVars, grammarVars>>
  /\ processUnchanged

PollFed(scratch) ==
  /\ ~Done
  /\ outcome' = "fed"
  /\ \E n \in 1..Len(held) :
       /\ PollDelivers(Demand, scratch, n)
       /\ GrammarFeed(SubSeq(held, 1, n))
  /\ processUnchanged

\* end_of_input refuses the end while a read is outstanding; the grammar
\* keeps no trace of it.
PollTruncated ==
  /\ ~Done
  /\ PollEnds(Demand)
  /\ outcome' = "truncated"
  /\ UNCHANGED grammarVars
  /\ processUnchanged

PollPending(scratch) ==
  /\ ~Done
  /\ PollWaits(Demand) \/ PollPosts(Demand, scratch)
  /\ outcome' = "pending"
  /\ UNCHANGED grammarVars
  /\ processUnchanged

PollFailed ==
  /\ ~Done
  /\ PollFails
  /\ outcome' = "failed"
  /\ UNCHANGED grammarVars
  /\ processUnchanged

PollRefused ==
  /\ ~Done
  /\ PollRefuses(Demand)
  /\ outcome' = "refused"
  /\ UNCHANGED grammarVars
  /\ processUnchanged

Poll ==
  \/ PollComplete
  \/ PollTruncated
  \/ PollFailed
  \/ PollRefused
  \/ \E scratch \in Scratches : PollFed(scratch) \/ PollPending(scratch)

\* The caller saves the grammar checkpoint and the held bytes together.  The
\* library lets it save at any time; stream_walk.rs does not save while a read
\* is in flight, and a save then would only leave that request out.
Save ==
  /\ kept' = Checkpoint
  /\ keptHeld' = HeldNow
  /\ UNCHANGED <<sourceLength, sourceVars, grammarVars, fetched, outcome, fetches, fails,
                 crashes>>

\* The process dies and a new one resumes; what the host was fetching may
\* still arrive.
Crash ==
  /\ crashes < MaxCrashes
  /\ crashes' = crashes + 1
  /\ WithHeld(keptHeld.offset, keptHeld.bytes)
  /\ unit' = kept.unit
  /\ filled' = kept.filled
  /\ got' = kept.got
  /\ fetched' = keptHeld.fetched
  /\ outcome' = "none"
  /\ fetches' \in SUBSET fetches
  /\ UNCHANGED <<sourceLength, kept, keptHeld, fails>>

----------------------------------------------------------------------------
(* The host. *)

hostUnchanged == UNCHANGED <<sourceLength, grammarVars, outcome, kept, keptHeld, crashes>>

HostTake ==
  /\ TakeRequest
  /\ fetches' = fetches \cup {posted}
  /\ UNCHANGED <<fetched, fails>>
  /\ hostUnchanged

\* An answer with n of the bytes asked for.  The host may send it again.
HostAnswer(r, n, again) ==
  /\ n \in 1..Least(r.len, sourceLength - r.offset)
  /\ \/ /\ Complete(r.offset, BytesAt(r.offset, n))
        /\ fetched' = [fetched EXCEPT ![unit] = @ + n]
     \/ /\ ~Accepts(r.offset, BytesAt(r.offset, n))
        /\ UNCHANGED <<sourceVars, fetched>>
  /\ fetches' = IF again THEN fetches ELSE fetches \ {r}
  /\ UNCHANGED fails
  /\ hostUnchanged

HostEof(r) ==
  /\ r.offset >= sourceLength
  /\ \/ CompleteEof(r.offset)
     \/ ~Answers(r.offset) /\ UNCHANGED sourceVars
  /\ fetches' = fetches \ {r}
  /\ UNCHANGED <<fetched, fails>>
  /\ hostUnchanged

\* A timeout or a broken connection, for the posted request or for one
\* already settled.  The answer it gave up on may still come.
HostFail ==
  /\ fails < MaxFails
  /\ fails' = fails + 1
  /\ Fail
  /\ UNCHANGED <<fetched, fetches>>
  /\ hostUnchanged

Host ==
  \/ HostTake
  \/ HostFail
  \/ \E r \in fetches :
       \/ HostEof(r)
       \/ \E n \in 1..r.len, again \in BOOLEAN : HostAnswer(r, n, again)

Next == Poll \/ Save \/ Crash \/ Host

Spec == Init /\ [][Next]_vars

\* The caller keeps polling and the host answers what it took: the adapter
\* has no timer of its own, so a request nobody answers stays in flight.
HostSettles ==
  \E r \in fetches :
    /\ Answers(r.offset)
    /\ \/ HostEof(r)
       \/ \E n \in 1..r.len : HostAnswer(r, n, FALSE) /\ Accepts(r.offset, BytesAt(r.offset, n))

Fairness == WF_vars(Poll) /\ WF_vars(HostTake) /\ WF_vars(HostSettles)

FairSpec == Spec /\ Fairness

----------------------------------------------------------------------------
(* Properties. *)

CheckpointType ==
  [unit : Nat \ {0}, filled : Nat, got : [DOMAIN Units -> Seq(Nat)]]

HeldType == [offset : Nat, bytes : Seq(Nat), fetched : [DOMAIN Units -> Nat]]

\* Types of the adapter's, the grammar's, the host's and the saved state.
TypeOK ==
  /\ SourceTypeOK
  /\ sourceLength \in SourceLengths
  /\ Checkpoint \in CheckpointType
  /\ kept \in CheckpointType
  /\ keptHeld \in HeldType
  /\ fetched \in [DOMAIN Units -> Nat]
  /\ outcome \in Outcomes
  /\ fetches \subseteq Request
  /\ fails \in 0..MaxFails
  /\ crashes \in 0..MaxCrashes

\* Whatever the host sends and wherever the process dies, each unit was fed
\* its own bytes, in order, each once: what poll_once passes to feed.
FedInOrder ==
  \A u \in DOMAIN Units :
    got[u] = BytesAt(Units[u].at, Len(got[u])) /\ Len(got[u]) <= Units[u].len

\* A unit behind the grammar was not read to its last byte.
LeftBehind(g) == \E u \in DOMAIN Units : u < g.unit /\ Len(g.got[u]) < Units[u].len

LeftEarly == LeftBehind(Checkpoint)

\* "so no source byte is fetched twice" (byte_source.rs, AsyncSource): while
\* each unit is read to its end, every byte the adapter accepted has been fed
\* or is still held, so none was accepted twice, a crash with its held bytes
\* saved included.
FetchedOnce ==
  ~LeftEarly =>
    \A u \in DOMAIN Units :
      fetched[u] = Len(got[u]) + (IF u = unit THEN Len(held) ELSE 0)

\* Bytes the adapter holds are the start of the demand the grammar is at:
\* "bytes the caller's next scratch cannot take are held ... for the polls
\* that follow".
HeldServesDemand ==
  held # <<>> =>
    /\ ~Done
    /\ heldOffset = Demand.offset
    /\ Len(held) <= Demand.len
    /\ held = BytesAt(heldOffset, Len(held))

\* They are as long as the grammar leaves no unit before its last byte.
HeldContinues == ~LeftEarly => HeldServesDemand

\* `complete` overwrites `held`, so nothing may be posted while bytes are
\* held, and a posted request is for the demand the grammar is still at.
PostedIsDemand ==
  posted # NoRequest =>
    /\ held = <<>>
    /\ ~Done
    /\ posted.offset = Demand.offset
    /\ posted.len <= Demand.len

\* A grammar that follows its own demands never sees one of poll_read's
\* three misuse errors.
NeverRefused == outcome # "refused"

\* The end of the source is reported where the source ends and nowhere else:
\* a stale answer for another offset cannot cut a walk short.
TruncatedAtEnd ==
  outcome = "truncated" => ~Done /\ Demand.offset >= sourceLength

\* A walk whose host keeps answering ends, complete or truncated, and stays
\* there, through failures, stale answers and restarts.  Only one that has
\* left a unit early may instead be refused for good.
ComesToRest ==
  <>[](outcome \in {"complete", "truncated"} \/ (LeftEarly /\ outcome = "refused"))

----------------------------------------------------------------------------
(* The inductive invariant.  FedInv needs nothing of the grammar: what was *)
(* fed and what is held are source bytes from where they claim to be.  The *)
(* rest holds while no unit was left before its end, since that strands    *)
(* the bytes held for it: grammar and held bytes are paired, and what is   *)
(* in flight or known to end is the demand the grammar is at.  A restart   *)
(* may go back to before a unit was left, so the saved state is paired on  *)
(* its own account.                                                        *)

InUnit(g) ==
  /\ g.unit \in 1..(Len(Units) + 1)
  /\ g.filled < (IF g.unit \in DOMAIN Units THEN Units[g.unit].len ELSE 1)

TypeInv == TypeOK /\ InUnit(Checkpoint) /\ InUnit(kept)

Fed(g, h) ==
  /\ \A u \in DOMAIN Units :
       /\ g.got[u] = BytesAt(Units[u].at, Len(g.got[u]))
       /\ Len(g.got[u]) <= Units[u].len
       /\ u >= g.unit => Len(g.got[u]) = (IF u = g.unit THEN g.filled ELSE 0)
  /\ h.bytes = BytesAt(h.offset, Len(h.bytes))

EofPastEnd == eofAt # NoOffset => eofAt >= sourceLength

FedInv ==
  /\ TypeInv
  /\ Fed(Checkpoint, HeldNow)
  /\ Fed(kept, keptHeld)
  /\ EofPastEnd
  /\ TruncatedAtEnd

Paired(g, h) ==
  /\ \A u \in DOMAIN Units :
       /\ u < g.unit => Len(g.got[u]) = Units[u].len
       /\ h.fetched[u] = Len(g.got[u]) + (IF u = g.unit THEN Len(h.bytes) ELSE 0)
  /\ h.bytes # <<>> =>
       /\ g.unit \in DOMAIN Units
       /\ h.offset = Units[g.unit].at + g.filled
       /\ Len(h.bytes) <= Units[g.unit].len - g.filled

EofIsDemand ==
  eofAt # NoOffset =>
    /\ ~Done
    /\ eofAt = Demand.offset
    /\ held = <<>>
    /\ posted = NoRequest

InStep ==
  /\ Paired(Checkpoint, HeldNow)
  /\ PostedIsDemand
  /\ EofIsDemand
  /\ NeverRefused

IInv ==
  /\ FedInv
  /\ LeftEarly \/ InStep
  /\ LeftBehind(kept) \/ Paired(kept, keptHeld)

----------------------------------------------------------------------------
Feed == INSTANCE ByteFeed

\* Delivery implements ByteFeed.
FeedSpec == Feed!Spec
=============================================================================
