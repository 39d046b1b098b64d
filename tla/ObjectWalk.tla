----------------------------- MODULE ObjectWalk -----------------------------
(***************************************************************************)
(* streaming/r2004_objects.rs and r2007_objects.rs, R2004ObjectWalker and  *)
(* R2007ObjectWalker: the walk over a whole file of either family with its *)
(* object section singled out, whose bytes are framed into records         *)
(* (Framer), and the checkpoints of both.                                  *)
(*                                                                         *)
(* The walk over the file is what it hands out, a script of items:         *)
(*   Section      a section's description: objects, is it the object       *)
(*                section, id (R2007: its index), size                     *)
(*   Data         section bytes from `from`, len of them, in steps of at   *)
(*                most StageBytes as the source is read                    *)
(*   Hole         (R2007) a stretch of a section no page covers            *)
(*   SectionEnd   (R2007)                                                  *)
(*   Other        any other step                                           *)
(*   Finished, or Refused when the walk itself fails                       *)
(* In an R2004 file descriptions come first, and the data pages in the     *)
(* order of the page map (R2004Maps, R2004Walk, SectionWalk); in an R2007  *)
(* file a section's pages follow its description, in the order of its      *)
(* bytes (R2007Walk).  A file's script comes with the stream its object    *)
(* section holds.                                                          *)
(***************************************************************************)
EXTENDS Framer, FiniteSetsExt

CONSTANTS
  Files,
  StageBytes,   \* STAGE, the most one Data step hands out
  Pieces,       \* how many bytes such a step has, at most
  Interrupted, MaxRestarts  \* bound: files whose walk is restarted, how often

ASSUME BoundsAssumption ==
  /\ StageBytes \in Nat \ {0}
  /\ Pieces \subseteq Nat \ {0}
  /\ MaxRestarts \in Nat

ItemType ==
  [kind : {"Section"}, objects : BOOLEAN, id : Nat, size : Nat]
    \cup [kind : {"Data", "Hole"}, id : Nat, from : Nat, len : Nat \ {0}]
    \cup [kind : {"SectionEnd"}, id : Nat]
    \cup [kind : {"Other", "Finished", "Refused"}]

\* Items of a kind among the first n of a script.
Given(script, n, kind) == {i \in 1..n : script[i].kind = kind}

\* Where section id's bytes have got to with the first n items.
BytesEnd(script, n, id) ==
  LET pages == {i \in Given(script, n, "Data") : script[i].id = id}
      last  == script[Max(pages)]
  IN IF pages = {} THEN 0 ELSE last.from + last.len

\* Inside a section: more were described than have ended.
Inside(script, n) ==
  Cardinality(Given(script, n, "Section")) > Cardinality(Given(script, n, "SectionEnd"))

\* The last section described.
LastOf(script, n) == script[Max(Given(script, n, "Section"))]

\* A walk ends once, and gives no byte behind a section's size.
ScriptOk(script) ==
  /\ script \in Seq(ItemType)
  /\ script # <<>>
  /\ \A n \in DOMAIN script : script[n].kind \in {"Finished", "Refused"} <=> n = Len(script)
  /\ \A i, j \in DOMAIN script :
       script[i].kind = "Section" /\ script[j].kind = "Data" /\ script[i].id = script[j].id =>
         script[j].from + script[j].len <= script[i].size

\* R2004: all sections are described before a byte of one comes.
R2004ScriptOk(script) ==
  \A i, j \in DOMAIN script :
    script[i].kind = "Section" /\ script[j].kind \in {"Data", "Hole"} => i < j

\* R2007: sections are numbered; bytes and holes come inside the section they
\* belong to, bytes in order but for holes; all have ended before the walk does.
R2007ScriptOk(script) ==
  \A n \in 1..Len(script) :
    LET item == script[n]
    IN CASE item.kind = "Section"  -> item.id = Cardinality(Given(script, n - 1, "Section"))
         [] item.kind \in {"Data", "Hole"} ->
              /\ Inside(script, n - 1) /\ LastOf(script, n - 1).id = item.id
              /\ \/ item.kind = "Hole" \/ item.from = BytesEnd(script, n - 1, item.id)
                 \/ \E i \in Given(script, n - 1, "Hole") : script[i].id = item.id
         [] item.kind = "Finished" -> ~Inside(script, n - 1)
         [] OTHER                  -> TRUE

ASSUME FilesAssumption ==
  \A f \in Files :
    /\ f.family \in {"R2004", "R2007"} /\ f.format \in Formats
    /\ f.stream \in StreamType
    /\ ScriptOk(f.script)
    /\ IF f.family = "R2004" THEN R2004ScriptOk(f.script) ELSE R2007ScriptOk(f.script)

VARIABLES
  file,
  inner,     \* the file walk: items behind it, and bytes of the next one
  found,     \* has the object section been described
  id,        \* section_id
  framer,
  pending,   \* section bytes staged for the framer and not yet framed
  failure,
  handed,    \* payload bytes the caller was given since the last record
  commits,   \* records and ends committed, in order
  kept,      \* the caller's checkpoint, and what it had then
  restarts

walkVars == <<inner, found, id, framer, pending, failure, handed, commits>>
vars     == <<file, walkVars, kept, restarts>>

Now ==
  [inner |-> inner, found |-> found, id |-> id, framer |-> framer, pending |-> pending,
   handed |-> handed, commits |-> commits]

Init ==
  /\ file \in Files
  /\ inner = [item |-> 0, given |-> 0]
  /\ found = FALSE /\ id = 0
  /\ framer = Idle
  /\ pending = 0
  /\ failure = "none"
  /\ handed = 0
  /\ commits = <<>>
  /\ kept = Now
  /\ restarts = 0

Item == file.script[inner.item + 1]

Passed == [item |-> inner.item + 1, given |-> 0]

\* Where the page at hand has got to in its section (R2004SectionWalker's
\* cursor).
Cursor == Item.from + inner.given

Fail(error) == failure' = error /\ UNCHANGED <<found, id, framer, pending, handed, commits>>

----------------------------------------------------------------------------
(* feed and pump while nothing is staged: `on_walk` of the file walk's step. *)

Done     == inner.item = Len(file.script)
Buffered == pending > 0 \/ framer.stage = "Done"

\* begin's refusal.
TooShort(size) == size < Prologue

OnSection ==
  /\ Item.kind = "Section" /\ inner' = Passed
  /\ \/ /\ Item.objects /\ (found \/ TooShort(Item.size))
        /\ Fail(IF found THEN "SectionEntry" ELSE "ObjectPrologue")
     \/ /\ Item.objects /\ ~found /\ ~TooShort(Item.size)
        /\ found' = TRUE /\ id' = Item.id
        /\ framer' = Begin(file.format, Item.size)
        /\ UNCHANGED <<pending, failure, handed, commits>>
     \/ ~Item.objects /\ UNCHANGED <<found, id, framer, pending, failure, handed, commits>>

\* The framer takes the section's bytes in order, without holes.
InOrder == Cursor = framer.at

\* A page gives some of its bytes; it is at its end only at the next step.
OnData ==
  /\ Item.kind = "Data" /\ inner.given < Item.len
  /\ \E piece \in Pieces :
       LET n == Fewest(piece, Fewest(Item.len - inner.given, StageBytes))
       IN /\ inner' = [inner EXCEPT !.given = @ + n]
          /\ \/ /\ found /\ Item.id = id /\ ~InOrder
                /\ Fail("ObjectsOrder")
             \/ /\ found /\ Item.id = id /\ InOrder
                /\ pending' = n
                /\ UNCHANGED <<found, id, framer, failure, handed, commits>>
             \/ /\ ~(found /\ Item.id = id)
                /\ UNCHANGED <<found, id, framer, pending, failure, handed, commits>>

\* A gap in the object section is not framed as zeros.
OnHole ==
  /\ Item.kind = "Hole" /\ inner' = Passed
  /\ \/ found /\ Item.id = id /\ Fail("ObjectsOrder")
     \/ ~(found /\ Item.id = id) /\ UNCHANGED <<found, id, framer, pending, failure, handed, commits>>

OnOther ==
  /\ Item.kind \in {"Other", "SectionEnd"} \/ (Item.kind = "Data" /\ inner.given = Item.len)
  /\ inner' = Passed
  /\ UNCHANGED <<found, id, framer, pending, failure, handed, commits>>

OnRefused ==
  /\ Item.kind = "Refused" /\ inner' = inner
  /\ Fail("Refused")

FinishFault ==
  IF ~found THEN "ObjectsMissing"
  ELSE IF framer.stage # "Ended" THEN "ObjectsIncomplete" ELSE "none"

OnFinished ==
  /\ Item.kind = "Finished" /\ inner' = Passed
  /\ \/ FinishFault # "none" /\ Fail(FinishFault)
     \/ /\ FinishFault = "none"
        /\ commits' = Append(commits, [step |-> "Finished"])
        /\ UNCHANGED <<found, id, framer, pending, failure, handed>>

OnWalk ==
  /\ ~Buffered /\ ~Done
  /\ OnSection \/ OnData \/ OnHole \/ OnOther \/ OnRefused \/ OnFinished

----------------------------------------------------------------------------
(* `frame`: pump while something is staged. *)

FrameDone ==
  /\ framer.stage = "Done"
  /\ framer' = [framer EXCEPT !.stage = "Ended"]
  /\ commits' = Append(commits, [step |-> "Objects", records |-> framer.records,
                                 bytes |-> framer.total])
  /\ UNCHANGED <<inner, found, id, pending, failure, handed>>

\* A record is committed with the payload handed out since the last one.
ObjectStep(f) ==
  [step |-> "Object", handle |-> RecordAt(file.stream, f).handle, offset |-> f.start,
   size |-> f.size, payload |-> handed]

FramePending ==
  /\ framer.stage # "Done" /\ pending > 0
  /\ LET r == FrameFeed(file.stream, framer, pending)
     IN IF r.error # "none" THEN Fail(r.error) /\ UNCHANGED inner
        ELSE /\ framer' = r.frame
             /\ pending' = pending - r.taken
             /\ handed' = CASE r.event = "Payload" -> handed + r.taken
                            [] r.event = "Object"  -> 0
                            [] OTHER               -> handed
             /\ commits' = IF r.event = "Object" THEN Append(commits, ObjectStep(framer))
                           ELSE commits
             /\ UNCHANGED <<inner, found, id, failure>>

Walk ==
  /\ failure = "none"
  /\ OnWalk \/ FrameDone \/ FramePending
  /\ UNCHANGED <<file, kept, restarts>>

----------------------------------------------------------------------------
(* Checkpoint and restore. *)

\* Items of a kind the file walk has handed out.
Behind(k, kind) == Given(file.script, k.inner.item, kind)

\* R2004: the file walk has a slot for each section described so far.
Slots(k) == {file.script[i] : i \in Behind(k, "Section")}

\* What is staged is the last of what the page at hand has given.
Tied(k) ==
  k.pending > 0 =>
    LET item == file.script[k.inner.item + 1]
    IN item.kind = "Data" /\ item.id = k.id
       /\ k.framer.at + k.pending = item.from + k.inner.given

R2004Ties(k) ==
  k.found =>
    /\ \E slot \in Slots(k) : slot.id = k.id /\ slot.size = k.framer.total
    /\ k.framer.at + k.pending <= k.framer.total
    /\ Tied(k)

\* R2007: the file walk is inside a section, the last one described.
Named(k)   == Inside(file.script, k.inner.item)
Current(k) == LastOf(file.script, k.inner.item)

\* next_offset: where the page at hand, or the last one, has got to.
NextOffset(k) ==
  LET item == file.script[k.inner.item + 1]
  IN IF item.kind = "Data" /\ item.id = k.id THEN item.from + k.inner.given
     ELSE BytesEnd(file.script, k.inner.item, k.id)

R2007Ties(k) ==
  CASE ~k.found -> ~(Named(k) /\ Current(k).objects)
    [] k.found /\ Named(k) /\ Current(k).id = k.id ->
         Current(k).size = k.framer.total /\ k.framer.at + k.pending = NextOffset(k)
    [] OTHER ->
         /\ Named(k) => Current(k).id > k.id
         /\ Cardinality(Behind(k, "Section")) > k.id
         /\ k.pending = 0 /\ k.framer.stage # "Done"

\* `consistent`
Consistent(k) ==
  /\ IF ~k.found THEN k.framer = Idle /\ k.id = 0 /\ k.pending = 0
     ELSE /\ FrameConsistent(file.stream, k.framer)
          /\ k.framer.format = file.format
          /\ k.pending > 0 => k.framer.stage \notin {"Done", "Ended"}
  /\ IF file.family = "R2004" THEN R2004Ties(k) ELSE R2007Ties(k)

\* A failed walk has no checkpoint.
Save ==
  /\ file \in Interrupted /\ restarts < MaxRestarts
  /\ failure = "none"
  /\ kept' = Now
  /\ UNCHANGED <<file, walkVars, restarts>>

\* Faulty variants, named Bad..., are the slips the properties must notice;
\* nothing but the mutation table of PROJECT.json uses them.

BadKeptPending == 0

KeptPending == kept.pending

\* A new process restores the checkpoint.
Restart ==
  /\ file \in Interrupted /\ restarts < MaxRestarts
  /\ restarts' = restarts + 1
  /\ Consistent(kept)
  /\ inner' = kept.inner /\ found' = kept.found /\ id' = kept.id
  /\ framer' = kept.framer
  /\ pending' = KeptPending
  /\ failure' = "none"
  /\ handed' = kept.handed /\ commits' = kept.commits
  /\ UNCHANGED <<file, kept>>

Next == Walk \/ Save \/ Restart

Spec == Init /\ [][Next]_vars

----------------------------------------------------------------------------
(* Properties. *)

Errors ==
  {"none", "SectionEntry", "ObjectPrologue", "ObjectsOrder", "Refused", "ObjectsMissing",
   "ObjectsIncomplete", "RecordSize", "RecordRange", "RecordHeader", "RecordCrc"}

PlaceType == [item : 0..Len(file.script), given : Nat]

\* Types of the file walk's place, of the walk, the framer and the checkpoint:
\* no more is staged than the stage holds, and no record takes more bytes than
\* it has, so that no length left to take goes below zero.
TypeOK ==
  /\ file \in Files
  /\ inner \in PlaceType /\ kept.inner \in PlaceType
  /\ framer \in FrameType /\ kept.framer \in FrameType
  /\ framer.stage \in {"Body", "Crc"} => framer.done <= Payload(framer)
  /\ found \in BOOLEAN /\ kept.found \in BOOLEAN
  /\ id \in Nat /\ kept.id \in Nat
  /\ pending \in 0..StageBytes /\ kept.pending \in 0..StageBytes
  /\ failure \in Errors
  /\ handed \in Nat /\ kept.handed \in Nat
  /\ restarts \in 0..MaxRestarts

\* A record whose size or MC the section's end, or the MC's own limit, has cut
\* short: no byte that could come makes it whole.
Doomed ==
  \/ framer.stage = "Ms" /\ framer.at = framer.total
  \/ InMc(framer) /\ framer.mcLen = MaxMc

\* "Restore-time check that a decoded state is one the walk can reach": framer,
\* staged bytes and file walk are refused together in no state of a walk that
\* has not failed, but those of a record that can only be refused.
Restorable == failure = "none" /\ ~Doomed => Consistent(Now)
=============================================================================
