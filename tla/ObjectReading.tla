--------------------------- MODULE ObjectReading ---------------------------
(***************************************************************************)
(* What an object section commits when it is read whole, and the property  *)
(* that holds the walk to it.  The framer knows where it is and looks at   *)
(* the bytes it is given; the reading lays the records out one behind the  *)
(* other, knows the whole of each, and cuts off what was not delivered.    *)
(***************************************************************************)
EXTENDS ObjectWalk

Script == file.script
Stream == file.stream

----------------------------------------------------------------------------
(* The section's bytes, as the items of the file walk deliver them. *)

\* The object section is described once; its pages hold its bytes.
Described == {i \in DOMAIN Script : Script[i].kind = "Section" /\ Script[i].objects}
First     == Min(Described)
Objects   == Script[First]

\* Where its bytes have got to with the first n items.
BytesOf(n) == BytesEnd(Script, n, Objects.id)

\* A page behind a gap, or before bytes that came already; or a gap itself.
Stray(i) ==
  /\ Script[i].kind \in {"Data", "Hole"} /\ Script[i].id = Objects.id
  /\ Script[i].kind = "Data" => Script[i].from # BytesOf(i - 1)

\* What the walk stops for at an item.
ItemFault(i) ==
  IF Script[i].kind = "Refused" THEN "Refused"
  ELSE IF i \in Described /\ i # First THEN "SectionEntry"
  ELSE IF i \in Described /\ Objects.size < Prologue THEN "ObjectPrologue"
  ELSE IF Stray(i) THEN "ObjectsOrder" ELSE "none"

Faulty    == {i \in DOMAIN Script : ItemFault(i) # "none"}
StopsAt   == Min(Faulty \cup {Len(Script)})
Delivered == BytesOf(StopsAt - 1)

----------------------------------------------------------------------------
(* The records, each known by how many are before it. *)

Spelt(n) == RecordAt(Stream, [records |-> n])
McOf(n)  == IF file.format = "R2010" THEN Spelt(n).mc ELSE 0
Whole(n) == 2 * Spelt(n).words + McOf(n) + Spelt(n).size + 2

\* They lie behind the prologue, one after the other.
Start[n \in Nat] == IF n = 0 THEN Prologue ELSE Start[n - 1] + Whole(n - 1)

McAt(n)   == Start[n] + 2 * Spelt(n).words
BodyAt(n) == McAt(n) + McOf(n)

\* What a record can be refused for, in the order it is looked at, and the
\* bytes that must be there to tell.
Check(upTo, error, bad) == [upTo |-> upTo, error |-> IF bad THEN error ELSE "none"]

Checks(n) ==
  LET r == Spelt(n)
      least == r.size + 2 + (IF file.format = "R2010" THEN 1 ELSE 0)
  IN << Check(Start[n] + 4, "RecordSize", r.words > 2),
        Check(McAt(n), "RecordSize", r.size = 0),
        Check(McAt(n), "RecordRange", McAt(n) + least > Objects.size),
        Check(McAt(n) + MaxMc, "RecordHeader", McOf(n) >= MaxMc /\ r.wide),
        Check(McAt(n) + MaxMc + 1, "RecordHeader", McOf(n) > MaxMc),
        Check(BodyAt(n), "RecordRange", Start[n + 1] > Objects.size),
        Check(BodyAt(n), "RecordHeader", file.format = "R2010" /\ ~r.mcFits),
        Check(Start[n + 1], "RecordCrc", ~r.crc),
        Check(Start[n + 1], "RecordHeader", r.handle = NoHandle) >>

Wrong(n)   == {c \in DOMAIN Checks(n) : Checks(n)[c].error # "none"}
Refusal(n) == Checks(n)[Min(Wrong(n))]

\* How many are whole in d bytes, and right, before the first that is not;
\* behind the last there are but zeros.
Stands(n, d) == Wrong(n) = {} /\ Start[n + 1] <= d
Count(d)     == Min({n \in 0..Len(Stream.records) : ~Stands(n, d)})

ObjectOf(n) ==
  [step |-> "Object", handle |-> Spelt(n).handle, offset |-> Start[n], size |-> Spelt(n).size,
   payload |-> McOf(n) + Spelt(n).size]

ObjectsOf(n) == [i \in 1..n |-> ObjectOf(i - 1)]

----------------------------------------------------------------------------
(* The whole of it. *)

Through == Faulty = {}

\* The record behind the n that stand is refused by what of it is in d bytes.
RefusedIn(n, d) == Wrong(n) # {} /\ Refusal(n).upTo <= d

\* The section ends with a record, and all of it is delivered.
Ends(n, d) == d = Objects.size /\ Start[n] = Objects.size
TheEnd(n)  == [step |-> "Objects", bytes |-> Objects.size, records |-> n]

Outcome(records, error) == [commits |-> records, failure |-> error]

ReadingOf(n, d) ==
  IF Fewest(d, Prologue) > Stream.prologue THEN Outcome(<<>>, "ObjectPrologue")
  ELSE IF RefusedIn(n, d) THEN Outcome(ObjectsOf(n), Refusal(n).error)
  ELSE IF ~Ends(n, d)
  THEN Outcome(ObjectsOf(n), IF Through THEN "ObjectsIncomplete" ELSE ItemFault(StopsAt))
  ELSE IF ~Through THEN Outcome(ObjectsOf(n) \o <<TheEnd(n)>>, ItemFault(StopsAt))
  ELSE Outcome(ObjectsOf(n) \o <<TheEnd(n), [step |-> "Finished"]>>, "none")

Reading ==
  IF Described = {}
  THEN Outcome(<<>>, IF Script[Len(Script)].kind = "Refused" THEN "Refused" ELSE "ObjectsMissing")
  ELSE LET d == Delivered IN ReadingOf(Count(d), d)

Stopped == failure # "none" \/ (Done /\ ~Buffered)

\* However the file is cut into reads, its pages into steps, and whatever
\* restarts came between, records come out in stream order, each with its
\* place, its handle and the length of its payload handed out since the one
\* before, up to the first that is refused; and the walk stops with that
\* error, or finishes only on a record boundary at the section's size.
Agrees == Stopped => LET r == Reading IN commits = r.commits /\ failure = r.failure
=============================================================================
