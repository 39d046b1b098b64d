-------------------------- MODULE SectionAssembly --------------------------
(***************************************************************************)
(* What a section walk promises whoever takes its bytes                    *)
(* (r2004_sections.rs, SectionStep): the spans it hands out abut, from the *)
(* section's first byte to its last, each once, and the walk finishes only *)
(* when they add up to the section's size.                                 *)
(***************************************************************************)
EXTENDS Integers

VARIABLES
  section,  \* the section's description
  step,     \* the last step
  covered   \* section bytes handed out

vars == <<section, step, covered>>

Quiet(kind)           == [kind |-> kind, offset |-> 0, len |-> 0]
Span(kind, from, len) == [kind |-> kind, offset |-> from, len |-> len]

Init ==
  /\ section.size \in Nat
  /\ step = Quiet("Framing")
  /\ covered = 0

\* The next len bytes, or that no page holds them.
Give(kind, len) ==
  /\ step' = Span(kind, covered, len)
  /\ covered' = covered + len
  /\ UNCHANGED section

\* A step without section bytes.
Pass(kind) ==
  /\ step' = Quiet(kind)
  /\ UNCHANGED <<section, covered>>

Finish ==
  /\ covered = section.size
  /\ Pass("Finished")

\* The taker goes back to what it had when the walk was saved.
GoBack ==
  /\ covered' \in 0..section.size
  /\ step' = Quiet("Framing")
  /\ UNCHANGED section

Next ==
  \/ \E kind \in {"Data", "Hole"}, len \in 1..(section.size - covered) :
       Give(kind, len)
  \/ \E kind \in {"Framing", "Page", "PageEnd", "Failed"} : Pass(kind)
  \/ Finish
  \/ GoBack

Spec == Init /\ [][Next]_vars
=============================================================================
