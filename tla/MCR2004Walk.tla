---------------------------- MODULE MCR2004Walk ----------------------------
(* Files of two sections and three data pages, sound and each unsound in    *)
(* one way.                                                                 *)
EXTENDS R2004Walk

Reference(number, start, data) == [number |-> number, start |-> start, data |-> data]

Described(id, refs) ==
  [id |-> id, count |-> Len(refs), maxPage |-> 4, encrypted |-> FALSE, refs |-> refs]

Page(number, id, start, data) ==
  [number |-> number, fits |-> TRUE, sum |-> TRUE, typed |-> TRUE, id |-> id, start |-> start,
   data |-> data, sound |-> TRUE, parts |-> 2]

Gap == [Page(1, 0, 0, 0) EXCEPT !.number = -1]
Map == [Page(8, 0, 0, 0) EXCEPT !.typed = FALSE]

Objects == Described(1, <<Reference(1, 0, 5), Reference(2, 4, 5)>>)
Handles == Described(2, <<Reference(3, 0, 3)>>)
Empty   == Described(3, <<>>)

A == Page(1, 1, 0, 5)
B == [Page(2, 1, 4, 5) EXCEPT !.parts = 1]
C == Page(3, 2, 0, 3)

File(sections, pages_) == [sections |-> sections, pages |-> pages_, system |-> {8, 9}]

SoundFiles == {File(<<Objects, Handles>>, <<Map, A, Gap, C, B>>), File(<<Handles, Objects>>, <<B, C, A>>),
          File(<<Empty, Handles>>, <<C>>), File(<<>>, <<Map>>)}

With(pages_) == File(<<Objects, Handles>>, pages_)

\* Pages missing, walked twice, one in another's place, in the wrong place,
\* of another size; of no section; unreadable in each way.
OtherPages ==
  {With(<<A, C>>), With(<<A, A, C>>), With(<<A, B, C, A>>), With(<<A, B>>),
   With(<<[A EXCEPT !.start = 4], [B EXCEPT !.start = 0], C>>),
   With(<<A, [B EXCEPT !.start = 8], C>>), With(<<A, [B EXCEPT !.data = 6], C>>),
   With(<<A, [B EXCEPT !.id = 2], C>>), With(<<A, [B EXCEPT !.id = 5], C>>),
   With(<<A, [B EXCEPT !.start = 5], C>>), With(<<A, [B EXCEPT !.sum = FALSE], C>>),
   With(<<A, [B EXCEPT !.typed = FALSE], C>>), With(<<[A EXCEPT !.fits = FALSE], B, C>>),
   With(<<A, [C EXCEPT !.sound = FALSE], B>>)}

OtherSections ==
  {File(<<Objects, [Handles EXCEPT !.encrypted = TRUE]>>, <<A, B, C>>),
   File(<<Objects, [Handles EXCEPT !.id = 1]>>, <<A, B, C>>),
   File(<<Objects, Handles, Empty>>, <<A, B, C>>)}

MCFiles == SoundFiles \cup OtherPages \cup OtherSections

\* A page the section map does not list.
ExtraFile == {With(<<A, B, A, C>>)}
=============================================================================
