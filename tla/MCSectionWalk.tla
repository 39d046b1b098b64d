--------------------------- MODULE MCSectionWalk ---------------------------
(* Sections of pages of four bytes, and the pages a caller may offer them.  *)
EXTENDS SectionWalk

Described(size, count, packed) ==
  [size |-> size, count |-> count, maxPage |-> 4, packed |-> packed]

\* Two pages with the second cut by the section's end, a section its pages
\* do not reach, and one without pages.
MCSections ==
  {Described(7, 2, TRUE), Described(7, 2, FALSE), Described(0, 1, TRUE), Described(3, 0, FALSE)}

\* A sound page at an address: `stored` bytes that yield `yields`.
Page(address, start, stored, yields) ==
  [agrees |-> TRUE, size |-> 6, address |-> address, start |-> start, stored |-> stored,
   headerSum |-> TRUE, header |-> [start |-> start, stored |-> stored, size |-> 6],
   dataSum |-> TRUE, needs |-> IF stored = 4 THEN 3 ELSE stored, yields |-> yields]

First == Page(0, 0, 4, 4)
Other == Page(6, 4, 3, 3)
Past  == Page(6, 8, 4, 1)

MCJobs ==
  {First, Other, Past, Page(0, 0, 2, 4), Page(0, 4, 1, 0), [First EXCEPT !.needs = 6],
   [First EXCEPT !.agrees = FALSE], [First EXCEPT !.headerSum = FALSE],
   [First EXCEPT !.dataSum = FALSE], [Other EXCEPT !.header.start = 0],
   [Other EXCEPT !.address = 8], [Page(0, 0, 5, 5) EXCEPT !.size = 8, !.header.size = 8],
   [Other EXCEPT !.start = 5], [Past EXCEPT !.address = 12], [First EXCEPT !.size = 5]}

=============================================================================
