------------------------------- MODULE MCLz77 -------------------------------
(* Streams for TLC: a literal run, then opcodes, then an end.               *)
EXTENDS LzReading

\* Literal runs of four and eight bytes, a long one, and none.
Leads ==
  {<<>>, <<1, 101, 102, 103, 104>>, <<5, 101, 102, 103, 104, 105, 106, 107, 108>>,
   <<0, 1>> \o [i \in 1..5 |-> 100 + i], <<0, 0, 1>> \o [i \in 1..7 |-> 100 + i]}

\* Copies: short; of each two-byte kind; with an extended count; to the far
\* end of the window; followed by literals of its own, by a literal length,
\* and refused.
Copies ==
  {<<64, 0>>, <<243, 0, 201, 202, 203>>, <<72, 1>>,
   <<33, 4, 0>>, <<34, 1, 0, 204>>, <<32, 1, 8, 0>>,
   <<16, 1, 0, 0>>, <<18, 2, 0, 205, 206>>, <<27, 12, 0>>, <<27, 12, 0, 1, 207, 208, 209, 210>>,
   <<24, 0, 2, 4, 0>>, <<24, 1, 0, 0>>}

Endings == {<<17>>, <<17, 64>>, <<>>, <<7>>, <<64>>, <<1, 1>>}

Streams1 == {a \o b \o c : a \in Leads, b \in Copies \cup {<<>>}, c \in Endings}
Streams2 ==
  {<<1, 101, 102, 103, 104>> \o a \o b \o c \o <<17>> :
     a \in {<<64, 0>>, <<240, 0>>}, b \in Copies, c \in Copies}

ResumedStreams ==
  {<<1, 101, 102, 103, 104>> \o <<240, 1>> \o <<27, 12, 0, 1, 207, 208, 209, 210>> \o <<17>>,
   <<0, 0, 1>> \o [i \in 1..7 |-> 100 + i] \o <<24, 0, 2, 5, 0, 204>> \o <<27, 12, 0>> \o <<17>>,
   <<0, 1>> \o [i \in 1..5 |-> 100 + i] \o <<18, 2, 0, 205, 206>> \o <<72, 1>> \o <<17>>}

NoStreams == {}

MCStreams == Streams1 \cup Streams2 \cup ResumedStreams

ShortStreams == {<<0, 1, 101, 102, 103, 104, 105, 106, 17>>}
=============================================================================
