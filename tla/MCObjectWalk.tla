---------------------------- MODULE MCObjectWalk ----------------------------
(* Object sections of two or three records, in pages of six bytes, and what *)
(* may be wrong with them.                                                  *)
EXTENDS ObjectReading

Record(handle, words, size, mc) ==
  [words |-> words, size |-> size, mc |-> mc, wide |-> FALSE, mcFits |-> TRUE, crc |-> TRUE,
   handle |-> handle]

Description(objects, n, size) ==
  [kind |-> "Section", objects |-> objects, id |-> n, size |-> size]
Data(n, from, len) == [kind |-> "Data", id |-> n, from |-> from, len |-> len]
Other    == [kind |-> "Other"]
Finished == [kind |-> "Finished"]
Refused  == [kind |-> "Refused"]

\* The pages of a section, cut at six bytes.
Paged(n, size) ==
  [i \in 1..((size + 5) \div 6) |->
     Data(n, 6 * (i - 1), Fewest(6, size - 6 * (i - 1)))]

File(format, records, script) ==
  [family |-> "R2004", format |-> format, script |-> script,
   stream |-> [prologue |-> Prologue, records |-> records]]

\* A file with another section before and after the object section.
Walked(size, end) ==
  <<Description(FALSE, 1, 3), Description(TRUE, 2, size), Data(1, 0, 3)>>
  \o Paged(2, size) \o <<Other, end>>

R2000(records, size) == File("R2000", records, Walked(size, Finished))
R2010(records, size) == File("R2010", records, Walked(size, Finished))

Plain  == Record(1, 1, 1, 1)
Long   == Record(2, 2, 3, 2)
Sound  == {R2000(<<Plain, Long>>, 18), R2010(<<Plain, Long>>, 21), R2000(<<>>, 4)}

\* One record refused, in each way there is, behind a sound one.
Flawed ==
  {[Long EXCEPT !.words = 3], [Long EXCEPT !.size = 0], [Long EXCEPT !.size = 9],
   [Long EXCEPT !.mc = 4], [Long EXCEPT !.mc = 5], [Long EXCEPT !.mc = 3, !.wide = TRUE],
   [Long EXCEPT !.mcFits = FALSE], [Long EXCEPT !.crc = FALSE], [Long EXCEPT !.handle = NoHandle]}
Spoilt == {R2010(<<Plain, r, Plain>>, 24) : r \in Flawed} \cup {R2000(<<Plain, r, Plain>>, 24) : r \in Flawed}

\* The section ends inside a record: one byte behind it, or inside an MC; or
\* there is more of it than its records.
Ragged == {R2000(<<Plain, Long>>, 10), R2000(<<Plain>>, 12), R2010(<<Plain, [Long EXCEPT !.size = 1, !.mc = 4]>>, 17)}

\* Pages out of order, a hole, one missing at the end, and a walk that fails.
Scripted(records, script) == File("R2000", records, script)
Objects18 == Description(TRUE, 2, 18)
Strayed ==
  {Scripted(<<Plain, Long>>, <<Objects18, Data(2, 6, 6), Data(2, 0, 6), Finished>>),
   Scripted(<<Plain, Long>>, <<Objects18, Data(2, 0, 6), Data(2, 12, 6), Finished>>),
   Scripted(<<Plain, Long>>, <<Objects18, Data(2, 0, 6), Data(2, 6, 6), Finished>>),
   Scripted(<<Plain, Long>>, <<Objects18, Data(2, 0, 6), Data(2, 6, 3), Refused>>),
   Scripted(<<Plain, Long>>, <<Objects18, Description(TRUE, 3, 18), Finished>>),
   Scripted(<<Plain>>, <<Description(TRUE, 2, 3), Data(2, 0, 3), Finished>>),
   Scripted(<<Plain>>, <<Description(FALSE, 2, 6), Data(2, 0, 6), Finished>>),
   [R2000(<<Plain>>, 9) EXCEPT !.stream.prologue = 3]}

\* R2007: a section's pages follow its description.
Hole(n, from, len) == [kind |-> "Hole", id |-> n, from |-> from, len |-> len]
End(n)             == [kind |-> "SectionEnd", id |-> n]

R2007(records, script) == [Scripted(records, script) EXCEPT !.family = "R2007"]

Before1 == <<Description(FALSE, 0, 5), Hole(0, 0, 2), Data(0, 2, 3), End(0)>>
Before2 == <<Description(TRUE, 1, 18)>>
After   == <<End(1), Description(FALSE, 2, 3), Data(2, 0, 3), End(2), Other, Finished>>

Sections2007 == R2007(<<Plain, Long>>, Before1 \o Before2 \o Paged(1, 18) \o After)

\* Its pages leave a hole, or do not reach its end; another object section.
Strayed2007 ==
  {R2007(<<Plain, Long>>, Before1 \o Before2 \o <<Data(1, 0, 6), Hole(1, 6, 2), Data(1, 8, 4)>> \o After),
   R2007(<<Plain, Long>>, Before1 \o Before2 \o <<Data(1, 0, 10)>> \o After),
   R2007(<<Plain, Long>>,
         <<Description(TRUE, 0, 9)>> \o Paged(0, 9) \o <<End(0), Description(TRUE, 1, 9), End(1), Finished>>),
   R2007(<<Plain, Long>>, Before1 \o <<Finished>>)}

MCFiles      == Strayed2007 \cup {Sections2007} \cup Sound \cup Spoilt \cup Ragged \cup Strayed
ResumedFiles == {Sections2007} \cup Sound \cup Ragged
=============================================================================
