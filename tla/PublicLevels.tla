----------------------------- MODULE PublicLevels -----------------------------
(***************************************************************************)
(* The cells of the public levels screen: a section per chapter, with the  *)
(* public levels of the chapter in it.                                     *)
(***************************************************************************)
EXTENDS Integers, FiniteSets, Sequences, SequencesExt

CONSTANT ManyLevels   \* the length from which on the sort of Swift is not stable

ASSUME ManyLevelsAssumption == ManyLevels \in Nat

\* Into a list sorted by chapter, behind the levels of its own.
Inserted(levels, lvl) ==
  LET before == {k \in DOMAIN levels : levels[k].Chapter <= lvl.Chapter}
  IN  InsertAt(levels, Cardinality(before) + 1, lvl)

InsertionSorted(levels) == FoldLeft(Inserted, <<>>, levels)

\* The indices of a list in some order by chapter.
ByChapterOrders(levels) ==
  {p \in Bijection(DOMAIN levels, DOMAIN levels) :
     \A i, j \in DOMAIN levels : i < j => levels[p[i]].Chapter <= levels[p[j]].Chapter}

\* Mutant: the levels stay in the order of the list.
SortedAsListed(levels) == levels

\* The sort of Swift inserts one element after the other when they are few; what
\* it does with the levels of one chapter when they are many is not specified.
Sorted(levels) ==
  IF Len(levels) < ManyLevels THEN InsertionSorted(levels)
  ELSE LET p == CHOOSE p \in ByChapterOrders(levels) : TRUE
       IN  [i \in DOMAIN levels |-> levels[p[i]]]

\* A chapter begins a section, whether or not any of its levels is public.
AddCell(cells, lvl) ==
  LET begins   == cells = <<>> \/ Last(cells).chapter # lvl.Chapter
      sections == IF begins
                  THEN Append(cells, [chapter |-> lvl.Chapter, items |-> <<>>])
                  ELSE cells
  IN  IF lvl.Public
      THEN [sections EXCEPT ![Len(sections)].items = Append(@, lvl.UUID)]
      ELSE sections

Cells(levels) == FoldLeft(AddCell, <<>>, Sorted(levels))

-----------------------------------------------------------------------------
(* What the cells should be.                                               *)

\* One section for each chapter there is, in their order; in it the public levels of
\* the chapter, each as often as the list has them, and of a short list in its order.
AreChapters(cells, levels) ==
  /\ {cells[k].chapter : k \in DOMAIN cells}
       = {levels[k].Chapter : k \in DOMAIN levels}
  /\ \A j, k \in DOMAIN cells : j < k => cells[j].chapter < cells[k].chapter
  /\ \A k \in DOMAIN cells :
       LET items    == cells[k].items
           shown    == {i \in DOMAIN levels : /\ levels[i].Public
                                              /\ levels[i].Chapter = cells[k].chapter}
           place(i) == Cardinality({j \in shown : j <= i})
       IN  /\ \E spot \in Bijection(shown, DOMAIN items) :
                \A i \in shown : items[spot[i]] = levels[i].UUID
           /\ Len(levels) < ManyLevels =>
                \A i \in shown : items[place(i)] = levels[i].UUID

=============================================================================
