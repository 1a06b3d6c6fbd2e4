---------------------------- MODULE MCLevelEditor ----------------------------
(* Instances of LevelEditor: two stored levels, one of another user, on a   *)
(* collection with room for one more; the other user's comes first in the   *)
(* list, and last by chapter.                                               *)
EXTENDS LevelEditor

CONSTANTS me, somebody

MCUUIDs == 1 .. 3
MCUsers == {me, somebody}
MCSizes == {1, 2}
MCChapters == {0, 1}

MCLevel(u, user, chapter, width, tiles) ==
  [UUID |-> u, ByUserID |-> user, Public |-> TRUE, Chapter |-> chapter,
   Width |-> width, Height |-> 1, Tiles |-> [k \in 0 .. width - 1 |-> tiles[k + 1]]]

MCStored ==
  {MCLevel(1, somebody, 1, 2, <<Start, Finish>>), MCLevel(3, me, 0, 1, <<Used>>)}

=============================================================================
