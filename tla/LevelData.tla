------------------------------ MODULE LevelData ------------------------------
(***************************************************************************)
(* The data a level is made of: DataTile (the gestures that change the     *)
(* type of one tile) and DataLevel (dimensions, and the list of tiles they *)
(* imply).  A level is a record [Width, Height, Tiles]; Tiles is a         *)
(* function from the 0-based index of the Swift array to a tile type.      *)
(* Public and Chapter are carried along for the screens.                   *)
(***************************************************************************)
EXTENDS Integers

Free   == 0
Used   == 1
Start  == 2
Finish == 3
UsedA  == 4
UsedE  == 8

TypeOfTile == Free .. UsedE

\* The types the two cycling gestures go through.
Coloured == {Used} \cup UsedA .. UsedE

-----------------------------------------------------------------------------
(* The gestures on one tile.                                               *)

\* A tap: Free and Used alternate, Start becomes Finish, the rest is freed.
Swap(type) == IF type = Free  THEN Used
         ELSE IF type = Start THEN Finish
         ELSE Free

\* Mutant: the wrap-around step goes one colour too far.
CycleLeftSkipsUsed(type) ==
  IF type \notin Coloured THEN type
  ELSE IF type \in {Used, UsedA} THEN UsedE
  ELSE type - 1

\* A swipe to the right walks the colours downwards.
CycleLeft(type) ==
  IF type \notin Coloured THEN type
  ELSE IF type = Used  THEN UsedE
  ELSE IF type = UsedA THEN Used
  ELSE type - 1

\* A swipe to the left walks them upwards.
CycleRight(type) ==
  IF type \notin Coloured THEN type
  ELSE IF type = Used  THEN UsedA
  ELSE IF type = UsedE THEN Used
  ELSE type + 1

-----------------------------------------------------------------------------
(* The list of tiles of a level.                                           *)

TileIndices(width, height) == 0 .. (width * height - 1)

IsLevel(lvl) ==
  /\ lvl.Width \in Nat \ {0}
  /\ lvl.Height \in Nat \ {0}
  /\ lvl.Tiles \in [TileIndices(lvl.Width, lvl.Height) -> TypeOfTile]

\* Mutant: the tiles are freed, and their number stays.
FreeTiles(lvl) == [lvl EXCEPT !.Tiles = [k \in DOMAIN @ |-> Free]]

\* Every tile is freed, then the list is cut or extended to Width * Height.
ReAssignTiles(lvl) ==
  [lvl EXCEPT !.Tiles = [k \in TileIndices(lvl.Width, lvl.Height) |-> Free]]

SetWidth(lvl, newWidth)   == ReAssignTiles([lvl EXCEPT !.Width = newWidth])
SetHeight(lvl, newHeight) == ReAssignTiles([lvl EXCEPT !.Height = newHeight])

SetPublic(lvl, newPublic)   == [lvl EXCEPT !.Public = newPublic]
SetChapter(lvl, newChapter) == [lvl EXCEPT !.Chapter = newChapter]

SetTile(lvl, k, type) == [lvl EXCEPT !.Tiles[k] = type]

=============================================================================
