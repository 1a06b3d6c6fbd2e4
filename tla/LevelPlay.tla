------------------------------ MODULE LevelPlay ------------------------------
(***************************************************************************)
(* What the game promises of a level, without directions, instructions or  *)
(* tile indices: while the run goes on the ship moves from its cell to a   *)
(* neighbouring one, the cell it enters decides whether the run goes on,   *)
(* and once the run is over only a new run moves the ship, to the start.   *)
(***************************************************************************)
EXTENDS Integers

VARIABLES
  board,  \* [cells, route, goal, start]: the cells, those a ship may enter,
          \* those that end the run well, and the one a run begins on
  cell,   \* where the ship is
  phase   \* "playing", "won" or "over"

playVars == <<board, cell, phase>>

\* Every place outside the board.
OffBoard == <<-1, -1>>

Adjacent(c, d) ==
  \/ c[1] = d[1] /\ d[2] - c[2] \in {-1, 1}
  \/ c[2] = d[2] /\ d[1] - c[1] \in {-1, 1}

\* The neighbours of a cell; those outside the board are one place.
Neighbours(c) ==
  {d \in board.cells : Adjacent(c, d)}
    \cup (IF \E d \in (c[1]-1 .. c[1]+1) \X (c[2]-1 .. c[2]+1) :
                Adjacent(c, d) /\ d \notin board.cells
          THEN {OffBoard} ELSE {})

Init == cell = board.start /\ phase = "playing"

Enter(c) ==
  /\ phase = "playing"
  /\ c \in Neighbours(cell)
  /\ cell' = c
  /\ phase' = IF c \notin board.route THEN "over"
              ELSE IF c \in board.goal THEN "won" ELSE "playing"

GiveUp == phase = "playing" /\ phase' = "over" /\ UNCHANGED cell

StartRun == cell' = board.start /\ phase' = "playing"

Next ==
  /\ UNCHANGED board
  /\ \/ \E c \in board.cells \cup {OffBoard} : Enter(c)
     \/ GiveUp
     \/ StartRun

Spec == Init /\ [][Next]_playVars

=============================================================================
