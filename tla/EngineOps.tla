------------------------------ MODULE EngineOps ------------------------------
(***************************************************************************)
(* The operations of the class EngineAR as functions of the state of one   *)
(* engine: a record with the fields                                        *)
(*   pos    crtPosition, row x and column y                                *)
(*   dir    crtDXDY, the index in dxdy of the direction the ship faces     *)
(*   valid, done                                                           *)
(*   event  the value eventsBehaviourSubject holds                         *)
(* EngineAR runs each operation in one step; GameSession runs it in the    *)
(* steps that another thread can come between.                             *)
(***************************************************************************)
EXTENDS LevelData

\* Facing the top row, the last column, the bottom row, the first column.
dxdy == << [x |-> -1, y |-> 0], [x |-> 0, y |-> 1],
           [x |-> 1, y |-> 0], [x |-> 0, y |-> -1] >>

Directions == 0 .. 3

\* What an engine instruction does, and the tile it may ask for: the colour
\* code c of an If instruction stands for the tile type c + 3.
Moves == {"moveFront", "moveBack"}
Turns == {"turnLeft", "turnRight"}
NoCondition == -1

\* What stands for a block in the messages of the buttons, and in those of a
\* thread whose stack is empty.
NoBlock   == "00"
Undefined == "undefined"

Instructions == [op: Moves \cup Turns, colour: {NoCondition} \cup 0 .. 5]

EngineType ==
  [pos: [x: Int, y: Int], dir: Directions,
   valid: BOOLEAN, done: BOOLEAN, event: {"", "invalid", "done"}]

-----------------------------------------------------------------------------
(* Positions.                                                              *)

MatrixToVector(lvl, p) == p.x * lvl.Width + p.y

VectorToMatrix(lvl, k) == [x |-> k \div lvl.Width, y |-> k % lvl.Width]

\* The first Start tile, or the corner when the level has none.
StartPosition(lvl) ==
  LET starts == {k \in DOMAIN lvl.Tiles : lvl.Tiles[k] = Start}
  IN  IF starts = {} THEN [x |-> 0, y |-> 0]
      ELSE VectorToMatrix(lvl, CHOOSE k \in starts : \A j \in starts : k <= j)

InBounds(lvl, p) == p.x \in 0 .. lvl.Height - 1 /\ p.y \in 0 .. lvl.Width - 1

TileAt(lvl, p) == lvl.Tiles[MatrixToVector(lvl, p)]

-----------------------------------------------------------------------------
(* Operations.                                                             *)

NewEngine(lvl) ==
  [pos |-> StartPosition(lvl), dir |-> 0, valid |-> TRUE, done |-> FALSE,
   event |-> ""]

IsFinished(e) == ~e.valid \/ e.done

\* The translation of moveFront and moveBack, before anything is checked.
Shifted(e, op) ==
  LET step == dxdy[e.dir + 1]
      sign == IF op = "moveFront" THEN 1 ELSE -1
  IN  [e EXCEPT !.pos = [x |-> e.pos.x + sign * step.x,
                         y |-> e.pos.y + sign * step.y]]

\* Mutant: the -1 is not mended.
TurnedUnmended(e, op) ==
  [e EXCEPT !.dir = IF op = "turnRight" THEN (e.dir + 1) % 4 ELSE e.dir - 1]

\* Swift's % truncates, so turning left of 0 gives -1, which is then mended.
Turned(e, op) ==
  [e EXCEPT !.dir = IF op = "turnRight" THEN (e.dir + 1) % 4
                    ELSE IF e.dir = 0 THEN 3 ELSE e.dir - 1]

LeftTheRoute(lvl, e) == \/ ~InBounds(lvl, e.pos)
                        \/ TileAt(lvl, e.pos) = Free

\* What checkIfInvalid and, when that has nothing to say, checkIfDone answer.
Verdict(lvl, e) == IF LeftTheRoute(lvl, e) THEN "invalid"
              ELSE IF TileAt(lvl, e.pos) = Finish THEN "done"
              ELSE "none"

\* Mutant: the row is compared with the width and the column with the height.
CheckedSwappingBounds(lvl, e) ==
  IF \/ e.pos.x \notin 0 .. lvl.Width - 1
     \/ e.pos.y \notin 0 .. lvl.Height - 1
     \/ (InBounds(lvl, e.pos) /\ TileAt(lvl, e.pos) = Free)
  THEN [e EXCEPT !.valid = FALSE, !.event = "invalid"]
  ELSE IF InBounds(lvl, e.pos) /\ TileAt(lvl, e.pos) = Finish
       THEN [e EXCEPT !.done = TRUE, !.event = "done"]
       ELSE e

\* Mutant: the verdict is announced and the flag forgotten.
CheckedAnnouncingOnly(lvl, e) ==
  LET verdict == Verdict(lvl, e)
  IN  IF verdict = "invalid" THEN [e EXCEPT !.valid = FALSE, !.event = verdict]
      ELSE IF verdict = "done" THEN [e EXCEPT !.event = verdict]
      ELSE e

\* What the two checks do to the engine.
Checked(lvl, e) ==
  LET verdict == Verdict(lvl, e)
  IN  IF verdict = "invalid" THEN [e EXCEPT !.valid = FALSE, !.event = verdict]
      ELSE IF verdict = "done" THEN [e EXCEPT !.done = TRUE, !.event = verdict]
      ELSE e

\* An If instruction runs when the ship stands on a tile of its colour.
ConditionHolds(lvl, e, i) ==
  i.colour = NoCondition \/ TileAt(lvl, e.pos) = i.colour + 3

\* Mutant: a turn, unlike a move, does not look whether the game is over.
PerformTurningWhenFinished(lvl, e, i) ==
  IF i.op \in Turns /\ i.colour = NoCondition THEN Turned(e, i.op)
  ELSE IF IsFinished(e) \/ ~ConditionHolds(lvl, e, i) THEN e
  ELSE IF i.op \in Moves THEN Checked(lvl, Shifted(e, i.op))
  ELSE Turned(e, i.op)

\* Mutant: a game that is won is not over.
PerformWhenDone(lvl, e, i) ==
  IF ~e.valid \/ ~ConditionHolds(lvl, e, i) THEN e
  ELSE IF i.op \in Moves THEN Checked(lvl, Shifted(e, i.op))
  ELSE Turned(e, i.op)

\* One whole engine operation, its leading guard included.
Perform(lvl, e, i) ==
  IF IsFinished(e) \/ ~ConditionHolds(lvl, e, i) THEN e
  ELSE IF i.op \in Moves THEN Checked(lvl, Shifted(e, i.op))
  ELSE Turned(e, i.op)

Stopped(e) == [e EXCEPT !.valid = FALSE]

\* Mutant: the ship stays where the last run left it.
ResetInPlace(lvl, e) == [e EXCEPT !.dir = 0, !.valid = TRUE, !.done = FALSE]

Reset(lvl, e) ==
  [e EXCEPT !.pos = StartPosition(lvl), !.dir = 0, !.valid = TRUE,
            !.done = FALSE]

-----------------------------------------------------------------------------
(* What should be true of the engine e of the level lvl.                   *)

\* The ship of a game that is not over is on the board, and off the Free
\* tiles unless it never left the start (a level without a Start tile starts
\* on tile 0, whatever that is).
KeepsToRoute(lvl, e) ==
  e.valid => /\ InBounds(lvl, e.pos)
             /\ TileAt(lvl, e.pos) = Free => e.pos = StartPosition(lvl)

\* done is announced on a Finish tile and the ship does not leave it.
WonOnFinish(lvl, e) ==
  e.done => InBounds(lvl, e.pos) /\ TileAt(lvl, e.pos) = Finish

=============================================================================
