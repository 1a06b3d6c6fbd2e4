------------------------------ MODULE DrawnGame ------------------------------
(***************************************************************************)
(* The ship the user sees.  Every operation of the engine also flies the   *)
(* ship of the scene (PlayerAR), which knows nothing of rows, columns and  *)
(* directions: it has an offset from playerRoot and an angle, and flies    *)
(* along the axis it points to.  playerRoot is put on the Start tile when  *)
(* the user taps a plane to place the board there (GameScene).             *)
(*                                                                         *)
(* A flight lasts a second, and so does an instruction, so that a flight   *)
(* of the engine is one step with its instruction.  A tap on a board that  *)
(* is there flies the ship as well, at any moment and without the engine.  *)
(***************************************************************************)
EXTENDS EngineAR, FiniteSets

CONSTANTS
  Elsewhere,   \* where playerRoot is in the file of the scene
  Lost,        \* an offset that is no whole number of tiles
  MaxTaps      \* bound on the taps on the board

Offsets == [x: Int, z: Int]
Squares == [x: Int, y: Int]

ASSUME DrawnAssumption ==
  /\ Elsewhere \notin Squares /\ Lost \notin Offsets
  /\ MaxTaps \in Nat

VARIABLES
  board,    \* "looking" for a plane, "placed", or "crashed"
  root,     \* the tile playerRoot is on: its row x and its column y
  place,    \* the ship's offset from playerRoot, in tiles
  angle,    \* and its angle around the y axis, in quarters of a turn
  flying,   \* a tap has set the ship flying and it has not landed
  tapped,   \* it may not be where the engine left it, because of a tap
  taps

scene == <<board, root, place, angle, flying, tapped, taps>>
drawnVars == <<vars, scene>>

DrawnInit ==
  /\ Init
  /\ board = "looking" /\ root = Elsewhere
  /\ place = [x |-> 0, z |-> 0] /\ angle = 2
  /\ flying = FALSE /\ tapped = FALSE /\ taps = 0

-----------------------------------------------------------------------------
(* PlayerAR.                                                               *)

\* The front of a node is its negative z axis.
simdWorldFront(a) ==
  << [x |-> 0, z |-> -1], [x |-> -1, z |-> 0],
     [x |-> 0, z |-> 1], [x |-> 1, z |-> 0] >>[a + 1]

\* The model of the ship points to the other side.
Flown(p, a, op) ==
  LET sign == IF op = "moveFront" THEN -1 ELSE 1
  IN  IF p = Lost THEN Lost
      ELSE [x |-> p.x + sign * simdWorldFront(a).x,
            z |-> p.z + sign * simdWorldFront(a).z]

\* Mutant: the angle is not kept below a whole turn.
RotatedFurther(a, op) == IF op = "turnLeft" THEN a + 1 ELSE (a + 3) % 4

Rotated(a, op) == IF op = "turnLeft" THEN (a + 1) % 4 ELSE (a + 3) % 4

Fly(op) ==
  /\ place' = IF op \in Moves THEN Flown(place, angle, op) ELSE place
  /\ angle' = IF op \in Turns THEN Rotated(angle, op) ELSE angle

\* Back to playerRoot, unless another flight is still adding to it.
FlyHome ==
  /\ angle' = 2
  /\ place' = IF flying THEN Lost ELSE [x |-> 0, z |-> 0]
  /\ tapped' = flying

-----------------------------------------------------------------------------
(* The operations of the engine, with what they draw.                      *)

Performs(i) == ~IsFinished(engine) /\ ConditionHolds(level, engine, i)

DrawnExecute(i) ==
  /\ board # "crashed"
  /\ Execute(i)
  /\ IF Performs(i) THEN Fly(i.op) ELSE UNCHANGED <<place, angle>>
  /\ UNCHANGED <<board, root, flying, tapped, taps>>

DrawnStop ==
  /\ board # "crashed"
  /\ StopLevel
  /\ UNCHANGED scene

DrawnReset ==
  /\ board # "crashed"
  /\ ResetLevel
  /\ FlyHome
  /\ UNCHANGED <<board, root, flying, taps>>

-----------------------------------------------------------------------------
(* The scene.                                                              *)

TilesOf(type) == {k \in DOMAIN level.Tiles : level.Tiles[k] = type}

\* Mutant: rows and columns are taken for each other.
SpawnLevelTurned ==
  /\ board = "looking"
  /\ IF TilesOf(Finish) = {} THEN board' = "crashed" ELSE board' = "placed"
  /\ root' = IF TilesOf(Start) = {} THEN Elsewhere
             ELSE LET k == CHOOSE k \in TilesOf(Start) :
                             \A j \in TilesOf(Start) : j <= k
                      p == VectorToMatrix(level, k)
                  IN  [x |-> p.y, y |-> p.x]
  /\ UNCHANGED <<vars, place, angle, flying, tapped, taps>>

\* A plane is tapped: playerRoot is moved to every Start tile in turn, and the
\* moon to the last Finish tile, which has to be there.
SpawnLevel ==
  /\ board = "looking"
  /\ IF TilesOf(Finish) = {} THEN board' = "crashed" ELSE board' = "placed"
  /\ root' = IF TilesOf(Start) = {} THEN Elsewhere
             ELSE VectorToMatrix(level, CHOOSE k \in TilesOf(Start) :
                                          \A j \in TilesOf(Start) : j <= k)
  /\ UNCHANGED <<vars, place, angle, flying, tapped, taps>>

\* The screen is tapped once more.  While the ship turns, its front is no axis.
Tap ==
  /\ board = "placed" /\ taps < MaxTaps
  /\ taps' = taps + 1
  /\ place' \in {Flown(place, angle, "moveFront"), Lost}
  /\ flying' = TRUE /\ tapped' = TRUE
  /\ UNCHANGED <<vars, board, root, angle>>

Land ==
  /\ flying /\ flying' = FALSE
  /\ UNCHANGED <<vars, board, root, place, angle, tapped, taps>>

DrawnNext ==
  \/ \E i \in Instructions : DrawnExecute(i)
  \/ DrawnStop \/ DrawnReset
  \/ SpawnLevel \/ Tap \/ Land

DrawnSpec == DrawnInit /\ [][DrawnNext]_drawnVars

-----------------------------------------------------------------------------
(* Properties.                                                             *)

DrawnTypeOK ==
  /\ board \in {"looking", "placed", "crashed"}
  /\ root \in Squares \cup {Elsewhere}
  /\ place \in Offsets \cup {Lost} /\ angle \in 0 .. 3
  /\ {flying, tapped} \subseteq BOOLEAN /\ taps \in Nat

\* The user sees the ship on the tile the engine has it on, pointing where the
\* engine's points: however far it has gone, whenever the board was placed, and
\* again after the next run when a tap had led it away.
ShipOnItsTile ==
  board = "placed" /\ Cardinality(TilesOf(Start)) = 1 /\ ~tapped =>
    /\ place # Lost
    /\ engine.pos = [x |-> root.x + place.z, y |-> root.y + place.x]
    /\ dxdy[engine.dir + 1] = [x |-> - simdWorldFront(angle).z,
                               y |-> - simdWorldFront(angle).x]

=============================================================================
