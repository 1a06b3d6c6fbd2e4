------------------------------- MODULE EngineAR -------------------------------
(***************************************************************************)
(* The game engine on its own: its public operations, each in one step, in *)
(* any order.  level is the DataLevel the engine was made for; nothing in  *)
(* this module changes it.                                                 *)
(***************************************************************************)
EXTENDS EngineOps

CONSTANT Levels
ASSUME LevelsAssumption == \A lvl \in Levels : IsLevel(lvl)

VARIABLES level, engine
vars == <<level, engine>>

TypeOK == level \in Levels /\ engine \in EngineType

\* The constructor; viewDidLoad resets the engine before anything else runs.
Init ==
  /\ level \in Levels
  /\ engine = NewEngine(level)

Execute(i) ==
  /\ engine' = Perform(level, engine, i)
  /\ UNCHANGED level

StopLevel ==
  /\ engine' = Stopped(engine)
  /\ UNCHANGED level

ResetLevel ==
  /\ engine' = Reset(level, engine)
  /\ UNCHANGED level

Next ==
  \/ \E i \in Instructions : Execute(i)
  \/ StopLevel
  \/ ResetLevel

Spec == Init /\ [][Next]_vars

-----------------------------------------------------------------------------
(* Properties.                                                             *)

\* A game that is not over has its ship on the route.  checkIfDone and the If
\* instructions read Tiles[crtPosition] in such a state and only in such a
\* state, so this also keeps those reads inside the array.
OnTheRoute == KeepsToRoute(level, engine)

\* A level is only ever announced as done from one of its Finish tiles, and it
\* stays so until the next reset.
DoneOnFinish == WonOnFinish(level, engine)

\* "Stop moving is game is finished": an operation that finds the game over
\* changes nothing, unless it starts a new game at the start position.
FinishedIsFrozen ==
  [][IsFinished(engine) =>
       \/ UNCHANGED <<engine.pos, engine.dir, engine.done, engine.event>>
       \/ engine'.pos = StartPosition(level) /\ ~IsFinished(engine')]_vars

-----------------------------------------------------------------------------
(* The engine implements LevelPlay.                                        *)

CellOf(lvl, p) == IF InBounds(lvl, p) THEN <<p.x, p.y>> ELSE <<-1, -1>>
CellsOf(lvl) == (0 .. lvl.Height - 1) \X (0 .. lvl.Width - 1)
CellTile(lvl, c) == TileAt(lvl, [x |-> c[1], y |-> c[2]])

BoardOf(lvl) ==
  [cells |-> CellsOf(lvl),
   route |-> {c \in CellsOf(lvl) : CellTile(lvl, c) # Free},
   goal  |-> {c \in CellsOf(lvl) : CellTile(lvl, c) = Finish},
   start |-> CellOf(lvl, StartPosition(lvl))]

PhaseOf(e) == IF e.done THEN "won" ELSE IF e.valid THEN "playing" ELSE "over"

Play == INSTANCE LevelPlay WITH
  board <- BoardOf(level),
  cell  <- CellOf(level, engine.pos),
  phase <- PhaseOf(engine)

\* Every behaviour of the engine is one of the abstract game: the indices,
\* the directions and the two flags amount to a walk on neighbouring cells.
ImplementsPlay == Play!Spec

=============================================================================
