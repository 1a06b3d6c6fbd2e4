---------------------------- MODULE DrawnGameProofs ----------------------------
(***************************************************************************)
(* Theorems about the engine (EngineAR) and about the game with a scene    *)
(* (DrawnGame), for every set of levels and any number of taps.  The       *)
(* engine implements the game of LevelPlay; the ship of the scene stays    *)
(* with the ship of the engine (ShipOnItsTile); and a game with a scene is *)
(* a game of EngineAR, so that what is proved of the engine holds of it.   *)
(***************************************************************************)
EXTENDS DrawnGame, EngineOpsProofs, FiniteSetTheorems

-----------------------------------------------------------------------------
(* The engine.                                                             *)

\* The type invariant of the engine, for every set of levels.
THEOREM TypeCorrect == Spec => []TypeOK
<1>1. Init => TypeOK
  BY LevelsAssumption, NewEngineType DEF Init, TypeOK
<1>2. TypeOK /\ [Next]_vars => TypeOK'
  <2> SUFFICES ASSUME TypeOK, [Next]_vars PROVE TypeOK'
    OBVIOUS
  <2>1. IsLevel(level) /\ engine \in EngineType
    BY LevelsAssumption DEF TypeOK
  <2>2. ASSUME NEW i \in Instructions, Execute(i) PROVE TypeOK'
    BY <2>1, <2>2, PerformType DEF Execute, TypeOK
  <2>3. CASE StopLevel
    BY <2>1, <2>3, ResetType DEF StopLevel, TypeOK
  <2>4. CASE ResetLevel
    BY <2>1, <2>4, ResetType DEF ResetLevel, TypeOK
  <2>5. CASE UNCHANGED vars
    BY <2>5 DEF vars, TypeOK
  <2>6. QED
    BY <2>2, <2>3, <2>4, <2>5 DEF Next
<1>3. QED
  BY <1>1, <1>2, PTL DEF Spec

\* A game that is not over has its ship on the route, and a game that is won
\* has it on a Finish tile: Tiles[crtPosition] is never read out of range.
THEOREM RouteInvariant == Spec => [](OnTheRoute /\ DoneOnFinish)
<1> DEFINE Inv == OnTheRoute /\ DoneOnFinish
<1> USE DEF OnTheRoute, DoneOnFinish
<1>1. Init => Inv
  BY LevelsAssumption, NewEngineRoute DEF Init
<1>2. TypeOK /\ Inv /\ [Next]_vars => Inv'
  <2> SUFFICES ASSUME TypeOK, Inv, [Next]_vars PROVE Inv'
    OBVIOUS
  <2>1. IsLevel(level) /\ engine \in EngineType
    BY LevelsAssumption DEF TypeOK
  <2>2. ASSUME NEW i \in Instructions, Execute(i) PROVE Inv'
    BY <2>1, <2>2, PerformRoute DEF Execute
  <2>3. CASE StopLevel
    BY <2>1, <2>3, StoppedRoute DEF StopLevel
  <2>4. CASE ResetLevel
    BY <2>1, <2>4, ResetRoute DEF ResetLevel
  <2>5. CASE UNCHANGED vars
    BY <2>5 DEF vars
  <2>6. QED
    BY <2>2, <2>3, <2>4, <2>5 DEF Next
<1>3. QED
  BY <1>1, <1>2, TypeCorrect, PTL DEF Spec

\* The comment "Stop moving is game is finished" of EngineAR.swift, for every
\* operation of an engine that one thread drives.
THEOREM FrozenTheorem == Spec => FinishedIsFrozen
<1> DEFINE A == IsFinished(engine) =>
       \/ UNCHANGED <<engine.pos, engine.dir, engine.done, engine.event>>
       \/ engine'.pos = StartPosition(level) /\ ~IsFinished(engine')
<1>1. TypeOK /\ [Next]_vars => [A]_vars
  <2> SUFFICES ASSUME TypeOK, Next, IsFinished(engine) PROVE A
    BY DEF A
  <2>1. engine \in EngineType
    BY DEF TypeOK
  <2>2. ASSUME NEW i \in Instructions, Execute(i) PROVE A
    BY <2>2 DEF Execute, Perform
  <2>3. CASE StopLevel
    BY <2>1, <2>3 DEF StopLevel, Stopped, EngineType
  <2>4. CASE ResetLevel
    BY <2>1, <2>4 DEF ResetLevel, Reset, EngineType, IsFinished
  <2>5. QED
    BY <2>2, <2>3, <2>4 DEF Next
<1>2. QED
  BY <1>1, TypeCorrect, PTL DEF Spec, FinishedIsFrozen

-----------------------------------------------------------------------------
(* The engine implements the abstract game.                                *)

\* A move of the ship is a step of the abstract game, on or off the board.
LEMMA MoveEnters ==
  ASSUME IsLevel(level), engine \in EngineType, ~IsFinished(engine),
         KeepsToRoute(level, engine), level' = level,
         NEW p \in [x: Int, y: Int], NextTo(engine.pos, p),
         engine' = Checked(level, AtPosition(engine, p))
  PROVE  Play!Next
<1> DEFINE c == CellOf(level, p)
           g == AtPosition(engine, p)
<1>1. engine.valid /\ ~engine.done /\ InBounds(level, engine.pos)
  BY DEF IsFinished, EngineType, KeepsToRoute
<1>2. g.pos = p /\ g.valid /\ ~g.done /\ g \in EngineType
  BY <1>1, EngineFields DEF AtPosition, EngineType
<1> HIDE DEF g
<1>3. engine'.pos = p
  BY <1>2 DEF Checked, Verdict, EngineType, g
<1>4. PhaseOf(engine') = IF LeftTheRoute(level, g) THEN "over"
                         ELSE IF TileAt(level, p) = Finish THEN "won"
                         ELSE "playing"
  BY <1>2 DEF Checked, Verdict, EngineType, PhaseOf, g
<1>5. LeftTheRoute(level, g) <=> ~InBounds(level, p) \/ TileAt(level, p) = Free
  BY <1>2 DEF LeftTheRoute
<1>6. c \in Play!Neighbours(CellOf(level, engine.pos))
  <2>1. CellOf(level, engine.pos) = <<engine.pos.x, engine.pos.y>>
    BY <1>1 DEF CellOf
  <2>2. engine.pos.x \in Int /\ engine.pos.y \in Int
    BY EngineFields
  <2>3. Play!Adjacent(CellOf(level, engine.pos), <<p.x, p.y>>)
    BY <2>1 DEF Play!Adjacent, NextTo
  <2>4. CASE InBounds(level, p)
    BY <2>3, <2>4 DEF Play!Neighbours, BoardOf, CellsOf, CellOf, InBounds
  <2>5. CASE ~InBounds(level, p)
    <3>1. <<p.x, p.y>> \notin BoardOf(level).cells
      BY <2>5 DEF BoardOf, CellsOf, InBounds
    <3>2. <<p.x, p.y>> \in (engine.pos.x - 1 .. engine.pos.x + 1)
                             \X (engine.pos.y - 1 .. engine.pos.y + 1)
      BY <2>2 DEF NextTo
    <3>3. c = Play!OffBoard
      BY <2>5 DEF CellOf, Play!OffBoard
    <3>4. QED
      BY <2>1, <2>3, <3>1, <3>2, <3>3 DEF Play!Neighbours
  <2>6. QED
    BY <2>4, <2>5
<1>7. c \in BoardOf(level).cells \cup {Play!OffBoard}
  BY DEF CellOf, BoardOf, CellsOf, InBounds, Play!OffBoard
<1>8. /\ c \in BoardOf(level).route <=> ~LeftTheRoute(level, g)
      /\ c \in BoardOf(level).goal <=>
           InBounds(level, p) /\ TileAt(level, p) = Finish
  <2>1. CASE InBounds(level, p)
    <3>1. c = <<p.x, p.y>> /\ c \in CellsOf(level)
      BY <2>1 DEF CellOf, CellsOf, InBounds
    <3>2. CellTile(level, c) = TileAt(level, p)
      BY <3>1 DEF CellTile
    <3>3. QED
      BY <1>5, <2>1, <3>1, <3>2 DEF BoardOf
  <2>2. CASE ~InBounds(level, p)
    <3>1. c = <<-1, -1>> /\ c \notin CellsOf(level)
      BY <2>2 DEF CellOf, CellsOf, IsLevel
    <3>2. QED
      BY <1>5, <2>2, <3>1 DEF BoardOf
  <2>3. QED
    BY <2>1, <2>2
<1>9. PhaseOf(engine) = "playing"
  BY <1>1 DEF PhaseOf
<1>10. PhaseOf(engine') = IF c \notin BoardOf(level).route THEN "over"
                          ELSE IF c \in BoardOf(level).goal THEN "won"
                          ELSE "playing"
  BY <1>4, <1>5, <1>8
<1>11. CellOf(level', engine'.pos) = c
  BY <1>3
<1>12. Play!Enter(c)
  BY <1>6, <1>9, <1>10, <1>11 DEF Play!Enter
<1>13. QED
  BY <1>7, <1>12 DEF Play!Next

\* EngineAR implements LevelPlay: whatever the instructions, and however stops
\* and resets come between them, the ship walks from cell to neighbouring cell
\* and the tile it enters decides the run.
THEOREM EngineImplementsPlay == Spec => ImplementsPlay
<1>1. Init => Play!Init
  <2> SUFFICES ASSUME Init PROVE Play!Init
    OBVIOUS
  <2>1. engine = NewEngine(level)
    BY DEF Init
  <2>2. engine.pos = StartPosition(level) /\ engine.valid /\ ~engine.done
    BY <2>1 DEF NewEngine
  <2>3. QED
    BY <2>2 DEF Play!Init, BoardOf, PhaseOf
<1>2. TypeOK /\ OnTheRoute /\ DoneOnFinish /\ [Next]_vars
        => [Play!Next]_(Play!playVars)
  <2> SUFFICES ASSUME TypeOK, OnTheRoute, DoneOnFinish, [Next]_vars
               PROVE  Play!Next \/ UNCHANGED Play!playVars
    OBVIOUS
  <2>1. IsLevel(level) /\ engine \in EngineType
    BY LevelsAssumption DEF TypeOK
  <2>2. ASSUME NEW i \in Instructions, Execute(i)
        PROVE  Play!Next \/ UNCHANGED Play!playVars
    <3>1. level' = level /\ engine' = Perform(level, engine, i)
      BY <2>2 DEF Execute
    <3>2. CASE engine' = engine
      BY <3>1, <3>2 DEF Play!playVars
    <3>3. ASSUME NEW d \in Directions, engine' = Facing(engine, d)
          PROVE  UNCHANGED Play!playVars
      <4>1. /\ engine'.pos = engine.pos /\ engine'.valid = engine.valid
            /\ engine'.done = engine.done
        BY <2>1, <3>3 DEF Facing, EngineType
      <4>2. QED
        BY <3>1, <4>1 DEF Play!playVars, PhaseOf
    <3>4. ASSUME NEW p \in [x: Int, y: Int], ~IsFinished(engine),
                 NextTo(engine.pos, p),
                 engine' = Checked(level, AtPosition(engine, p))
          PROVE  Play!Next
      BY <2>1, <3>1, <3>4, MoveEnters DEF OnTheRoute
    <3>5. QED
      BY <2>1, <3>1, <3>2, <3>3, <3>4, PerformCases
  <2>3. CASE StopLevel
    <3>1. /\ level' = level /\ engine'.pos = engine.pos
          /\ ~engine'.valid /\ engine'.done = engine.done
      BY <2>1, <2>3 DEF StopLevel, Stopped, EngineType
    <3>2. QED
      BY <2>1, <3>1
         DEF Play!Next, Play!GiveUp, Play!playVars, PhaseOf, EngineType
  <2>4. CASE ResetLevel
    <3>1. /\ level' = level /\ engine'.pos = StartPosition(level)
          /\ engine'.valid /\ ~engine'.done
      BY <2>1, <2>4 DEF ResetLevel, Reset, EngineType
    <3>2. QED
      BY <3>1 DEF Play!Next, Play!StartRun, PhaseOf, BoardOf
  <2>5. CASE UNCHANGED vars
    BY <2>5 DEF vars, Play!playVars
  <2>6. QED
    BY <2>2, <2>3, <2>4, <2>5 DEF Next
<1>3. QED
  BY <1>1, <1>2, TypeCorrect, RouteInvariant, PTL
     DEF Spec, ImplementsPlay, Play!Spec

-----------------------------------------------------------------------------
(* One operation, on the board and in the scene.                           *)

\* The angle of a ship that faces a direction of the engine.
Heading(dir) == IF dir = 3 THEN 3 ELSE 2 - dir

\* The checks of the engine do not move the ship.
LEMMA CheckedStays ==
  ASSUME NEW lvl, NEW e \in EngineType
  PROVE  Checked(lvl, e).pos = e.pos /\ Checked(lvl, e).dir = e.dir
BY DEF Checked, EngineType

\* A flight goes as far in the scene as the move on the board.
LEMMA FlownIsShifted ==
  ASSUME NEW e \in EngineType, NEW p \in Offsets, NEW op \in Moves
  PROVE  LET q == Flown(p, Heading(e.dir), op)
             f == Shifted(e, op)
         IN  /\ q \in Offsets /\ f \in EngineType /\ f.dir = e.dir
             /\ f.pos.x = e.pos.x + (q.z - p.z)
             /\ f.pos.y = e.pos.y + (q.x - p.x)
<1> DEFINE q == Flown(p, Heading(e.dir), op)
           f == Shifted(e, op)
           step == dxdy[e.dir + 1]
           front == simdWorldFront(Heading(e.dir))
           sign == IF op = "moveFront" THEN 1 ELSE -1
<1>1. e.dir \in 0 .. 3 /\ e.pos.x \in Int /\ e.pos.y \in Int
  BY EngineFields DEF Directions
<1>2. step.x \in Int /\ step.y \in Int /\ front.x = - step.y /\ front.z = - step.x
  <2>1. CASE e.dir = 0
    BY <2>1 DEF dxdy, simdWorldFront, Heading
  <2>2. CASE e.dir = 1
    BY <2>2 DEF dxdy, simdWorldFront, Heading
  <2>3. CASE e.dir = 2
    BY <2>3 DEF dxdy, simdWorldFront, Heading
  <2>4. CASE e.dir = 3
    BY <2>4 DEF dxdy, simdWorldFront, Heading
  <2>5. QED
    BY <1>1, <2>1, <2>2, <2>3, <2>4
<1>3. p # Lost /\ p.x \in Int /\ p.z \in Int
  BY DrawnAssumption DEF Offsets
<1>4. q = [x |-> p.x + (- sign) * front.x, z |-> p.z + (- sign) * front.z]
  BY <1>3 DEF Flown
<1>5. f = [e EXCEPT !.pos = [x |-> e.pos.x + sign * step.x,
                             y |-> e.pos.y + sign * step.y]]
  BY DEF Shifted
<1> HIDE DEF q, f, step, front
<1>6. sign \in {-1, 1}
  OBVIOUS
<1>7. q \in Offsets /\ q.x = p.x + sign * step.y /\ q.z = p.z + sign * step.x
  <2>1. CASE sign = 1
    BY <1>2, <1>3, <1>4, <2>1 DEF Offsets
  <2>2. CASE sign = -1
    BY <1>2, <1>3, <1>4, <2>2 DEF Offsets
  <2>3. QED
    BY <1>6, <2>1, <2>2
<1>8. sign * step.x \in Int /\ sign * step.y \in Int
  BY <1>2, <1>6
<1> HIDE DEF sign
<1>9. /\ f \in EngineType /\ f.dir = e.dir
      /\ f.pos.x = e.pos.x + sign * step.x /\ f.pos.y = e.pos.y + sign * step.y
  <2> DEFINE p1 == [x |-> e.pos.x + sign * step.x, y |-> e.pos.y + sign * step.y]
  <2>1. /\ p1 \in [x: Int, y: Int]
        /\ p1.x = e.pos.x + sign * step.x /\ p1.y = e.pos.y + sign * step.y
    BY <1>1, <1>8
  <2>2. f = [e EXCEPT !.pos = p1]
    BY <1>5
  <2> HIDE DEF p1
  <2>3. f \in EngineType /\ f.dir = e.dir /\ f.pos = p1
    BY <2>1, <2>2 DEF EngineType
  <2>4. QED
    BY <2>1, <2>3
<1>10. /\ f.pos.x = e.pos.x + (q.z - p.z)
       /\ f.pos.y = e.pos.y + (q.x - p.x)
  BY <1>1, <1>3, <1>7, <1>8, <1>9
<1>11. QED
  BY <1>7, <1>9, <1>10 DEF q, f

\* A turn turns both.
LEMMA RotatedIsTurned ==
  ASSUME NEW e \in EngineType, NEW op \in Turns
  PROVE  /\ Rotated(Heading(e.dir), op) = Heading(Turned(e, op).dir)
         /\ Turned(e, op).pos = e.pos
<1>1. e.dir \in 0 .. 3
  BY EngineFields DEF Directions
<1> DEFINE d == IF op = "turnRight" THEN (e.dir + 1) % 4
                ELSE IF e.dir = 0 THEN 3 ELSE e.dir - 1
<1>2. Turned(e, op).dir = d /\ Turned(e, op).pos = e.pos
  BY DEF Turned, EngineType
<1>3. Rotated(Heading(e.dir), op) = Heading(d)
  <2>1. CASE e.dir = 0
    BY <2>1 DEF Rotated, Heading, Turns
  <2>2. CASE e.dir = 1
    BY <2>2 DEF Rotated, Heading, Turns
  <2>3. CASE e.dir = 2
    BY <2>3 DEF Rotated, Heading, Turns
  <2>4. CASE e.dir = 3
    BY <2>4 DEF Rotated, Heading, Turns
  <2>5. QED
    BY <1>1, <2>1, <2>2, <2>3, <2>4
<1>4. QED
  BY <1>2, <1>3

-----------------------------------------------------------------------------
(* The inductive invariant.  ShipOnItsTile speaks of a board with one Start *)
(* tile; the offset of the ship is right with any board, and without one.  *)

Follows ==
  ~tapped =>
    /\ place \in Offsets
    /\ engine.pos.x = StartPosition(level).x + place.z
    /\ engine.pos.y = StartPosition(level).y + place.x
    /\ angle = Heading(engine.dir)

RootOnStart ==
  board = "placed" /\ Cardinality(TilesOf(Start)) = 1 => root = StartPosition(level)

DrawnInv == TypeOK /\ DrawnTypeOK /\ Follows /\ RootOnStart

LEMMA DrawnInitKeeps == DrawnInit => DrawnInv
<1> SUFFICES ASSUME DrawnInit PROVE DrawnInv
  OBVIOUS
<1>1. /\ level \in Levels /\ IsLevel(level) /\ engine = NewEngine(level)
      /\ board = "looking" /\ root = Elsewhere
      /\ place = [x |-> 0, z |-> 0] /\ angle = 2
      /\ flying = FALSE /\ tapped = FALSE /\ taps = 0
  BY LevelsAssumption DEF DrawnInit, Init
<1>2. TypeOK
  BY <1>1, NewEngineType DEF TypeOK
<1>3. place \in Offsets /\ place.x = 0 /\ place.z = 0
  BY <1>1 DEF Offsets
<1>4. StartPosition(level).x \in Int /\ StartPosition(level).y \in Int
  BY <1>1, StartInBounds
<1>5. engine.pos = StartPosition(level) /\ engine.dir = 0
  BY <1>1 DEF NewEngine
<1>6. Follows
  BY <1>1, <1>3, <1>4, <1>5 DEF Follows, Heading
<1>7. DrawnTypeOK
  <2>1. {flying, tapped} \subseteq BOOLEAN
    BY <1>1
  <2>2. QED
    BY <1>1, <1>3, <2>1 DEF DrawnTypeOK
<1>8. RootOnStart
  BY <1>1 DEF RootOnStart
<1>9. QED
  BY <1>2, <1>6, <1>7, <1>8 DEF DrawnInv

-----------------------------------------------------------------------------
(* Every step keeps it.                                                    *)

LEMMA ExecuteKeeps ==
  ASSUME NEW i \in Instructions, DrawnInv, DrawnExecute(i) PROVE DrawnInv'
<1>1. /\ engine' = Perform(level, engine, i) /\ level' = level
      /\ IF Performs(i) THEN Fly(i.op) ELSE UNCHANGED <<place, angle>>
      /\ UNCHANGED <<board, root, flying, tapped, taps>>
  BY DEF DrawnExecute, Execute
<1>2. engine \in EngineType /\ level \in Levels
  BY DEF DrawnInv, TypeOK
<1>3. TypeOK'
  BY <1>1, <1>2, PerformType DEF TypeOK
<1>4. RootOnStart'
  BY <1>1 DEF DrawnInv, RootOnStart, TilesOf
<1>5. i.op \in Moves \cup Turns
  BY DEF Instructions
<1>6. CASE ~Performs(i)
  <2>1. engine' = engine
    BY <1>1, <1>6 DEF Performs, Perform
  <2>2. QED
    BY <1>1, <1>3, <1>4, <1>6, <2>1 DEF DrawnInv, DrawnTypeOK, Follows
<1>7. CASE Performs(i) /\ i.op \in Moves
  <2>1. /\ place' = Flown(place, angle, i.op) /\ angle' = angle
        /\ engine' = Checked(level, Shifted(engine, i.op))
    <3>1. i.op \notin Turns
      BY <1>7 DEF Moves, Turns
    <3>2. QED
      BY <1>1, <1>7, <3>1 DEF Fly, Performs, Perform
  <2>2. place' \in Offsets \cup {Lost}
    <3>1. angle \in 0 .. 3 /\ place \in Offsets \cup {Lost}
      BY DEF DrawnInv, DrawnTypeOK
    <3>2. simdWorldFront(angle).x \in Int /\ simdWorldFront(angle).z \in Int
      <4>1. angle = 0 \/ angle = 1 \/ angle = 2 \/ angle = 3
        BY <3>1
      <4>2. QED
        BY <4>1 DEF simdWorldFront
    <3>3. QED
      BY <2>1, <3>1, <3>2 DEF Flown, Offsets
  <2>3. Follows'
    <3> SUFFICES ASSUME ~tapped PROVE Follows'
      BY <1>1 DEF Follows
    <3>1. /\ place \in Offsets /\ angle = Heading(engine.dir)
          /\ engine.pos.x = StartPosition(level).x + place.z
          /\ engine.pos.y = StartPosition(level).y + place.x
      BY DEF DrawnInv, Follows
    <3> DEFINE f == Shifted(engine, i.op)
    <3>2. /\ place' \in Offsets /\ f \in EngineType /\ f.dir = engine.dir
          /\ f.pos.x = engine.pos.x + (place'.z - place.z)
          /\ f.pos.y = engine.pos.y + (place'.x - place.x)
      BY <1>2, <1>7, <2>1, <3>1, FlownIsShifted
    <3> HIDE DEF f
    <3>3. engine'.pos = f.pos /\ engine'.dir = f.dir
      BY <2>1, <3>2, CheckedStays DEF f
    <3>4. StartPosition(level).x \in Int /\ StartPosition(level).y \in Int
      BY <1>2, LevelsAssumption, StartInBounds
    <3>5. /\ place.x \in Int /\ place.z \in Int
          /\ place'.x \in Int /\ place'.z \in Int
      BY <3>1, <3>2 DEF Offsets
    <3>6. /\ engine'.pos.x = StartPosition(level).x + place'.z
          /\ engine'.pos.y = StartPosition(level).y + place'.x
      BY <3>1, <3>2, <3>3, <3>4, <3>5
    <3>7. QED
      BY <1>1, <2>1, <3>1, <3>2, <3>3, <3>6 DEF Follows
  <2>4. DrawnTypeOK'
    BY <1>1, <2>1, <2>2 DEF DrawnInv, DrawnTypeOK
  <2>5. QED
    BY <1>3, <1>4, <2>3, <2>4 DEF DrawnInv
<1>8. CASE Performs(i) /\ i.op \in Turns
  <2>1. /\ place' = place /\ angle' = Rotated(angle, i.op)
        /\ engine' = Turned(engine, i.op)
    <3>1. i.op \notin Moves
      BY <1>8 DEF Moves, Turns
    <3>2. QED
      BY <1>1, <1>8, <3>1 DEF Fly, Performs, Perform
  <2>2. angle' \in 0 .. 3
    <3>1. angle \in 0 .. 3
      BY DEF DrawnInv, DrawnTypeOK
    <3>2. QED
      BY <2>1, <3>1 DEF Rotated
  <2>3. Follows'
    BY <1>1, <1>2, <1>8, <2>1, RotatedIsTurned DEF DrawnInv, Follows
  <2>4. DrawnTypeOK'
    BY <1>1, <2>1, <2>2 DEF DrawnInv, DrawnTypeOK
  <2>5. QED
    BY <1>3, <1>4, <2>3, <2>4 DEF DrawnInv
<1>9. QED
  BY <1>5, <1>6, <1>7, <1>8

LEMMA StopKeeps == ASSUME DrawnInv, DrawnStop PROVE DrawnInv'
<1>1. engine' = Stopped(engine) /\ level' = level /\ UNCHANGED scene
  BY DEF DrawnStop, StopLevel
<1>2. engine \in EngineType /\ level \in Levels /\ IsLevel(level)
  BY LevelsAssumption DEF DrawnInv, TypeOK
<1>3. engine' \in EngineType
  BY <1>1, <1>2, ResetType
<1>4. engine'.pos = engine.pos /\ engine'.dir = engine.dir
  BY <1>1, <1>2 DEF Stopped, EngineType
<1>5. QED
  BY <1>1, <1>2, <1>3, <1>4
     DEF DrawnInv, TypeOK, DrawnTypeOK, Follows, RootOnStart, TilesOf, scene

LEMMA ResetKeeps == ASSUME DrawnInv, DrawnReset PROVE DrawnInv'
<1>1. /\ engine' = Reset(level, engine) /\ level' = level
      /\ angle' = 2 /\ tapped' = flying
      /\ place' = IF flying THEN Lost ELSE [x |-> 0, z |-> 0]
      /\ UNCHANGED <<board, root, flying, taps>>
  BY DEF DrawnReset, ResetLevel, FlyHome
<1>2. engine \in EngineType /\ level \in Levels /\ IsLevel(level)
  BY LevelsAssumption DEF DrawnInv, TypeOK
<1>3. TypeOK'
  BY <1>1, <1>2, ResetType DEF TypeOK
<1>4. engine'.pos = StartPosition(level) /\ engine'.dir = 0
  BY <1>1, <1>2 DEF Reset, EngineType
<1>5. StartPosition(level).x \in Int /\ StartPosition(level).y \in Int
  BY <1>2, StartInBounds
<1>6. DrawnTypeOK'
  BY <1>1 DEF DrawnInv, DrawnTypeOK, Offsets
<1>7. Follows'
  <2> SUFFICES ASSUME ~flying PROVE Follows'
    BY <1>1 DEF Follows
  <2>1. place' \in Offsets /\ place'.x = 0 /\ place'.z = 0
    BY <1>1 DEF Offsets
  <2>2. QED
    BY <1>1, <1>4, <1>5, <2>1 DEF Follows, Heading
<1>8. RootOnStart'
  BY <1>1 DEF DrawnInv, RootOnStart, TilesOf
<1>9. QED
  BY <1>3, <1>6, <1>7, <1>8 DEF DrawnInv

\* A set of indices has a last one.
LEMMA HasLast ==
  ASSUME NEW N \in Nat, NEW K \in SUBSET (0 .. N - 1), K # {}
  PROVE  \E last \in K : \A j \in K : j <= last
<1> DEFINE S == {N - k : k \in K}
<1>1. \A k \in K : k \in Int /\ N - k \in Nat
  OBVIOUS
<1>2. S \subseteq Nat /\ S # {}
  BY <1>1
<1>3. PICK s \in S : \A t \in S : s <= t
  BY <1>2, LeastNatural
<1>4. PICK last \in K : s = N - last
  BY <1>3
<1>5. ASSUME NEW j \in K PROVE j <= last
  <2>1. N - j \in S /\ s <= N - j
    BY <1>3
  <2>2. QED
    BY <1>1, <1>4, <2>1
<1>6. QED
  BY <1>5

\* The only Start tile is the first and the last.
LEMMA SpawnKeeps == ASSUME DrawnInv, SpawnLevel PROVE DrawnInv'
<1> DEFINE starts == TilesOf(Start)
<1>1. /\ level' = level /\ engine' = engine /\ board' \in {"placed", "crashed"}
      /\ root' = IF starts = {} THEN Elsewhere
                 ELSE VectorToMatrix(level, CHOOSE k \in starts :
                                              \A j \in starts : j <= k)
      /\ UNCHANGED <<place, angle, flying, tapped, taps>>
  BY DEF SpawnLevel, vars
<1>2. level \in Levels /\ IsLevel(level)
  BY LevelsAssumption DEF DrawnInv, TypeOK
<1>3. /\ level.Width \in Nat \ {0}
      /\ \A k \in starts : k \in Nat
      /\ starts = {k \in DOMAIN level.Tiles : level.Tiles[k] = Start}
  BY <1>2 DEF IsLevel, TilesOf, TileIndices
<1> HIDE DEF starts
<1>4. root' \in Squares \cup {Elsewhere}
  <2>1. CASE starts = {}
    BY <1>1, <2>1
  <2>2. CASE starts # {}
    <3>1. PICK last \in starts : \A j \in starts : j <= last
      <4>1. level.Height \in Nat \ {0} /\ starts \subseteq 0 .. level.Width * level.Height - 1
        BY <1>2, <1>3 DEF IsLevel, TileIndices
      <4>2. level.Width * level.Height \in Nat
        BY <1>3, <4>1
      <4>3. QED
        BY <2>2, <4>1, <4>2, HasLast
    <3>2. (CHOOSE k \in starts : \A j \in starts : j <= k) \in starts
      BY <3>1
    <3> DEFINE k == CHOOSE k \in starts : \A j \in starts : j <= k
    <3>3. k \in Nat /\ k \div level.Width \in Int /\ k % level.Width \in Int
      <4>1. k \in Nat
        BY <1>3, <3>2
      <4> HIDE DEF k
      <4>2. QED
        BY <1>3, <4>1
    <3>4. root' = VectorToMatrix(level, k)
      BY <1>1, <2>2
    <3> HIDE DEF k
    <3>5. QED
      BY <3>3, <3>4 DEF VectorToMatrix, Squares
  <2>3. QED
    BY <2>1, <2>2
<1>5. DrawnTypeOK'
  BY <1>1, <1>4 DEF DrawnInv, DrawnTypeOK
<1>6. Follows' /\ TypeOK'
  BY <1>1 DEF DrawnInv, Follows, TypeOK
<1>7. RootOnStart'
  <2> SUFFICES ASSUME Cardinality(starts) = 1 PROVE root' = StartPosition(level)
    BY <1>1 DEF RootOnStart, TilesOf, starts
  <2>1. IsFiniteSet(starts)
    <3>1. starts \subseteq 0 .. level.Width * level.Height - 1
      BY <1>2, <1>3 DEF IsLevel, TileIndices
    <3>2. level.Width * level.Height \in Int
      BY <1>2 DEF IsLevel
    <3>3. IsFiniteSet(0 .. level.Width * level.Height - 1)
      BY <3>2, FS_Interval
    <3>4. QED
      BY <3>1, <3>3, FS_Subset
  <2>2. PICK k : starts = {k}
    BY <2>1, FS_Singleton
  <2>3. k \in Nat /\ k <= k
    BY <1>3, <2>2
  <2>4. (CHOOSE l \in starts : \A j \in starts : j <= l) = k
    BY <2>2, <2>3
  <2>5. (CHOOSE l \in starts : \A j \in starts : l <= j) = k
    BY <2>2, <2>3
  <2>6. StartPosition(level) = VectorToMatrix(level, k)
    BY <1>3, <2>2, <2>5 DEF StartPosition
  <2>7. QED
    BY <1>1, <2>2, <2>4, <2>6
<1>8. QED
  BY <1>5, <1>6, <1>7 DEF DrawnInv

LEMMA TapKeeps == ASSUME DrawnInv, Tap PROVE DrawnInv'
<1>1. /\ UNCHANGED <<vars, board, root, angle>>
      /\ place' \in {Flown(place, angle, "moveFront"), Lost}
      /\ flying' = TRUE /\ tapped' = TRUE /\ taps' = taps + 1
  BY DEF Tap
<1>2. place' \in Offsets \cup {Lost}
  <2>1. angle \in 0 .. 3 /\ place \in Offsets \cup {Lost}
    BY DEF DrawnInv, DrawnTypeOK
  <2>2. simdWorldFront(angle).x \in Int /\ simdWorldFront(angle).z \in Int
    <3>1. angle = 0 \/ angle = 1 \/ angle = 2 \/ angle = 3
      BY <2>1
    <3>2. QED
      BY <3>1 DEF simdWorldFront
  <2>3. QED
    BY <1>1, <2>1, <2>2 DEF Flown, Offsets
<1>3. QED
  BY <1>1, <1>2
     DEF DrawnInv, TypeOK, DrawnTypeOK, Follows, RootOnStart, TilesOf, vars

LEMMA LandKeeps == DrawnInv /\ (Land \/ UNCHANGED drawnVars) => DrawnInv'
BY DEF Land, drawnVars, vars, scene, DrawnInv, TypeOK, DrawnTypeOK, Follows,
       RootOnStart, TilesOf

-----------------------------------------------------------------------------

\* The ship the user sees is on the tile the engine has it on, and points the
\* same way (ShipOnItsTile), for every level and whatever is run and tapped.
THEOREM ShipFollowsEngine == DrawnSpec => [](DrawnTypeOK /\ ShipOnItsTile)
<1>1. DrawnInit => DrawnInv
  BY DrawnInitKeeps
<1>2. DrawnInv /\ [DrawnNext]_drawnVars => DrawnInv'
  BY ExecuteKeeps, StopKeeps, ResetKeeps, SpawnKeeps, TapKeeps, LandKeeps
     DEF DrawnNext
<1>3. DrawnInv => DrawnTypeOK /\ ShipOnItsTile
  <2> SUFFICES ASSUME DrawnInv, board = "placed", ~tapped,
                      Cardinality(TilesOf(Start)) = 1
               PROVE  /\ place # Lost
                      /\ engine.pos = [x |-> root.x + place.z, y |-> root.y + place.x]
                      /\ dxdy[engine.dir + 1] = [x |-> - simdWorldFront(angle).z,
                                                 y |-> - simdWorldFront(angle).x]
    BY DEF DrawnInv, ShipOnItsTile
  <2>1. /\ place \in Offsets /\ angle = Heading(engine.dir)
        /\ engine.pos.x = StartPosition(level).x + place.z
        /\ engine.pos.y = StartPosition(level).y + place.x
        /\ root = StartPosition(level)
        /\ engine \in EngineType
    BY DEF DrawnInv, Follows, RootOnStart, TypeOK
  <2>2. engine.pos = [x |-> engine.pos.x, y |-> engine.pos.y] /\ engine.dir \in 0 .. 3
    BY <2>1 DEF EngineType, Directions
  <2>3. dxdy[engine.dir + 1] = [x |-> - simdWorldFront(angle).z,
                                y |-> - simdWorldFront(angle).x]
    <3>1. \/ engine.dir = 0 /\ angle = 2
          \/ engine.dir = 1 /\ angle = 1
          \/ engine.dir = 2 /\ angle = 0
          \/ engine.dir = 3 /\ angle = 3
      <4>1. angle = IF engine.dir = 3 THEN 3 ELSE 2 - engine.dir
        BY <2>1 DEF Heading
      <4>2. engine.dir = 0 \/ engine.dir = 1 \/ engine.dir = 2 \/ engine.dir = 3
        BY <2>2
      <4>3. QED
        BY <4>1, <4>2
    <3>2. QED
      BY <3>1 DEF dxdy, simdWorldFront
  <2>4. QED
    BY <2>1, <2>2, <2>3, DrawnAssumption
<1>4. QED
  BY <1>1, <1>2, <1>3, PTL DEF DrawnSpec

\* A game with its scene is a game of the engine: it has every property that is
\* proved of EngineAR.
THEOREM DrawnImplementsEngine == DrawnSpec => Spec
<1>1. DrawnInit => Init
  BY DEF DrawnInit
<1>2. [DrawnNext]_drawnVars => [Next]_vars
  <2> SUFFICES ASSUME [DrawnNext]_drawnVars PROVE [Next]_vars
    OBVIOUS
  <2>1. ASSUME NEW i \in Instructions, DrawnExecute(i) PROVE Next
    BY <2>1 DEF DrawnExecute, Next
  <2>2. CASE DrawnStop \/ DrawnReset
    BY <2>2 DEF DrawnStop, DrawnReset, Next
  <2>3. CASE SpawnLevel \/ Tap \/ Land \/ UNCHANGED drawnVars
    BY <2>3 DEF SpawnLevel, Tap, Land, drawnVars, vars
  <2>4. QED
    BY <2>1, <2>2, <2>3 DEF DrawnNext
<1>3. QED
  BY <1>1, <1>2, PTL DEF DrawnSpec, Spec

=============================================================================
