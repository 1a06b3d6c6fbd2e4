---------------------------- MODULE EngineOpsProofs ----------------------------
(***************************************************************************)
(* Lemmas about the operations of the engine, for every level: no bound on *)
(* the number of rows and columns, and every assignment of types to the    *)
(* tiles.                                                                  *)
(***************************************************************************)
EXTENDS EngineOps, WellFoundedInduction, TLAPS

-----------------------------------------------------------------------------
(* Arithmetic of the tile list.                                            *)

\* A set of naturals that is not empty has a least element: the first Start
\* tile that EngineAR.init looks for is there if any Start tile is.
LEMMA LeastNatural ==
  ASSUME NEW S \in SUBSET Nat, S # {}
  PROVE  \E k \in S : \A j \in S : k <= j
<1> DEFINE R == OpToRel(<, Nat)
<1>1. IsWellFoundedOn(R, Nat)
  BY NatLessThanWellFounded
<1>2. PICK k \in S : \A j \in S : <<j, k>> \notin R
  <2> HIDE DEF R
  <2> QED BY <1>1, WFMin
<1>3. \A j \in S : ~(j < k)
  BY <1>2 DEF OpToRel
<1>4. QED
  BY <1>3

\* vectorCoordinatesToMatrix takes an index of the list to a cell of the board.
LEMMA DivMod ==
  ASSUME NEW W \in Nat \ {0}, NEW H \in Nat \ {0}, NEW k \in 0 .. W * H - 1
  PROVE  k \div W \in 0 .. H-1 /\ k % W \in 0 .. W-1
<1> DEFINE q == k \div W
<1>1. k = W * q + (k % W) /\ k % W \in 0 .. W-1 /\ q \in Int
  OBVIOUS
<1>2. ASSUME q >= H PROVE FALSE
  <2>1. W * q >= W * H
    BY <1>1, <1>2
  <2>2. W * q \in Int /\ W * H \in Int
    BY <1>1
  <2> QED BY <2>1, <2>2, <1>1
<1>3. ASSUME q < 0 PROVE FALSE
  <2>1. W * q <= W * (-1)
    BY <1>1, <1>3
  <2> QED BY <2>1, <1>1
<1> QED BY <1>1, <1>2, <1>3

\* matrixCoordinatesToVector takes a cell of the board into the tile list.
LEMMA IndexInRange ==
  ASSUME NEW lvl, IsLevel(lvl), NEW p \in [x: Int, y: Int], InBounds(lvl, p)
  PROVE  TileAt(lvl, p) \in TypeOfTile
<1> DEFINE W == lvl.Width
           H == lvl.Height
<1>1. W \in Nat \ {0} /\ H \in Nat \ {0}
  BY DEF IsLevel
<1>2. p.x \in 0 .. H - 1 /\ p.y \in 0 .. W - 1
  BY <1>1 DEF InBounds
<1>3. p.x * W >= 0 /\ p.x * W \in Int
  BY <1>1, <1>2
<1>4. p.x * W <= (H - 1) * W
  BY <1>1, <1>2
<1>5. (H - 1) * W = W * H - W
  BY <1>1
<1>6. W * H \in Int
  BY <1>1
<1>7. p.x * W + p.y \in 0 .. (W * H - 1)
  <2> HIDE DEF W, H
  <2> QED BY <1>1, <1>2, <1>3, <1>4, <1>5, <1>6
<1>8. QED
  BY <1>7 DEF MatrixToVector, TileIndices, TileAt, IsLevel

LEMMA StartInBounds ==
  ASSUME NEW lvl, IsLevel(lvl)
  PROVE  /\ StartPosition(lvl) \in [x: Int, y: Int]
         /\ InBounds(lvl, StartPosition(lvl))
<1> DEFINE W == lvl.Width
           H == lvl.Height
           starts == {k \in DOMAIN lvl.Tiles : lvl.Tiles[k] = Start}
<1>1. W \in Nat \ {0} /\ H \in Nat \ {0}
  BY DEF IsLevel
<1>2. CASE starts = {}
  BY <1>1, <1>2 DEF StartPosition, InBounds
<1>3. CASE starts # {}
  <2>1. starts \subseteq 0 .. W * H - 1
    BY DEF IsLevel, TileIndices
  <2>2. \E k \in starts : \A j \in starts : k <= j
    <3>1. starts \in SUBSET Nat
      BY <2>1, <1>1
    <3> HIDE DEF starts
    <3>2. QED
      BY <3>1, <1>3, LeastNatural
  <2> DEFINE first == CHOOSE k \in starts : \A j \in starts : k <= j
  <2>3. first \in 0 .. W * H - 1
    BY <2>1, <2>2
  <2>4. StartPosition(lvl) = VectorToMatrix(lvl, first)
    BY <1>3 DEF StartPosition
  <2> HIDE DEF first
  <2>5. first \div W \in 0 .. H-1 /\ first % W \in 0 .. W-1
    <3> HIDE DEF W, H
    <3> QED BY <1>1, <2>3, DivMod
  <2>6. QED
    BY <1>1, <2>4, <2>5 DEF VectorToMatrix, InBounds
<1>4. QED
  BY <1>2, <1>3

-----------------------------------------------------------------------------
(* The engine.                                                             *)

\* One field of an engine given a new value, under names of their own: the
\* provers then need not look into the records.
AtPosition(e, p) == [e EXCEPT !.pos = p]
Facing(e, d) == [e EXCEPT !.dir = d]

\* An engine stays one when its fields are given values of their types.
LEMMA EngineFields ==
  ASSUME NEW e \in EngineType
  PROVE  /\ e.dir \in Directions /\ e.pos.x \in Int /\ e.pos.y \in Int
         /\ \A p \in [x: Int, y: Int] : AtPosition(e, p) \in EngineType
         /\ \A d \in Directions : Facing(e, d) \in EngineType
BY DEF EngineType, AtPosition, Facing

\* One cell up, down, left or right of another.
NextTo(p, q) == \/ p.x = q.x /\ q.y - p.y \in {-1, 1}
                \/ p.y = q.y /\ q.x - p.x \in {-1, 1}

\* A move changes nothing but the position, by one cell.
LEMMA ShiftedMoves ==
  ASSUME NEW e \in EngineType, NEW op \in Moves
  PROVE  \E p \in [x: Int, y: Int] :
            NextTo(e.pos, p) /\ Shifted(e, op) = AtPosition(e, p)
<1> DEFINE step == dxdy[e.dir + 1]
           sign == IF op = "moveFront" THEN 1 ELSE -1
           p == [x |-> e.pos.x + sign * step.x, y |-> e.pos.y + sign * step.y]
<1>1. \/ step.x = 0 /\ step.y \in {-1, 1}
      \/ step.y = 0 /\ step.x \in {-1, 1}
  <2> DEFINE d == e.dir
  <2>1. d \in Directions
    BY EngineFields
  <2> HIDE DEF d
  <2>2. \/ dxdy[d + 1].x = 0 /\ dxdy[d + 1].y \in {-1, 1}
        \/ dxdy[d + 1].y = 0 /\ dxdy[d + 1].x \in {-1, 1}
    BY <2>1 DEF dxdy, Directions
  <2>3. QED
    BY <2>2 DEF d
<1>2. p \in [x: Int, y: Int] /\ NextTo(e.pos, p)
  <2>1. e.pos.x \in Int /\ e.pos.y \in Int
    BY EngineFields
  <2>2. sign \in {-1, 1}
    OBVIOUS
  <2> HIDE DEF sign, step
  <2>3. \/ sign * step.x = 0 /\ sign * step.y \in {-1, 1}
        \/ sign * step.y = 0 /\ sign * step.x \in {-1, 1}
    BY <1>1, <2>2
  <2> DEFINE dx == sign * step.x
             dy == sign * step.y
  <2> HIDE DEF dx, dy
  <2>4. QED
    BY <2>1, <2>3 DEF NextTo, dx, dy
<1>3. Shifted(e, op) = AtPosition(e, p)
  BY DEF Shifted, AtPosition
<1> HIDE DEF p
<1>4. QED
  BY <1>2, <1>3

\* A turn changes nothing but the direction.
LEMMA TurnedTurns ==
  ASSUME NEW e \in EngineType, NEW op \in Turns
  PROVE  \E d \in Directions : Turned(e, op) = Facing(e, d)
<1>1. \A d \in Directions : /\ (d + 1) % 4 \in Directions
                            /\ d # 0 => d - 1 \in Directions
  BY DEF Directions
<1>2. 3 \in Directions
  BY DEF Directions
<1>3. CASE op = "turnRight"
  BY <1>1, <1>3, EngineFields DEF Turned, Facing
<1>4. CASE op # "turnRight" /\ e.dir = 0
  BY <1>2, <1>4, EngineFields DEF Turned, Facing
<1>5. CASE op # "turnRight" /\ e.dir # 0
  BY <1>1, <1>5, EngineFields DEF Turned, Facing
<1>6. QED
  BY <1>3, <1>4, <1>5

\* The check after a move changes nothing but the two flags and the event.
LEMMA CheckedType ==
  ASSUME NEW lvl, NEW e \in EngineType
  PROVE  Checked(lvl, e) \in EngineType
BY DEF Checked, Verdict, EngineType

\* An operation leaves the engine alone, moves and checks, or turns.
LEMMA PerformCases ==
  ASSUME NEW lvl, NEW e \in EngineType, NEW i \in Instructions
  PROVE  \/ Perform(lvl, e, i) = e
         \/ \E p \in [x: Int, y: Int] :
              /\ ~IsFinished(e)
              /\ NextTo(e.pos, p)
              /\ Perform(lvl, e, i) = Checked(lvl, AtPosition(e, p))
         \/ \E d \in Directions : Perform(lvl, e, i) = Facing(e, d)
<1>1. CASE IsFinished(e) \/ ~ConditionHolds(lvl, e, i)
  BY <1>1 DEF Perform
<1>2. CASE ~IsFinished(e) /\ ConditionHolds(lvl, e, i) /\ i.op \in Moves
  BY <1>2, ShiftedMoves DEF Perform
<1>3. CASE ~IsFinished(e) /\ ConditionHolds(lvl, e, i) /\ i.op \notin Moves
  <2>1. i.op \in Turns
    BY <1>3 DEF Instructions
  <2>2. QED
    BY <1>3, <2>1, TurnedTurns DEF Perform
<1>4. QED
  BY <1>1, <1>2, <1>3

LEMMA PerformType ==
  ASSUME NEW lvl, NEW e \in EngineType, NEW i \in Instructions
  PROVE  Perform(lvl, e, i) \in EngineType
<1> DEFINE f == Perform(lvl, e, i)
<1>1. CASE f = e
  BY <1>1
<1>2. ASSUME NEW p \in [x: Int, y: Int], f = Checked(lvl, AtPosition(e, p))
      PROVE  f \in EngineType
  BY <1>2, CheckedType, EngineFields
<1>3. ASSUME NEW d \in Directions, f = Facing(e, d)
      PROVE  f \in EngineType
  BY <1>3, EngineFields
<1>4. \/ f = e
      \/ \E p \in [x: Int, y: Int] :
           /\ ~IsFinished(e)
           /\ NextTo(e.pos, p)
           /\ f = Checked(lvl, AtPosition(e, p))
      \/ \E d \in Directions : f = Facing(e, d)
  BY PerformCases
<1> HIDE DEF f
<1>5. f \in EngineType
  BY <1>1, <1>2, <1>3, <1>4, Zenon
<1>6. QED
  BY <1>5 DEF f

\* A new engine, a reset one and a stopped one.
LEMMA NewEngineType ==
  ASSUME NEW lvl, IsLevel(lvl)
  PROVE  NewEngine(lvl) \in EngineType
<1> DEFINE p == StartPosition(lvl)
<1>1. p \in [x: Int, y: Int] /\ 0 \in Directions
  BY StartInBounds DEF Directions
<1> HIDE DEF p
<1>2. [pos |-> p, dir |-> 0, valid |-> TRUE, done |-> FALSE, event |-> ""]
        \in EngineType
  BY <1>1 DEF EngineType
<1>3. QED
  BY <1>2 DEF p, NewEngine

LEMMA ResetType ==
  ASSUME NEW lvl, IsLevel(lvl), NEW e \in EngineType
  PROVE  Reset(lvl, e) \in EngineType /\ Stopped(e) \in EngineType
<1> DEFINE p == StartPosition(lvl)
<1>1. p \in [x: Int, y: Int] /\ 0 \in Directions
  BY StartInBounds DEF Directions
<1> HIDE DEF p
<1>2. /\ [e EXCEPT !.pos = p, !.dir = 0, !.valid = TRUE, !.done = FALSE]
           \in EngineType
      /\ [e EXCEPT !.valid = FALSE] \in EngineType
  BY <1>1 DEF EngineType
<1>3. QED
  BY <1>2 DEF p, Reset, Stopped

\* A move decides by the tile it ends on, and it starts with done unset.
LEMMA PerformRoute ==
  ASSUME NEW lvl, NEW e \in EngineType, NEW i \in Instructions,
         KeepsToRoute(lvl, e), WonOnFinish(lvl, e)
  PROVE  /\ KeepsToRoute(lvl, Perform(lvl, e, i))
         /\ WonOnFinish(lvl, Perform(lvl, e, i))
<1> DEFINE f == Perform(lvl, e, i)
           Inv == KeepsToRoute(lvl, f) /\ WonOnFinish(lvl, f)
<1> USE DEF KeepsToRoute, WonOnFinish
<1>1. ASSUME f = e PROVE Inv
  BY <1>1
<1>2. ASSUME ~IsFinished(e), NEW p \in [x: Int, y: Int],
             f = Checked(lvl, AtPosition(e, p))
      PROVE  Inv
  <2> DEFINE g == AtPosition(e, p)
  <2>1. g \in EngineType /\ ~g.done /\ g.pos = p
    BY <1>2, EngineFields DEF IsFinished, EngineType, AtPosition
  <2> HIDE DEF g
  <2>2. KeepsToRoute(lvl, Checked(lvl, g)) /\ WonOnFinish(lvl, Checked(lvl, g))
    BY <2>1 DEF Checked, Verdict, LeftTheRoute, EngineType
  <2>3. QED
    BY <1>2, <2>2 DEF g
<1>3. ASSUME NEW d \in Directions, f = Facing(e, d)
      PROVE  Inv
  BY <1>3 DEF EngineType, Facing
<1>4. \/ f = e
      \/ \E p \in [x: Int, y: Int] :
           /\ ~IsFinished(e)
           /\ NextTo(e.pos, p)
           /\ f = Checked(lvl, AtPosition(e, p))
      \/ \E d \in Directions : f = Facing(e, d)
  BY PerformCases
<1> HIDE DEF f
<1>5. Inv
  <2> HIDE DEF Inv
  <2> QED BY <1>1, <1>2, <1>3, <1>4
<1>6. QED
  BY <1>5 DEF f

\* A new engine has its ship on the start, which is on the board.
LEMMA NewEngineRoute ==
  ASSUME NEW lvl, IsLevel(lvl)
  PROVE  KeepsToRoute(lvl, NewEngine(lvl)) /\ WonOnFinish(lvl, NewEngine(lvl))
<1> DEFINE p == StartPosition(lvl)
<1>1. p \in [x: Int, y: Int] /\ InBounds(lvl, p)
  BY StartInBounds
<1> DEFINE e == [pos |-> p, dir |-> 0, valid |-> TRUE, done |-> FALSE, event |-> ""]
<1>2. e.pos = p /\ ~e.done
  OBVIOUS
<1>3. e = NewEngine(lvl)
  BY DEF NewEngine
<1> HIDE DEF e, p
<1>4. KeepsToRoute(lvl, e) /\ WonOnFinish(lvl, e)
  BY <1>1, <1>2 DEF KeepsToRoute, WonOnFinish, p
<1>5. QED
  BY <1>3, <1>4

\* A reset puts the ship on the start, which is on the board.
LEMMA ResetRoute ==
  ASSUME NEW lvl, IsLevel(lvl), NEW e \in EngineType
  PROVE  /\ KeepsToRoute(lvl, Reset(lvl, e))
         /\ WonOnFinish(lvl, Reset(lvl, e))
BY StartInBounds DEF Reset, EngineType, KeepsToRoute, WonOnFinish

\* Stopping lets go of what is only promised of a game that is not over.
LEMMA StoppedRoute ==
  ASSUME NEW lvl, NEW e \in EngineType, WonOnFinish(lvl, e)
  PROVE  KeepsToRoute(lvl, Stopped(e)) /\ WonOnFinish(lvl, Stopped(e))
BY DEF Stopped, EngineType, KeepsToRoute, WonOnFinish

=============================================================================
