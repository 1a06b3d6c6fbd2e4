-------------------------- MODULE GameSessionProofs --------------------------
(***************************************************************************)
(* Theorems about GameSession, for every set of levels and messages and    *)
(* any number of messages.                                                 *)
(***************************************************************************)
EXTENDS GameSession, EngineOpsProofs, FiniteSetTheorems

-----------------------------------------------------------------------------
(* The steps of the engine operations.                                     *)

\* A translation changes the position only.
LEMMA ShiftedFields ==
  ASSUME NEW e \in EngineType, NEW op \in Moves
  PROVE  /\ Shifted(e, op) \in EngineType
         /\ Shifted(e, op).valid = e.valid
         /\ Shifted(e, op).done = e.done
<1>1. PICK p \in [x: Int, y: Int] : Shifted(e, op) = AtPosition(e, p)
  BY ShiftedMoves
<1>2. AtPosition(e, p) \in EngineType /\ AtPosition(e, p).valid = e.valid
        /\ AtPosition(e, p).done = e.done
  BY EngineFields DEF AtPosition, EngineType
<1>3. QED
  BY <1>1, <1>2

\* A turn changes the direction only.
LEMMA TurnedFields ==
  ASSUME NEW e \in EngineType, NEW op \in Turns
  PROVE  /\ Turned(e, op) \in EngineType
         /\ Turned(e, op).pos = e.pos
         /\ Turned(e, op).valid = e.valid
         /\ Turned(e, op).done = e.done
<1>1. PICK d \in Directions : Turned(e, op) = Facing(e, d)
  BY TurnedTurns
<1>2. Facing(e, d) \in EngineType /\ Facing(e, d).pos = e.pos
        /\ Facing(e, d).valid = e.valid /\ Facing(e, d).done = e.done
  BY EngineFields DEF Facing, EngineType
<1>3. QED
  BY <1>1, <1>2

\* The checks never move the ship; they end a game exactly when they announce
\* its outcome, and leave a ship that plays on on the route.
LEMMA CheckedFields ==
  ASSUME NEW lvl, NEW e \in EngineType
  PROVE  /\ Checked(lvl, e).pos = e.pos /\ Checked(lvl, e).dir = e.dir
         /\ Verdict(lvl, e) \in {"none", "invalid", "done"}
         /\ Verdict(lvl, e) = "none" => Checked(lvl, e) = e
         /\ Verdict(lvl, e) = "invalid" => ~Checked(lvl, e).valid
                                           /\ Checked(lvl, e).done = e.done
         /\ Verdict(lvl, e) = "done" => Checked(lvl, e).done
         /\ KeepsToRoute(lvl, Checked(lvl, e))
         /\ ~e.done => WonOnFinish(lvl, Checked(lvl, e))
<1>1. CASE LeftTheRoute(lvl, e)
  BY <1>1 DEF Checked, Verdict, EngineType, KeepsToRoute, WonOnFinish
<1>2. CASE ~LeftTheRoute(lvl, e)
  BY <1>2 DEF Checked, Verdict, EngineType, KeepsToRoute, WonOnFinish,
              LeftTheRoute
<1>3. QED
  BY <1>1, <1>2

\* Stopping clears valid only.
LEMMA StoppedFields ==
  ASSUME NEW e \in EngineType
  PROVE  /\ Stopped(e) \in EngineType /\ ~Stopped(e).valid
         /\ Stopped(e).pos = e.pos /\ Stopped(e).dir = e.dir
         /\ Stopped(e).done = e.done
BY DEF Stopped, EngineType

-----------------------------------------------------------------------------
(* Types.                                                                  *)

LEMMA CommandFacts ==
  ASSUME NEW p \in Commands
  PROVE  /\ p.n \in 1 .. MaxMessages /\ p.m \in Messages /\ p # Idle
         /\ p.m.block \in Blocks
         /\ p.m.op \in Moves \/ p.m.op \in Turns \/ p.m.op = "run"
         /\ p.m.colour \in {NoCondition} \cup 0 .. 5
BY SessionAssumption DEF Commands, Posted, Blocks, Operations, Idle

\* The instructions thread holds a command exactly when it is not idle.
LEMMA InHand ==
  ASSUME TypeOK, pc # "idle"
  PROVE  crt \in Commands
BY DEF TypeOK

LEMMA QueueFacts ==
  ASSUME NEW S, NEW q \in Seq(S), q # <<>>
  PROVE  Head(q) \in S /\ Tail(q) \in Seq(S)
OBVIOUS

\* What the steps of the instructions thread leave for the next one: the kind
\* of command in hand, a game that is neither won nor announced while the ship
\* moves, and a test of the colour that still holds.
Control ==
  /\ pc = "inner" => crt.m.op # "run" /\ ConditionHolds(level, engine, crt.m)
  /\ pc \in {"move", "check"} => crt.m.op \in Moves /\ ~engine.done

\* The type invariant of the session.
THEOREM SessionTypeCorrect == SafetySpec => [](TypeOK /\ Control)
<1>1. Init => TypeOK /\ Control
  BY SessionAssumption, NewEngineType DEF Init, TypeOK, Control
<1>2. TypeOK /\ Control /\ [Next]_vars => TypeOK' /\ Control'
  <2> SUFFICES ASSUME TypeOK, Control, [Next]_vars PROVE TypeOK' /\ Control'
    OBVIOUS
  <2>0. IsLevel(level) /\ engine \in EngineType
    BY SessionAssumption DEF TypeOK
  <2>1. ASSUME NEW m \in Messages, Receive(m) PROVE TypeOK' /\ Control'
    <3>1. sent + 1 \in 1 .. MaxMessages /\ sent' = sent + 1
      BY <2>1, SessionAssumption DEF Receive, TypeOK
    <3> DEFINE p == [n |-> sent + 1, m |-> m]
    <3>2. p \in Posted /\ (m.op \in Operations => p \in Commands)
      BY <3>1 DEF Posted, Commands
    <3>3. instructions' \in Seq(Commands)
      BY <2>1, <3>2 DEF Receive, TypeOK
    <3>4. events' \in Seq(Posted)
      BY <2>1, <3>2 DEF Receive, TypeOK
    <3>5. QED
      BY <2>1, <3>1, <3>3, <3>4, SessionAssumption
         DEF Receive, TypeOK, Control, uiVars, history
  <2>2. CASE RunMainQueue
    <3>1. Head(mainQueue) \in [block: Blocks, on: BOOLEAN]
          /\ mainQueue' \in Seq([block: Blocks, on: BOOLEAN])
      BY <2>2, QueueFacts DEF RunMainQueue, TypeOK
    <3>2. glowing' \subseteq Blocks
      BY <2>2, <3>1 DEF RunMainQueue, TypeOK
    <3>3. QED
      BY <2>2, <3>1, <3>2 DEF RunMainQueue, TypeOK, Control, threadVars, history
  <2>3. CASE DismissPopup
    BY <2>3 DEF DismissPopup, TypeOK, Control, threadVars, uiVars, history
  <2>4. CASE NavigateBack
    BY <2>4 DEF NavigateBack, TypeOK, Control, threadVars, uiVars, history
  <2>5. CASE HandleEvent
    <3>1. AheadOfAnyRun \subseteq 1 .. MaxMessages
      <4>1. pc # "idle" => crt.n \in 1 .. MaxMessages
        BY InHand, CommandFacts
      <4>2. \A k \in DOMAIN instructions : instructions[k].n \in 1 .. MaxMessages
        BY CommandFacts DEF TypeOK
      <4>3. QED
        BY <4>1, <4>2 DEF AheadOfAnyRun
    <3>2. events' \in Seq(Posted)
      BY <2>5, QueueFacts DEF HandleEvent, TypeOK
    <3>3. /\ engine' \in EngineType /\ engine'.pos = engine.pos
          /\ engine'.done = engine.done
      BY <2>5, <2>0, StoppedFields DEF HandleEvent
    <3>4. cancelled' \subseteq 1 .. MaxMessages
      BY <2>5, <3>1 DEF HandleEvent, TypeOK
    <3>5. QED
      BY <2>5, <3>2, <3>3, <3>4
         DEF HandleEvent, TypeOK, Control, threadVars, uiVars, ConditionHolds
  <2>6. CASE SkipInstruction
    BY <2>6, QueueFacts DEF SkipInstruction, TypeOK, Control, uiVars, history
  <2>7. CASE TakeInstruction
    <3>1. crt' \in Commands /\ instructions' \in Seq(Commands)
      BY <2>7, QueueFacts DEF TakeInstruction, TypeOK
    <3>2. [block |-> crt'.m.block, on |-> TRUE] \in [block: Blocks, on: BOOLEAN]
          /\ crt' # Idle
      BY <3>1, CommandFacts
    <3>3. mainQueue' \in Seq([block: Blocks, on: BOOLEAN])
      BY <2>7, <3>2 DEF TakeInstruction, TypeOK
    <3>4. QED
      BY <2>7, <3>1, <3>2, <3>3 DEF TakeInstruction, TypeOK, Control, history
  <2>8. CASE ResetLevel
    <3>1. crt \in Commands /\ crt.n \in 1 .. MaxMessages /\ crt # Idle
      BY <2>8, InHand, CommandFacts DEF ResetLevel
    <3>2. QED
      BY <2>8, <2>0, <3>1, ResetType DEF ResetLevel, TypeOK, Control, uiVars
  <2>9. CASE Refused
    <3>1. crt # Idle
      BY <2>9, InHand, CommandFacts DEF Refused
    <3>2. QED
      BY <2>9, <3>1 DEF Refused, TypeOK, Control, uiVars, history
  <2>10. CASE TestColour
    <3>1. crt # Idle
      BY <2>10, InHand, CommandFacts DEF TestColour
    <3>2. QED
      BY <2>10, <3>1 DEF TestColour, TypeOK, Control, uiVars, history
  <2>11. CASE BeginOperation
    <3>1. crt \in Commands /\ crt # Idle
          /\ (crt.m.op \in Moves \/ crt.m.op \in Turns \/ crt.m.op = "run")
      BY <2>11, InHand, CommandFacts DEF BeginOperation
    <3>2. crt.m.op # "run"
      BY <2>11 DEF BeginOperation, Control
    <3>3. CASE crt.m.op \in Turns
      <4>1. engine' \in EngineType /\ pc' = "sleep"
        BY <2>11, <2>0, <3>3, TurnedFields DEF BeginOperation
      <4>2. QED
        BY <2>11, <3>1, <4>1 DEF BeginOperation, TypeOK, Control, uiVars, history
    <3>4. CASE crt.m.op \notin Turns
      BY <2>11, <3>1, <3>2, <3>4
         DEF BeginOperation, TypeOK, Control, uiVars, history, IsFinished
    <3>5. QED
      BY <3>3, <3>4
  <2>12. CASE Move
    <3>1. crt # Idle
      BY <2>12, InHand, CommandFacts DEF Move
    <3>2. crt.m.op \in Moves /\ ~engine.done
      BY <2>12 DEF Move, Control
    <3>3. engine' \in EngineType /\ ~engine'.done
      BY <2>12, <2>0, <3>2, ShiftedFields DEF Move
    <3>4. QED
      BY <2>12, <3>1, <3>2, <3>3 DEF Move, TypeOK, Control, uiVars, history
  <2>13. CASE Check
    <3>1. crt # Idle
      BY <2>13, InHand, CommandFacts DEF Check
    <3>2. engine' \in EngineType
      BY <2>13, <2>0, CheckedType DEF Check
    <3>3. outcomes' \in Seq({"invalid", "done"})
          /\ screen' \in {"game", "sorry", "congrats", "menu"}
      <4>1. Verdict(level, engine) \in {"none", "invalid", "done"}
        BY <2>0, CheckedFields
      <4>2. CASE Verdict(level, engine) = "none"
        BY <2>13, <4>2 DEF Check, TypeOK
      <4>3. CASE Verdict(level, engine) # "none"
        <5>1. outcomes' = Append(outcomes, Verdict(level, engine))
          BY <2>13, <4>3 DEF Check
        <5>2. screen' = screen \/ screen' \in {"sorry", "congrats"}
          BY <2>13, <4>3 DEF Check
        <5>3. QED
          BY <4>1, <4>3, <5>1, <5>2 DEF TypeOK
      <4>4. QED
        BY <4>2, <4>3
    <3>4. QED
      BY <2>13, <3>1, <3>2, <3>3 DEF Check, TypeOK, Control, uiVars
  <2>14. CASE EndInstruction
    <3>1. [block |-> crt.m.block, on |-> FALSE] \in [block: Blocks, on: BOOLEAN]
      BY <2>14, InHand, CommandFacts DEF EndInstruction
    <3>2. mainQueue' \in Seq([block: Blocks, on: BOOLEAN])
      BY <2>14, <3>1 DEF EndInstruction, TypeOK
    <3>3. QED
      BY <2>14, <3>2 DEF EndInstruction, TypeOK, Control, history
  <2>15. CASE UNCHANGED vars
    BY <2>15 DEF vars, TypeOK, Control, threadVars, uiVars, history
  <2>16. QED
    BY <2>1, <2>2, <2>3, <2>4, <2>5, <2>6, <2>7, <2>8, <2>9, <2>10, <2>11,
       <2>12, <2>13, <2>14, <2>15 DEF Next, InstructionsThread
<1>3. QED
  BY <1>1, <1>2, PTL DEF SafetySpec

-----------------------------------------------------------------------------
(* Outcomes.                                                               *)

\* Nothing is announced while the ship moves.
NotYetAnnounced == pc \in {"move", "check"} => outcomes = <<>>

RouteInv == PlaysOnRoute /\ OneOutcomePerRun /\ NotYetAnnounced

\* The ship of a game that goes on is on the route outside the window between
\* its move and the check, and a run has at most one outcome, which is true.
THEOREM SessionOutcomes == SafetySpec => [](PlaysOnRoute /\ OneOutcomePerRun)
<1> USE DEF RouteInv
<1>1. Init => RouteInv
  BY SessionAssumption, NewEngineRoute
     DEF Init, PlaysOnRoute, OneOutcomePerRun, NotYetAnnounced
<1>2. TypeOK /\ Control /\ RouteInv /\ [Next]_vars => RouteInv'
  <2> SUFFICES ASSUME TypeOK, Control, RouteInv, [Next]_vars PROVE RouteInv'
    OBVIOUS
  <2> USE DEF PlaysOnRoute, OneOutcomePerRun, NotYetAnnounced
  <2>0. IsLevel(level) /\ engine \in EngineType
    BY SessionAssumption DEF TypeOK
  <2>1. ASSUME UNCHANGED <<level, engine, pc, outcomes>> PROVE RouteInv'
    BY <2>1
  <2>2. ASSUME UNCHANGED <<level, engine, outcomes>>, pc # "check",
               pc' \notin {"move", "check"}
        PROVE  RouteInv'
    BY <2>2
  <2>3. CASE HandleEvent
    <3>1. CASE engine' = engine
      BY <2>3, <3>1, <2>1 DEF HandleEvent, threadVars
    <3>2. CASE engine' = Stopped(engine)
      <4>1. KeepsToRoute(level, engine') /\ WonOnFinish(level, engine')
        BY <2>0, <3>2, StoppedRoute
      <4>2. ~engine'.valid /\ engine'.done = engine.done
        BY <2>0, <3>2, StoppedFields
      <4>3. UNCHANGED <<level, pc, outcomes>>
        BY <2>3 DEF HandleEvent, threadVars
      <4>4. QED
        BY <4>1, <4>2, <4>3 DEF IsFinished
    <3>3. QED
      BY <2>3, <3>1, <3>2 DEF HandleEvent
  <2>4. CASE ResetLevel
    <3>1. KeepsToRoute(level, engine') /\ WonOnFinish(level, engine')
      BY <2>0, <2>4, ResetRoute DEF ResetLevel
    <3>2. QED
      BY <2>4, <3>1 DEF ResetLevel
  <2>5. CASE BeginOperation
    <3>1. ~IsFinished(engine) /\ outcomes = <<>> /\ UNCHANGED <<level, outcomes>>
      BY <2>5 DEF BeginOperation, history
    <3>2. CASE crt.m.op \in Turns
      <4>1. /\ engine'.pos = engine.pos /\ engine'.valid = engine.valid
            /\ engine'.done = engine.done
        BY <2>0, <2>5, <3>2, TurnedFields DEF BeginOperation
      <4>2. QED
        BY <2>5, <3>1, <3>2, <4>1
           DEF BeginOperation, KeepsToRoute, WonOnFinish, IsFinished
    <3>3. CASE crt.m.op \notin Turns
      BY <2>5, <3>1, <3>3 DEF BeginOperation
    <3>4. QED
      BY <3>2, <3>3
  <2>6. CASE Move
    <3>1. ~engine'.done
      BY <2>0, <2>6, ShiftedFields DEF Move, Control
    <3>2. QED
      BY <2>6, <3>1 DEF Move, WonOnFinish, history
  <2>7. CASE Check
    <3>1. ~engine.done /\ outcomes = <<>> /\ engine' = Checked(level, engine)
          /\ level' = level /\ pc' = "sleep"
      BY <2>7 DEF Check, Control
    <3>2. KeepsToRoute(level, engine') /\ WonOnFinish(level, engine')
      BY <2>0, <3>1, CheckedFields
    <3>3. CASE Verdict(level, engine) = "none"
      BY <2>7, <3>1, <3>2, <3>3 DEF Check
    <3>4. CASE Verdict(level, engine) = "invalid"
      <4>1. outcomes' = <<"invalid">> /\ ~engine'.valid
        BY <2>0, <2>7, <3>1, <3>4, CheckedFields DEF Check
      <4>2. outcomes' # <<"done">> /\ Len(outcomes') = 1
        BY <4>1
      <4>3. QED
        BY <3>1, <3>2, <4>1, <4>2 DEF IsFinished
    <3>5. CASE Verdict(level, engine) = "done"
      <4>1. outcomes' = <<"done">> /\ engine'.done
        BY <2>0, <2>7, <3>1, <3>5, CheckedFields DEF Check
      <4>2. Len(outcomes') = 1
        BY <4>1
      <4>3. QED
        BY <3>1, <3>2, <4>1, <4>2 DEF IsFinished
    <3>6. QED
      BY <2>0, <3>3, <3>4, <3>5, CheckedFields
  <2>8. ASSUME NEW m \in Messages, Receive(m) PROVE RouteInv'
    BY <2>1, <2>8 DEF Receive, history
  <2>9. CASE RunMainQueue \/ DismissPopup \/ NavigateBack \/ SkipInstruction
             \/ UNCHANGED vars
    BY <2>1, <2>9 DEF RunMainQueue, DismissPopup, NavigateBack, SkipInstruction,
                      vars, threadVars, history
  <2>10. CASE TakeInstruction \/ Refused \/ TestColour \/ EndInstruction
    BY <2>2, <2>10 DEF TakeInstruction, Refused, TestColour, EndInstruction,
                       history
  <2>11. QED
    BY <2>3, <2>4, <2>5, <2>6, <2>7, <2>8, <2>9, <2>10
       DEF Next, InstructionsThread
<1>3. QED
  BY <1>1, <1>2, SessionTypeCorrect, PTL DEF SafetySpec

-----------------------------------------------------------------------------
(* The session implements EngineAR.                                        *)

EngineRecord(p, d, v, w, ev) ==
  [pos |-> p, dir |-> d, valid |-> v, done |-> w, event |-> ev]

LEMMA RecordUpdates ==
  ASSUME NEW e \in EngineType, NEW p
  PROVE  AtPosition(Stopped(e), p) = Stopped(AtPosition(e, p))
<1>1. PICK a, d, w, ev : \E v : e = EngineRecord(a, d, v, w, ev)
  BY DEF EngineType, EngineRecord
<1>2. \A v : AtPosition(EngineRecord(a, d, v, w, ev), p)
               = EngineRecord(p, d, v, w, ev)
  BY DEF AtPosition, EngineRecord
<1>3. \A v, c : Stopped(EngineRecord(c, d, v, w, ev))
                = EngineRecord(c, d, FALSE, w, ev)
  <2> SUFFICES ASSUME NEW v, NEW c
               PROVE  Stopped(EngineRecord(c, d, v, w, ev))
                        = EngineRecord(c, d, FALSE, w, ev)
    OBVIOUS
  <2> DEFINE r == EngineRecord(c, d, v, w, ev)
  <2>1. Stopped(r) = [k \in DOMAIN r |-> IF k = "valid" THEN FALSE ELSE r[k]]
    BY DEF Stopped, EngineRecord
  <2>2. DOMAIN r = {"pos", "dir", "valid", "done", "event"}
    BY DEF EngineRecord
  <2>3. QED
    BY <2>1, <2>2 DEF EngineRecord
<1>4. QED
  BY <1>1, <1>2, <1>3

\* A stop commutes with the rest of an operation.
LEMMA StopCommutes ==
  ASSUME NEW lvl, NEW e \in EngineType, NEW op \in Moves
  PROVE  /\ Checked(lvl, Stopped(e)) = Stopped(Checked(lvl, e))
         /\ Shifted(Stopped(e), op) = Stopped(Shifted(e, op))
<1>1. Verdict(lvl, Stopped(e)) = Verdict(lvl, e)
  BY StoppedFields DEF Verdict, LeftTheRoute
<1>2. Checked(lvl, Stopped(e)) = Stopped(Checked(lvl, e))
  BY <1>1 DEF Checked, Stopped, EngineType
<1> DEFINE step(f) == dxdy[f.dir + 1]
           sign == IF op = "moveFront" THEN 1 ELSE -1
           q(f) == [x |-> f.pos.x + sign * step(f).x,
                    y |-> f.pos.y + sign * step(f).y]
<1>3. \A f : Shifted(f, op) = AtPosition(f, q(f))
  BY DEF Shifted, AtPosition
<1>4. q(Stopped(e)) = q(e)
  BY StoppedFields
<1> HIDE DEF q
<1>5. AtPosition(Stopped(e), q(e)) = Stopped(AtPosition(e, q(e)))
  BY RecordUpdates
<1>6. Shifted(Stopped(e), op) = Stopped(Shifted(e, op))
  BY <1>3, <1>4, <1>5
<1>7. QED
  BY <1>2, <1>6

\* The instance of EngineAR computes with the same operations.
LEMMA SameOperations ==
  ASSUME NEW lvl, NEW e, NEW i
  PROVE  /\ Engine!NewEngine(lvl) = NewEngine(lvl)
         /\ Engine!Stopped(e) = Stopped(e)
         /\ Engine!Reset(lvl, e) = Reset(lvl, e)
         /\ Engine!Perform(lvl, e, i) = Perform(lvl, e, i)
         /\ Engine!Instructions = Instructions
<1>1. Engine!StartPosition(lvl) = StartPosition(lvl)
  BY DEF Engine!StartPosition, StartPosition, Engine!VectorToMatrix,
         VectorToMatrix, Engine!Start, Start
<1>2. /\ Engine!NewEngine(lvl) = NewEngine(lvl)
      /\ Engine!Reset(lvl, e) = Reset(lvl, e)
  BY <1>1 DEF Engine!NewEngine, NewEngine, Engine!Reset, Reset
<1>3. Engine!Stopped(e) = Stopped(e)
  BY DEF Engine!Stopped, Stopped
<1>4. \A p : Engine!TileAt(lvl, p) = TileAt(lvl, p)
  BY DEF Engine!TileAt, TileAt, Engine!MatrixToVector, MatrixToVector
<1>5. \A p : Engine!InBounds(lvl, p) <=> InBounds(lvl, p)
  BY DEF Engine!InBounds, InBounds
<1>6. \A f : Engine!Verdict(lvl, f) = Verdict(lvl, f)
  BY <1>4, <1>5 DEF Engine!Verdict, Verdict, Engine!LeftTheRoute, LeftTheRoute,
                    Engine!Free, Free, Engine!Finish, Finish
<1>7. \A f : Engine!Checked(lvl, f) = Checked(lvl, f)
  <2> SUFFICES ASSUME NEW f PROVE Engine!Checked(lvl, f) = Checked(lvl, f)
    OBVIOUS
  <2>1. Engine!Verdict(lvl, f) = Verdict(lvl, f)
    BY <1>6
  <2>2. QED
    BY <2>1, Zenon DEF Engine!Checked, Checked
<1>8. /\ Engine!Shifted(e, i.op) = Shifted(e, i.op)
      /\ Engine!Turned(e, i.op) = Turned(e, i.op)
  BY DEF Engine!Shifted, Shifted, Engine!Turned, Turned, Engine!dxdy, dxdy
<1>9. Engine!ConditionHolds(lvl, e, i) <=> ConditionHolds(lvl, e, i)
  BY <1>4 DEF Engine!ConditionHolds, ConditionHolds, Engine!NoCondition, NoCondition
<1>10. Engine!IsFinished(e) <=> IsFinished(e)
  BY DEF Engine!IsFinished, IsFinished
<1>11. Engine!Perform(lvl, e, i) = Perform(lvl, e, i)
  BY <1>7, <1>8, <1>9, <1>10 DEF Engine!Perform, Perform, Engine!Moves, Moves
<1>12. Engine!Instructions = Instructions
  BY DEF Engine!Instructions, Instructions, Engine!Moves, Moves, Engine!Turns,
         Turns, Engine!NoCondition, NoCondition
<1>13. QED
  BY <1>2, <1>3, <1>11, <1>12

\* Cutting the operations where the other thread can come between, and two
\* streams drained by two threads, add nothing to what the engine can do.
THEOREM SessionImplementsEngine == SafetySpec => ImplementsEngine
<1>1. Init => Engine!Init
  BY SameOperations DEF Init, Engine!Init, Settled
<1>2. TypeOK /\ Control /\ TypeOK' /\ [Next]_vars => [Engine!Next]_(Engine!vars)
  <2> SUFFICES ASSUME TypeOK, Control, TypeOK', [Next]_vars
               PROVE  [Engine!Next]_(Engine!vars)
    OBVIOUS
  <2>0. IsLevel(level) /\ engine \in EngineType
    BY SessionAssumption DEF TypeOK
  <2>1. ASSUME level' = level, Settled' = Settled
        PROVE  [Engine!Next]_(Engine!vars)
    BY <2>1 DEF Engine!vars
  <2>2. ASSUME UNCHANGED <<level, engine, pc, crt>>
        PROVE  [Engine!Next]_(Engine!vars)
    BY <2>1, <2>2 DEF Settled
  <2>3. ASSUME UNCHANGED <<level, engine>>, pc \notin {"move", "check"},
               pc' \notin {"move", "check"}
        PROVE  [Engine!Next]_(Engine!vars)
    BY <2>1, <2>3 DEF Settled
  <2>4. CASE HandleEvent
    <3>1. UNCHANGED <<level, pc, crt>>
      BY <2>4 DEF HandleEvent, threadVars
    <3>2. CASE engine' = engine
      BY <2>2, <3>1, <3>2
    <3>3. CASE engine' = Stopped(engine)
      <4>1. CASE pc = "move"
        <5>1. crt.m.op \in Moves /\ Shifted(engine, crt.m.op) \in EngineType
          BY <2>0, <4>1, ShiftedFields DEF Control
        <5>2. Settled' = Checked(level, Shifted(Stopped(engine), crt.m.op))
          BY <3>1, <3>3, <4>1 DEF Settled
        <5>3. Settled = Checked(level, Shifted(engine, crt.m.op))
          BY <4>1 DEF Settled
        <5>4. Settled' = Stopped(Settled)
          BY <2>0, <5>1, <5>2, <5>3, StopCommutes
        <5>5. QED
          BY <3>1, <5>4, SameOperations DEF Engine!Next, Engine!StopLevel
      <4>2. CASE pc = "check"
        <5>1. Settled' = Stopped(Settled)
          BY <2>0, <3>1, <3>3, <4>2, StopCommutes DEF Settled, Moves
        <5>2. QED
          BY <3>1, <5>1, SameOperations DEF Engine!Next, Engine!StopLevel
      <4>3. CASE pc \notin {"move", "check"}
        <5>1. Settled' = Stopped(Settled)
          BY <3>1, <3>3, <4>3 DEF Settled
        <5>2. QED
          BY <3>1, <5>1, SameOperations DEF Engine!Next, Engine!StopLevel
      <4>4. QED
        BY <4>1, <4>2, <4>3
    <3>4. QED
      BY <2>4, <3>2, <3>3 DEF HandleEvent
  <2>5. CASE ResetLevel
    BY <2>5, SameOperations
       DEF ResetLevel, Settled, Engine!Next, Engine!ResetLevel
  <2>6. CASE BeginOperation
    <3> DEFINE i == [op |-> crt.m.op, colour |-> crt.m.colour]
    <3>1. crt.m.op # "run" /\ crt.m.op \in Moves \cup Turns
          /\ crt.m.colour \in {NoCondition} \cup 0 .. 5
      <4>1. crt \in Commands
        BY <2>6, InHand DEF BeginOperation
      <4>2. QED
        BY <2>6, <4>1, CommandFacts DEF BeginOperation, Control
    <3>2. i \in Instructions /\ i.op = crt.m.op /\ i.colour = crt.m.colour
      BY <3>1 DEF Instructions
    <3>3. ConditionHolds(level, engine, i) /\ ~IsFinished(engine)
      BY <2>6, <3>2 DEF BeginOperation, Control, ConditionHolds
    <3> HIDE DEF i
    <3>4. Settled = engine /\ UNCHANGED <<level, crt>>
      BY <2>6 DEF BeginOperation, Settled
    <3>5. Settled' = Perform(level, engine, i)
      <4>1. CASE crt.m.op \in Turns
        <5>1. Settled' = Turned(engine, crt.m.op)
          BY <2>6, <4>1 DEF BeginOperation, Settled
        <5>2. QED
          BY <3>2, <3>3, <4>1, <5>1 DEF Perform, Turns, Moves
      <4>2. CASE crt.m.op \notin Turns
        <5>1. pc' = "move" /\ engine' = engine
          BY <2>6, <4>2 DEF BeginOperation
        <5>2. Settled' = Checked(level, Shifted(engine, crt.m.op))
          BY <3>4, <5>1 DEF Settled
        <5>3. QED
          BY <3>1, <3>2, <3>3, <4>2, <5>2 DEF Perform
      <4>3. QED
        BY <4>1, <4>2
    <3>6. Engine!Execute(i)
      BY <3>4, <3>5, SameOperations DEF Engine!Execute
    <3>7. QED
      BY <3>2, <3>6, SameOperations DEF Engine!Next
  <2>7. CASE Move
    BY <2>1, <2>7 DEF Move, Settled
  <2>8. CASE Check
    BY <2>1, <2>8 DEF Check, Settled
  <2>9. ASSUME NEW m \in Messages, Receive(m) PROVE [Engine!Next]_(Engine!vars)
    BY <2>2, <2>9 DEF Receive
  <2>10. CASE RunMainQueue \/ DismissPopup \/ NavigateBack \/ UNCHANGED vars
    BY <2>2, <2>10 DEF RunMainQueue, DismissPopup, NavigateBack, vars, threadVars
  <2>11. CASE SkipInstruction \/ TakeInstruction \/ Refused \/ TestColour
              \/ EndInstruction
    BY <2>3, <2>11 DEF SkipInstruction, TakeInstruction, Refused, TestColour,
                       EndInstruction
  <2>12. QED
    BY <2>4, <2>5, <2>6, <2>7, <2>8, <2>9, <2>10, <2>11
       DEF Next, InstructionsThread
<1>3. QED
  BY <1>1, <1>2, SessionTypeCorrect, PTL DEF SafetySpec, ImplementsEngine, Engine!Spec

-----------------------------------------------------------------------------
(* Cancellation.                                                           *)

\* Instructions wait in the order they were posted in, behind the one in hand.
InOrder ==
  /\ \A k \in DOMAIN instructions : instructions[k].n <= sent
  /\ \A j, k \in DOMAIN instructions : j < k => instructions[j].n < instructions[k].n
  /\ pc # "idle" => /\ crt.n <= sent
                    /\ \A k \in DOMAIN instructions : crt.n < instructions[k].n
  /\ \A n \in cancelled : n <= sent

\* Whatever has been cancelled and is still to come is ahead of any run, and
\* finds the engine stopped; what moves or turns has not been cancelled.
CancelledAhead ==
  /\ \A k \in DOMAIN instructions :
       instructions[k].n \in cancelled =>
         /\ ~engine.valid
         /\ \A l \in 1 .. k : instructions[l].m.op # "run"
         /\ pc \in {"guard", "inner"} => crt.m.op # "run"
  /\ pc \in {"guard", "inner"} /\ crt.n \in cancelled =>
         ~engine.valid /\ crt.m.op # "run"
  /\ pc \in {"move", "check"} => crt.n \notin cancelled

CancelInv == InOrder /\ CancelledAhead

LEMMA TailFacts ==
  ASSUME NEW S, NEW q \in Seq(S), q # <<>>
  PROVE  /\ 1 \in DOMAIN q /\ Head(q) = q[1]
         /\ \A k \in DOMAIN Tail(q) : /\ k \in Nat \ {0} /\ k + 1 \in DOMAIN q
                                      /\ Tail(q)[k] = q[k + 1]
OBVIOUS

\* A step that takes the head of the queue, with or without holding it.
LEMMA TakeCancelled ==
  ASSUME TypeOK, CancelInv, pc = "idle", instructions # <<>>,
         instructions' = Tail(instructions),
         UNCHANGED <<engine, sent, cancelled>>,
         \/ pc' = "idle"
         \/ pc' = "guard" /\ crt' = Head(instructions)
  PROVE  CancelInv'
<1> DEFINE q == instructions
<1>1. /\ 1 \in DOMAIN q /\ Head(q) = q[1]
      /\ \A k \in DOMAIN Tail(q) : /\ k \in Nat \ {0} /\ k + 1 \in DOMAIN q
                                   /\ Tail(q)[k] = q[k + 1]
  BY TailFacts DEF TypeOK
<1>2. \A k \in DOMAIN q : q[k].n \in Nat
  BY CommandFacts DEF TypeOK
<1>3. InOrder'
  BY <1>1, <1>2 DEF CancelInv, InOrder
<1>4. ASSUME NEW k \in DOMAIN Tail(q), Tail(q)[k].n \in cancelled
      PROVE  /\ ~engine.valid
             /\ q[1].m.op # "run"
             /\ \A l \in 1 .. k : Tail(q)[l].m.op # "run"
  <2>1. /\ k + 1 \in DOMAIN q /\ q[k + 1].n \in cancelled
    BY <1>1, <1>4
  <2>2. ~engine.valid /\ \A l \in 1 .. k + 1 : q[l].m.op # "run"
    BY <2>1 DEF CancelInv, CancelledAhead
  <2>3. \A l \in 1 .. k : l \in DOMAIN Tail(q) /\ l + 1 \in 1 .. k + 1
    BY <1>1 DEF TypeOK
  <2>4. QED
    BY <1>1, <2>2, <2>3
<1>5. q[1].n \in cancelled => ~engine.valid /\ q[1].m.op # "run"
  BY <1>1 DEF CancelInv, CancelledAhead
<1>6. CancelledAhead'
  BY <1>1, <1>4, <1>5 DEF CancelledAhead
<1>7. QED
  BY <1>3, <1>6 DEF CancelInv

\* A stop adds to what is cancelled exactly what is ahead of any run.
LEMMA StopCancelled ==
  ASSUME TypeOK, CancelInv, HandleEvent
  PROVE  CancelInv'
<1>1. UNCHANGED <<sent, instructions, pc, crt>>
  BY DEF HandleEvent, threadVars
<1>2. CASE UNCHANGED <<engine, cancelled>>
  BY <1>1, <1>2 DEF CancelInv, InOrder, CancelledAhead
<1>3. CASE engine' = Stopped(engine) /\ cancelled' = cancelled \cup AheadOfAnyRun
  <2>1. ~engine'.valid
    BY <1>3, StoppedFields DEF TypeOK
  <2>2. \A j, k \in DOMAIN instructions :
          /\ instructions[k].n \in Nat /\ j \in Nat /\ k \in Nat
          /\ instructions[j].n = instructions[k].n => j = k
    <3>1. \A k \in DOMAIN instructions : instructions[k].n \in Nat /\ k \in Nat
      BY CommandFacts DEF TypeOK
    <3>2. QED
      BY <3>1 DEF CancelInv, InOrder
  <2>3. pc # "idle" => /\ crt.n \in Nat
                       /\ \A k \in DOMAIN instructions : crt.n # instructions[k].n
    BY <2>2, InHand, CommandFacts DEF CancelInv, InOrder
  <2>4. \A n \in AheadOfAnyRun :
          \/ pc \in {"guard", "inner"} /\ crt.m.op # "run" /\ n = crt.n
          \/ \E k \in DOMAIN instructions :
               /\ n = instructions[k].n
               /\ \A l \in 1 .. k : instructions[l].m.op # "run"
               /\ pc \in {"guard", "inner"} => crt.m.op # "run"
    BY DEF AheadOfAnyRun
  <2>5. InOrder'
    BY <1>1, <1>3, <2>4 DEF CancelInv, InOrder
  <2>6. CancelledAhead'
    <3>1. ASSUME NEW k \in DOMAIN instructions, instructions[k].n \in cancelled'
          PROVE  /\ \A l \in 1 .. k : instructions[l].m.op # "run"
                 /\ pc \in {"guard", "inner"} => crt.m.op # "run"
      <4>1. CASE instructions[k].n \in cancelled
        BY <4>1 DEF CancelInv, CancelledAhead
      <4>2. CASE instructions[k].n \in AheadOfAnyRun
        BY <2>2, <2>3, <2>4, <4>2
      <4>3. QED
        BY <1>3, <3>1, <4>1, <4>2
    <3>2. pc \in {"guard", "inner"} /\ crt.n \in cancelled' => crt.m.op # "run"
      BY <1>3, <2>3, <2>4 DEF CancelInv, CancelledAhead
    <3>3. pc \in {"move", "check"} => crt.n \notin cancelled'
      BY <1>3, <2>3, <2>4 DEF CancelInv, CancelledAhead
    <3>4. QED
      BY <1>1, <2>1, <3>1, <3>2, <3>3 DEF CancelledAhead
  <2>7. QED
    BY <2>5, <2>6 DEF CancelInv
<1>4. QED
  BY <1>2, <1>3 DEF HandleEvent

\* No step of the session disturbs this order, and a step that moves or turns the
\* ship is one of an instruction that is not cancelled.
LEMMA CancelStep ==
  ASSUME TypeOK, Control, CancelInv, [Next]_vars
  PROVE  /\ CancelInv'
         /\ engine.pos # engine'.pos \/ engine.dir # engine'.dir
              => crt.n \notin cancelled
<1> DEFINE A == engine.pos # engine'.pos \/ engine.dir # engine'.dir
                  => crt.n \notin cancelled
<1>0. engine \in EngineType
  BY DEF TypeOK
<1>1. ASSUME UNCHANGED <<engine, sent, instructions, pc, crt, cancelled>>
      PROVE  CancelInv' /\ A
  BY <1>1 DEF CancelInv, InOrder, CancelledAhead
<1>2. ASSUME pc # "idle", pc' \in {"sleep", "idle"},
             UNCHANGED <<sent, instructions, cancelled>>,
             pc' # "idle" => crt' = crt,
             engine'.valid = engine.valid
      PROVE  CancelInv'
  BY <1>2 DEF CancelInv, InOrder, CancelledAhead
<1>3. ASSUME NEW m \in Messages, Receive(m) PROVE CancelInv' /\ A
  <2>1. /\ sent \in Nat /\ sent' = sent + 1
        /\ UNCHANGED <<engine, pc, crt, cancelled>>
    BY <1>3 DEF Receive, history, TypeOK
  <2> DEFINE p == [n |-> sent + 1, m |-> m]
  <2>2. \A k \in DOMAIN instructions : instructions[k].n \in Nat
    BY CommandFacts DEF TypeOK
  <2>3. pc # "idle" => crt.n \in Nat
    BY InHand, CommandFacts
  <2>4. \A n \in cancelled : n \in Nat
    BY DEF TypeOK
  <2>5. CASE instructions' = instructions
    BY <2>1, <2>2, <2>3, <2>4, <2>5 DEF CancelInv, InOrder, CancelledAhead
  <2>6. CASE instructions' = Append(instructions, p)
    <3>1. /\ DOMAIN instructions' = DOMAIN instructions \cup {Len(instructions) + 1}
          /\ DOMAIN instructions = 1 .. Len(instructions) /\ Len(instructions) \in Nat
          /\ \A k \in DOMAIN instructions : instructions'[k] = instructions[k]
          /\ instructions'[Len(instructions) + 1].n = sent + 1
      BY <2>6 DEF TypeOK
    <3>2. sent + 1 \notin cancelled
      BY <2>1, <2>4 DEF CancelInv, InOrder
    <3>3. InOrder'
      BY <2>1, <2>2, <2>3, <2>4, <3>1 DEF CancelInv, InOrder
    <3>4. CancelledAhead'
      BY <2>1, <3>1, <3>2 DEF CancelInv, CancelledAhead
    <3>5. QED
      BY <2>1, <3>3, <3>4 DEF CancelInv
  <2>7. QED
    BY <1>3, <2>5, <2>6 DEF Receive
<1>4. CASE HandleEvent
  <2>1. UNCHANGED engine \/ engine' = Stopped(engine)
    BY <1>4 DEF HandleEvent
  <2>2. QED
    BY <1>0, <1>4, <2>1, StopCancelled, StoppedFields
<1>5. CASE SkipInstruction
  BY <1>5, TakeCancelled DEF SkipInstruction, history
<1>6. CASE TakeInstruction
  BY <1>6, TakeCancelled DEF TakeInstruction, history
<1>7. CASE ResetLevel
  <2>1. crt.n \notin cancelled
        /\ \A k \in DOMAIN instructions : instructions[k].n \notin cancelled
    BY <1>7 DEF ResetLevel, CancelInv, CancelledAhead
  <2>2. QED
    BY <1>7, <2>1 DEF ResetLevel, CancelInv, InOrder, CancelledAhead
<1>8. CASE Refused
  BY <1>2, <1>8 DEF Refused, history
<1>9. CASE TestColour
  <2>1. CASE pc' = "sleep"
    BY <1>2, <1>9, <2>1 DEF TestColour, history
  <2>2. CASE pc' = "inner"
    BY <1>9, <2>2 DEF TestColour, history, CancelInv, InOrder, CancelledAhead
  <2>3. QED
    BY <1>9, <2>1, <2>2 DEF TestColour
<1>10. CASE BeginOperation
  <2>1. crt.n \notin cancelled
    BY <1>10 DEF BeginOperation, CancelInv, CancelledAhead, IsFinished
  <2>2. CASE crt.m.op \in Turns
    <3>1. engine'.valid = engine.valid /\ pc # "idle" /\ pc' = "sleep"
      BY <1>0, <1>10, <2>2, TurnedFields DEF BeginOperation
    <3>2. QED
      BY <1>2, <1>10, <2>1, <3>1 DEF BeginOperation, history
  <2>3. CASE crt.m.op \notin Turns
    BY <1>10, <2>1, <2>3
       DEF BeginOperation, history, CancelInv, InOrder, CancelledAhead
  <2>4. QED
    BY <2>2, <2>3
<1>11. CASE Move
  <2>1. crt.n \notin cancelled
    BY <1>11 DEF Move, CancelInv, CancelledAhead
  <2>2. engine'.valid = engine.valid
    BY <1>0, <1>11, ShiftedFields DEF Move, Control
  <2>3. QED
    BY <1>11, <2>1, <2>2 DEF Move, history, CancelInv, InOrder, CancelledAhead
<1>12. CASE Check
  <2>1. engine'.pos = engine.pos /\ engine'.dir = engine.dir
    BY <1>0, <1>12, CheckedFields DEF Check
  <2>2. ~engine.valid => ~engine'.valid
    BY <1>0, <1>12 DEF Check, Checked, EngineType
  <2>3. QED
    BY <1>12, <2>1, <2>2 DEF Check, CancelInv, InOrder, CancelledAhead
<1>13. CASE EndInstruction
  BY <1>2, <1>13 DEF EndInstruction, history
<1>14. CASE RunMainQueue \/ DismissPopup \/ NavigateBack \/ UNCHANGED vars
  BY <1>1, <1>14 DEF RunMainQueue, DismissPopup, NavigateBack, vars, threadVars,
                     history
<1>15. QED
  BY <1>3, <1>4, <1>5, <1>6, <1>7, <1>8, <1>9, <1>10, <1>11, <1>12, <1>13,
     <1>14 DEF Next, InstructionsThread

LEMMA CancelStart == Init => CancelInv
BY DEF Init, CancelInv, InOrder, CancelledAhead

\* The order is kept for ever.
THEOREM SessionInOrder == SafetySpec => []CancelInv
<1>1. TypeOK /\ Control /\ CancelInv /\ [Next]_vars => CancelInv'
  BY CancelStep
<1>2. QED
  BY <1>1, CancelStart, SessionTypeCorrect, PTL DEF SafetySpec

\* However the two threads and the main thread interleave, no instruction that a
\* stop found waiting ahead of the next run moves or turns the ship.
THEOREM SessionStopCancels == SafetySpec => StopCancels
<1> DEFINE Turning == engine.pos # engine'.pos \/ engine.dir # engine'.dir
<1>1. TypeOK /\ Control /\ CancelInv /\ [Next]_vars
        => (Turning => crt.n \notin cancelled)
  BY CancelStep
<1>2. [Turning => crt.n \notin cancelled]_vars
        <=> [engine.pos # engine'.pos \/ engine.dir # engine'.dir
               => crt.n \notin cancelled]_vars
  OBVIOUS
<1>3. QED
  BY <1>1, <1>2, SessionInOrder, SessionTypeCorrect, PTL DEF SafetySpec, StopCancels

-----------------------------------------------------------------------------
(* Glowing.                                                                *)

\* The blocks that glow while b is told to.
Shown(b) == {b} \ {NoBlock, Undefined}

LastCall == mainQueue[Len(mainQueue)]

\* The main queue switches one block on and the same block off, again and again;
\* the page is where the first call in the queue expects it to be, and the last
\* call in it is the instructions thread's last.
QueueAlternates ==
  \A k \in 1 .. Len(mainQueue) - 1 :
    /\ mainQueue[k].on <=> ~mainQueue[k + 1].on
    /\ mainQueue[k].on => mainQueue[k + 1].block = mainQueue[k].block

GlowInv ==
  /\ mainQueue = <<>> => glowing = Shown(crt.m.block)
  /\ mainQueue # <<>> =>
       /\ mainQueue[1].on => glowing = {}
       /\ ~mainQueue[1].on => glowing = Shown(mainQueue[1].block)
       /\ LastCall.on <=> pc # "idle"
       /\ LastCall.on => LastCall.block = crt.m.block
  /\ QueueAlternates

\* A queue and what is left of it without its head.
LEMMA RestFacts ==
  ASSUME NEW S, NEW q \in Seq(S), q # <<>>
  PROVE  /\ Len(q) \in Nat \ {0} /\ Head(q) = q[1]
         /\ Len(Tail(q)) = Len(q) - 1
         /\ \A k \in 1 .. Len(q) - 1 : Tail(q)[k] = q[k + 1]
         /\ (Tail(q) = <<>>) <=> (Len(q) = 1)
         /\ Len(q) # 1 => 1 \in 1 .. Len(q) - 1 /\ q[1] \in S /\ q[2] \in S
<1>1. Len(q) \in Nat \ {0} /\ Head(q) = q[1]
  OBVIOUS
<1>2. /\ Tail(q) \in Seq(S) /\ Len(Tail(q)) = Len(q) - 1
      /\ \A k \in 1 .. Len(q) - 1 : Tail(q)[k] = q[k + 1]
  OBVIOUS
<1>3. (Tail(q) = <<>>) <=> (Len(q) = 1)
  BY <1>1, <1>2
<1>4. Len(q) # 1 => 1 \in 1 .. Len(q) - 1 /\ q[1] \in S /\ q[2] \in S
  <2>1. SUFFICES ASSUME Len(q) # 1
                 PROVE  1 \in 1 .. Len(q) - 1 /\ q[1] \in S /\ q[2] \in S
    OBVIOUS
  <2>2. \A n \in Nat \ {0} :
          n # 1 => 1 \in 1 .. n - 1 /\ 1 \in 1 .. n /\ 2 \in 1 .. n
    OBVIOUS
  <2>3. 1 \in 1 .. Len(q) - 1 /\ 1 \in 1 .. Len(q) /\ 2 \in 1 .. Len(q)
    BY <1>1, <2>1, <2>2, Zenon
  <2>4. \A k \in 1 .. Len(q) : q[k] \in S
    OBVIOUS
  <2>5. QED
    BY <2>3, <2>4, Zenon
<1>5. QED
  BY <1>1, <1>2, <1>3, <1>4, Zenon

\* A call of the main queue.
LEMMA CallKeepsGlow ==
  ASSUME TypeOK, GlowInv, RunMainQueue
  PROVE  GlowInv'
<1> DEFINE q == mainQueue
<1>0. /\ q \in Seq([block: Blocks, on: BOOLEAN]) /\ q # <<>> /\ q' = Tail(q)
      /\ UNCHANGED <<pc, crt>>
  BY DEF TypeOK, RunMainQueue, threadVars
<1>1. /\ Len(q) \in Nat \ {0} /\ Head(q) = q[1]
      /\ Len(q') = Len(q) - 1
      /\ \A k \in 1 .. Len(q) - 1 : q'[k] = q[k + 1]
      /\ (q' = <<>>) <=> (Len(q) = 1)
      /\ Len(q) # 1 => 1 \in 1 .. Len(q) - 1
  BY <1>0, RestFacts, Zenon
<1>2. glowing' = IF q[1].on THEN Shown(q[1].block) ELSE {}
  BY <1>0, <1>1 DEF RunMainQueue, GlowInv, Shown
<1>3. QueueAlternates'
  BY <1>0, <1>1 DEF GlowInv, QueueAlternates
<1>4. CASE Len(q) = 1
  <2>1. q[1] = LastCall /\ q' = <<>>
    BY <1>1, <1>4 DEF LastCall
  <2>2. pc = "idle" => Shown(crt.m.block) = {}
    BY DEF TypeOK, Idle, Shown
  <2>3. glowing' = Shown(crt.m.block)
    BY <1>0, <1>2, <2>1, <2>2 DEF GlowInv
  <2>4. QED
    BY <1>0, <1>3, <2>1, <2>3 DEF GlowInv, Shown
<1>5. CASE Len(q) # 1
  <2>1. LastCall' = LastCall /\ q' # <<>> /\ q'[1] = q[2]
    BY <1>0, <1>1, <1>5 DEF LastCall
  <2>2. 1 \in 1 .. Len(q) - 1
    BY <1>1, <1>5
  <2>3. /\ q[1].on <=> ~q[1 + 1].on
        /\ q[1].on => q[1 + 1].block = q[1].block
    BY <2>2 DEF GlowInv, QueueAlternates
  <2>4. q[1] \in [block: Blocks, on: BOOLEAN] /\ q[2] \in [block: Blocks, on: BOOLEAN]
    BY <1>0, <1>5, RestFacts, Zenon
  <2>5. /\ q[1].on <=> ~q[2].on
        /\ q[1].on => q[2].block = q[1].block
    BY <2>3
  <2>6. QED
    BY <1>0, <1>2, <1>3, <2>1, <2>4, <2>5 DEF GlowInv, Shown
<1>6. QED
  BY <1>4, <1>5

\* The instructions thread posts a call.
LEMMA PostKeepsGlow ==
  ASSUME TypeOK, TypeOK', GlowInv, NEW b, NEW on \in BOOLEAN,
         mainQueue' = Append(mainQueue, [block |-> b, on |-> on]),
         glowing' = glowing,
         on <=> pc = "idle", on <=> pc' # "idle",
         on => crt'.m.block = b, ~on => crt.m.block = b
  PROVE  GlowInv'
<1> DEFINE q == mainQueue
           new == [block |-> b, on |-> on]
<1>0. q \in Seq([block: Blocks, on: BOOLEAN]) /\ Len(q) \in Nat
  BY DEF TypeOK
<1>1. /\ Len(q') = Len(q) + 1 /\ q'[Len(q) + 1] = new
      /\ \A k \in 1 .. Len(q) : q'[k] = q[k]
      /\ q' # <<>> /\ LastCall' = new
  BY <1>0 DEF LastCall
<1>2. CASE q = <<>>
  <2>1. Len(q) = 0 /\ q'[1] = new /\ QueueAlternates'
    BY <1>0, <1>1, <1>2 DEF QueueAlternates
  <2>2. pc = "idle" => Shown(crt.m.block) = {}
    BY DEF TypeOK, Idle, Shown
  <2>3. on => glowing = {}
    BY <1>2, <2>2 DEF GlowInv
  <2>4. ~on => glowing = Shown(b)
    BY <1>2 DEF GlowInv
  <2>5. QED
    BY <1>1, <2>1, <2>3, <2>4 DEF GlowInv, Shown
<1>3. CASE q # <<>>
  <2>1. Len(q) > 0 /\ q'[1] = q[1] /\ q[Len(q)] = LastCall
    BY <1>0, <1>1, <1>3 DEF LastCall
  <2>2. LastCall.on <=> ~on
    BY <1>3 DEF GlowInv
  <2>3. LastCall.on => LastCall.block = b
    BY <1>3, <2>2 DEF GlowInv
  <2>4. ASSUME NEW k \in 1 .. Len(q') - 1
        PROVE  /\ q'[k].on <=> ~q'[k + 1].on
               /\ q'[k].on => q'[k + 1].block = q'[k].block
    <3>1. CASE k = Len(q)
      BY <1>0, <1>1, <2>1, <2>2, <2>3, <3>1
    <3>2. CASE k # Len(q)
      BY <1>0, <1>1, <2>4, <3>2 DEF GlowInv, QueueAlternates
    <3>3. QED
      BY <3>1, <3>2
  <2>5. QueueAlternates'
    BY <2>4 DEF QueueAlternates
  <2>6. QED
    BY <1>1, <1>3, <2>1, <2>5 DEF GlowInv, Shown
<1>4. QED
  BY <1>2, <1>3

\* The page glows at most one block, the one whose instruction the thread is in
\* once the main queue has caught up.
THEOREM SessionGlow == SafetySpec => []GlowTracksInstruction
<1>1. Init => GlowInv
  BY DEF Init, GlowInv, QueueAlternates, Idle, Shown
<1>2. TypeOK /\ TypeOK' /\ GlowInv /\ [Next]_vars => GlowInv'
  <2> SUFFICES ASSUME TypeOK, TypeOK', GlowInv, [Next]_vars PROVE GlowInv'
    OBVIOUS
  <2>1. ASSUME UNCHANGED <<mainQueue, glowing, crt>>, pc # "idle" <=> pc' # "idle"
        PROVE  GlowInv'
    BY <2>1 DEF GlowInv, QueueAlternates, LastCall
  <2>2. CASE RunMainQueue
    BY <2>2, CallKeepsGlow
  <2>3. CASE TakeInstruction
    BY <2>3, PostKeepsGlow DEF TakeInstruction
  <2>4. CASE EndInstruction
    BY <2>4, PostKeepsGlow DEF EndInstruction
  <2>5. CASE ResetLevel \/ Refused \/ TestColour \/ BeginOperation \/ Move \/ Check
    BY <2>1, <2>5 DEF ResetLevel, Refused, TestColour, BeginOperation, Move, Check,
                      uiVars
  <2>6. CASE \/ \E m \in Messages : Receive(m)
             \/ HandleEvent \/ SkipInstruction
             \/ DismissPopup \/ NavigateBack \/ UNCHANGED vars
    BY <2>1, <2>6 DEF Receive, HandleEvent, SkipInstruction, DismissPopup,
                      NavigateBack, vars, uiVars, threadVars
  <2>7. QED
    BY <2>2, <2>3, <2>4, <2>5, <2>6 DEF Next, InstructionsThread
<1>3. TypeOK /\ GlowInv => GlowTracksInstruction
  <2> SUFFICES ASSUME TypeOK, GlowInv PROVE GlowTracksInstruction
    OBVIOUS
  <2>0. glowing = {} \/ \E b : glowing = Shown(b)
    BY DEF GlowInv
  <2>1. \E b : glowing = {} \/ glowing = {b}
    <3>1. ASSUME NEW b PROVE Shown(b) = {} \/ Shown(b) = {b}
      BY DEF Shown
    <3>2. QED
      BY <2>0, <3>1
  <2>2. Cardinality(glowing) <= 1
    <3>1. CASE glowing = {}
      BY <3>1, FS_EmptySet
    <3>2. ASSUME NEW b, glowing = {b} PROVE Cardinality(glowing) <= 1
      <4>1. Cardinality({b}) = 1
        BY FS_Singleton
      <4>2. QED
        BY <3>2, <4>1
    <3>3. QED
      BY <2>1, <3>1, <3>2
  <2>3. QED
    BY <2>2 DEF GlowInv, GlowTracksInstruction, Shown
<1>4. QED
  BY <1>1, <1>2, <1>3, SessionTypeCorrect, PTL DEF SafetySpec

=============================================================================
