----------------------------- MODULE GameSession -----------------------------
(***************************************************************************)
(* One game screen: InstructionsViewController receives the messages of    *)
(* the ScratchBlocks page and passes them to two streams;                  *)
(* GameUISplitViewController consumes each stream on a background thread   *)
(* of its own, drives the engine from both, and posts the glowing of       *)
(* blocks to the main queue.                                               *)
(*                                                                         *)
(* The two threads share the engine without a lock.  The events thread     *)
(* only clears valid; everything else of the engine belongs to the         *)
(* instructions thread, so a step of that thread ends wherever it reads or *)
(* writes valid.                                                           *)
(***************************************************************************)
EXTENDS EngineOps, Sequences, FiniteSets

CONSTANTS
  Levels,
  Messages,     \* [op, colour, block] records the page may post
  MaxMessages   \* bound on the number of messages the page posts

Operations == Moves \cup Turns \cup {"run"}

ASSUME SessionAssumption ==
  /\ \A lvl \in Levels : IsLevel(lvl)
  /\ \A m \in Messages : /\ m.op \in Operations \cup {"stop"}
                         /\ m.colour \in {NoCondition} \cup 0 .. 5
                         /\ "block" \in DOMAIN m
  /\ MaxMessages \in Nat

VARIABLES
  level, engine,
  sent,          \* how many messages the page has posted; the number of the last
  instructions,  \* instructionsBehaviourSubject: [n, m] waiting for their thread
  events,        \* eventsBehaviourSubject: the same for the events thread
  pc, crt,       \* where the instructions thread is, and with which message
  mainQueue,     \* glowBlock calls posted to the main queue
  glowing,       \* the blocks that glow
  screen,        \* what the user sees: the game, a popup over it, or a menu
  outcomes,      \* engine events announced since the last reset
  runAt,         \* number of the run message that last reset the engine
  cancelled      \* numbers of the instructions a stop found ahead of any run

threadVars == <<instructions, pc, crt>>
uiVars     == <<mainQueue, glowing>>
history    == <<outcomes, runAt, cancelled>>
vars == <<level, engine, sent, events, threadVars, uiVars, screen, history>>

Idle == [n |-> 0, m |-> [op |-> "none", colour |-> NoCondition, block |-> NoBlock]]

Init ==
  /\ level \in Levels
  /\ engine = NewEngine(level)
  /\ sent = 0
  /\ instructions = <<>> /\ events = <<>>
  /\ pc = "idle" /\ crt = Idle
  /\ mainQueue = <<>> /\ glowing = {}
  /\ screen = "game"
  /\ outcomes = <<>> /\ runAt = 0 /\ cancelled = {}

-----------------------------------------------------------------------------
(* The main thread.                                                        *)

\* didReceive: an instruction goes to one stream, stop to the other, run to
\* both.  The stop button can only be reached when nothing covers the game.
Receive(m) ==
  /\ sent < MaxMessages
  /\ m.op = "stop" => screen = "game"
  /\ sent' = sent + 1
  /\ instructions' = IF m.op \in Operations
                     THEN Append(instructions, [n |-> sent + 1, m |-> m])
                     ELSE instructions
  /\ events' = IF m.op \in {"run", "stop"}
               THEN Append(events, [n |-> sent + 1, m |-> m])
               ELSE events
  /\ UNCHANGED <<level, engine, pc, crt, uiVars, screen, history>>

\* A closure of the main queue: glowBlock(block, on) in the page, which refuses
\* an id that is none of its blocks.
RunMainQueue ==
  /\ mainQueue # <<>>
  /\ LET call == Head(mainQueue)
     IN  glowing' = IF call.block \in {NoBlock, Undefined} THEN glowing
                    ELSE IF call.on THEN glowing \cup {call.block}
                    ELSE glowing \ {call.block}
  /\ mainQueue' = Tail(mainQueue)
  /\ UNCHANGED <<level, engine, sent, events, threadVars, screen, history>>

\* The user taps outside the popup.
DismissPopup ==
  /\ screen \in {"sorry", "congrats"}
  /\ screen' = "game"
  /\ UNCHANGED <<level, engine, sent, events, threadVars, uiVars, history>>

\* The back button presents the menu over the game, which stays behind it with
\* its two subscriptions.
NavigateBack ==
  /\ screen = "game"
  /\ screen' = "menu"
  /\ UNCHANGED <<level, engine, sent, events, threadVars, uiVars, history>>

-----------------------------------------------------------------------------
(* The events thread.                                                      *)

\* The instructions the thread would reach before the next run message: the one
\* whose guard it has not passed yet, and those that wait.
AheadOfAnyRun ==
  LET holds  == pc \in {"guard", "inner"}
      inHand == IF holds /\ crt.m.op # "run" THEN {crt.n} ELSE {}
      queued == {k \in DOMAIN instructions :
                   \A l \in 1 .. k : instructions[l].m.op # "run"}
  IN  inHand \cup (IF holds /\ crt.m.op = "run" THEN {}
                   ELSE {instructions[k].n : k \in queued})

\* Mutant: a run makes the game valid again as soon as its event is handled.
HandleEventReviving ==
  /\ events # <<>>
  /\ events' = Tail(events)
  /\ IF Head(events).m.op = "stop"
     THEN /\ engine' = Stopped(engine)
          /\ cancelled' = cancelled \cup AheadOfAnyRun
     ELSE engine' = [engine EXCEPT !.valid = TRUE] /\ UNCHANGED cancelled
  /\ UNCHANGED <<level, sent, threadVars, uiVars, screen, outcomes, runAt>>

HandleEvent ==
  /\ events # <<>>
  /\ events' = Tail(events)
  /\ IF Head(events).m.op = "stop"
     THEN /\ engine' = Stopped(engine)
          /\ cancelled' = cancelled \cup AheadOfAnyRun
     ELSE UNCHANGED <<engine, cancelled>>
  /\ UNCHANGED <<level, sent, threadVars, uiVars, screen, outcomes, runAt>>

-----------------------------------------------------------------------------
(* The instructions thread.                                                *)

\* "Finished -> fast"
SkipInstruction ==
  /\ pc = "idle" /\ instructions # <<>>
  /\ IsFinished(engine) /\ Head(instructions).m.op # "run"
  /\ instructions' = Tail(instructions)
  /\ UNCHANGED <<level, engine, sent, events, pc, crt, uiVars, screen, history>>

\* Mutant: run is no exception, so that a run after a finished game is never
\* taken.
TakeUnlessFinished ==
  /\ pc = "idle" /\ instructions # <<>>
  /\ ~IsFinished(engine)
  /\ crt' = Head(instructions)
  /\ instructions' = Tail(instructions)
  /\ mainQueue' = Append(mainQueue, [block |-> crt'.m.block, on |-> TRUE])
  /\ pc' = "guard"
  /\ UNCHANGED <<level, engine, sent, events, glowing, screen, history>>

TakeInstruction ==
  /\ pc = "idle" /\ instructions # <<>>
  /\ ~IsFinished(engine) \/ Head(instructions).m.op = "run"
  /\ crt' = Head(instructions)
  /\ instructions' = Tail(instructions)
  /\ mainQueue' = Append(mainQueue, [block |-> crt'.m.block, on |-> TRUE])
  /\ pc' = "guard"
  /\ UNCHANGED <<level, engine, sent, events, glowing, screen, history>>

ResetLevel ==
  /\ pc = "guard" /\ crt.m.op = "run"
  /\ engine' = Reset(level, engine)
  /\ outcomes' = <<>> /\ runAt' = crt.n
  /\ pc' = "sleep"
  /\ UNCHANGED <<level, sent, events, instructions, crt, uiVars, screen, cancelled>>

\* The guard at the top of every engine operation finds the game over.
Refused ==
  /\ pc \in {"guard", "inner"} /\ crt.m.op # "run"
  /\ IsFinished(engine)
  /\ pc' = "sleep"
  /\ UNCHANGED <<level, engine, sent, events, instructions, crt, uiVars, screen,
                 history>>

\* An If operation asks for the colour of the tile, and goes on to the
\* unconditional operation, which looks at the state of the game once more.
TestColour ==
  /\ pc = "guard" /\ crt.m.op # "run" /\ crt.m.colour # NoCondition
  /\ ~IsFinished(engine)
  /\ pc' = IF ConditionHolds(level, engine, crt.m) THEN "inner" ELSE "sleep"
  /\ UNCHANGED <<level, engine, sent, events, instructions, crt, uiVars, screen,
                 history>>

\* Mutant: the unconditional operations look whether the game is over, an If
\* relies on its own test.
BeginTrustingTest ==
  /\ \/ /\ pc = "guard" /\ crt.m.op # "run" /\ crt.m.colour = NoCondition
        /\ ~IsFinished(engine)
     \/ pc = "inner"
  /\ IF crt.m.op \in Turns
     THEN engine' = Turned(engine, crt.m.op) /\ pc' = "sleep"
     ELSE UNCHANGED engine /\ pc' = "move"
  /\ UNCHANGED <<level, sent, events, instructions, crt, uiVars, screen, history>>

\* turnLeft and turnRight, or the start of moveFront and moveBack.
BeginOperation ==
  /\ \/ pc = "guard" /\ crt.m.op # "run" /\ crt.m.colour = NoCondition
     \/ pc = "inner"
  /\ ~IsFinished(engine)
  /\ IF crt.m.op \in Turns
     THEN engine' = Turned(engine, crt.m.op) /\ pc' = "sleep"
     ELSE UNCHANGED engine /\ pc' = "move"
  /\ UNCHANGED <<level, sent, events, instructions, crt, uiVars, screen, history>>

Move ==
  /\ pc = "move"
  /\ engine' = Shifted(engine, crt.m.op)
  /\ pc' = "check"
  /\ UNCHANGED <<level, sent, events, instructions, crt, uiVars, screen, history>>

\* Mutant: the new tile is not checked when the game was stopped meanwhile.
CheckUnlessFinished ==
  /\ pc = "check"
  /\ LET verdict == IF IsFinished(engine) THEN "none" ELSE Verdict(level, engine)
     IN  /\ engine' = IF verdict = "none" THEN engine ELSE Checked(level, engine)
         /\ IF verdict = "none" THEN UNCHANGED <<outcomes, screen>>
            ELSE /\ outcomes' = Append(outcomes, verdict)
                 /\ screen' = IF screen # "game" THEN screen
                              ELSE IF verdict = "done" THEN "congrats" ELSE "sorry"
  /\ pc' = "sleep"
  /\ UNCHANGED <<level, sent, events, instructions, crt, uiVars, runAt, cancelled>>

\* checkIfInvalid and checkIfDone.  The event reaches its subscriber on this
\* same thread, which presents a popup; UIKit refuses to present a second
\* screen over the first.
Check ==
  /\ pc = "check"
  /\ LET verdict == Verdict(level, engine)
     IN  /\ engine' = Checked(level, engine)
         /\ IF verdict = "none" THEN UNCHANGED <<outcomes, screen>>
            ELSE /\ outcomes' = Append(outcomes, verdict)
                 /\ screen' = IF screen # "game" THEN screen
                              ELSE IF verdict = "done" THEN "congrats" ELSE "sorry"
  /\ pc' = "sleep"
  /\ UNCHANGED <<level, sent, events, instructions, crt, uiVars, runAt, cancelled>>

\* Mutant: the glowing is not switched off when the game is over.
EndLeavingGlow ==
  /\ pc = "sleep"
  /\ mainQueue' = IF IsFinished(engine) THEN mainQueue
                  ELSE Append(mainQueue, [block |-> crt.m.block, on |-> FALSE])
  /\ pc' = "idle" /\ crt' = Idle
  /\ UNCHANGED <<level, engine, sent, events, instructions, glowing, screen, history>>

\* After sleep(1).
EndInstruction ==
  /\ pc = "sleep"
  /\ mainQueue' = Append(mainQueue, [block |-> crt.m.block, on |-> FALSE])
  /\ pc' = "idle" /\ crt' = Idle
  /\ UNCHANGED <<level, engine, sent, events, instructions, glowing, screen, history>>

InstructionsThread ==
  \/ SkipInstruction \/ TakeInstruction \/ ResetLevel \/ Refused
  \/ TestColour \/ BeginOperation \/ Move \/ Check \/ EndInstruction

-----------------------------------------------------------------------------

Next ==
  \/ \E m \in Messages : Receive(m)
  \/ RunMainQueue \/ DismissPopup \/ NavigateBack
  \/ HandleEvent
  \/ InstructionsThread

\* Threads run; the page, the child and the buttons need not.
Fairness ==
  /\ WF_vars(RunMainQueue)
  /\ WF_vars(HandleEvent)
  /\ WF_vars(InstructionsThread)

SafetySpec == Init /\ [][Next]_vars

Spec == SafetySpec /\ Fairness

-----------------------------------------------------------------------------
(* Safety.                                                                 *)

Posted   == [n: 1 .. MaxMessages, m: Messages]
Commands == {p \in Posted : p.m.op \in Operations}
Blocks   == {m.block : m \in Messages}

TypeOK ==
  /\ level \in Levels /\ engine \in EngineType
  /\ sent \in 0 .. MaxMessages
  /\ instructions \in Seq(Commands) /\ events \in Seq(Posted)
  /\ pc \in {"idle", "guard", "inner", "move", "check", "sleep"}
  /\ crt \in Commands \cup {Idle}
  /\ pc = "idle" <=> crt = Idle
  /\ mainQueue \in Seq([block: Blocks, on: BOOLEAN])
  /\ glowing \subseteq Blocks
  /\ screen \in {"game", "sorry", "congrats", "menu"}
  /\ outcomes \in Seq({"invalid", "done"})
  /\ runAt \in 0 .. MaxMessages
  /\ cancelled \subseteq 1 .. MaxMessages

\* Between its move and the check of the new tile the ship may be anywhere next
\* to the route; at every other point an engine that still plays is on it, so
\* that no read of Tiles[crtPosition] misses the array, whatever the other
\* thread does to valid in the meantime.
PlaysOnRoute ==
  /\ pc # "check" => KeepsToRoute(level, engine)
  /\ WonOnFinish(level, engine)

\* However stops and instructions interleave, a run is announced as won or lost
\* at most once, and the child is never congratulated on a level whose Finish
\* tile the ship of this run is not standing on.
OneOutcomePerRun ==
  /\ Len(outcomes) <= 1
  /\ outcomes # <<>> => IsFinished(engine)
  /\ outcomes = <<"done">> => engine.done /\ WonOnFinish(level, engine)

\* The page glows one block at a time, and it is the one whose instruction the
\* thread is in as soon as the main queue has caught up.
GlowTracksInstruction ==
  /\ Cardinality(glowing) <= 1
  /\ mainQueue = <<>> => glowing = {crt.m.block} \ {NoBlock, Undefined}

\* A stop cancels what it finds waiting ahead of the next run: no such
\* instruction moves or turns the ship afterwards.  (An instruction already
\* past its guard, or behind a run that was waiting, is not cancelled.)
StopCancels ==
  [][(engine.pos # engine'.pos \/ engine.dir # engine'.dir)
       => crt.n \notin cancelled]_vars

-----------------------------------------------------------------------------
(* The session implements EngineAR: seen from outside, every operation of   *)
(* the engine happens at the moment its guard lets it pass.                *)

\* The engine once the operation that has passed its guard is carried through.
Settled ==
  IF pc = "move" THEN Checked(level, Shifted(engine, crt.m.op))
  ELSE IF pc = "check" THEN Checked(level, engine)
  ELSE engine

Engine == INSTANCE EngineAR WITH engine <- Settled

ImplementsEngine == Engine!Spec

-----------------------------------------------------------------------------
(* Liveness.                                                               *)

\* Every instruction the page posts is eventually carried out or dropped: the
\* page says only so much, so the queue is empty again and again.
EveryInstructionTaken == []<>(instructions = <<>>)

\* No block goes on glowing.
GlowEnds == []<>(glowing = {})

-----------------------------------------------------------------------------
(* What the code says of itself and does not do.                           *)

\* EngineAR.swift:63: "Stop moving is game is finished".  A stop that comes
\* between the guard of moveFront and the translation does not prevent it.
NoMoveWhenFinished ==
  [][IsFinished(engine) /\ engine'.pos # engine.pos
       => ~IsFinished(engine')]_vars

\* License.tex:495: of a run, "each sequence is executed one by one".  A stop
\* pressed before the run cancels instructions of the run all the same when the
\* events thread is late.
StopEndsEarlierRuns ==
  [][events' # events /\ cancelled' # cancelled
       => runAt < Head(events).n]_vars

=============================================================================
