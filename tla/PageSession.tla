----------------------------- MODULE PageSession -----------------------------
(***************************************************************************)
(* The game screen whole: the ScratchBlocks page runs the program of the   *)
(* child in its virtual machine, and what it posts is what the game        *)
(* session receives.  The page does not see the session, and the main      *)
(* thread receives messages in the order they are posted: since both       *)
(* queues of the session may wait as long as they like, receiving a        *)
(* message in the step that posts it leaves no behaviour out.              *)
(***************************************************************************)
EXTENDS GameSession, ScratchVM

systemVars == <<vars, pageVars>>

\* What the programs can make the page post.
CanPost(p) ==
  LET names == DOMAIN p.blocks \cup {Null, Undefined}
      speaking == {p.blocks[b] : b \in {c \in DOMAIN p.blocks :
                                         p.blocks[c].op \in Moves \cup Turns}}
  IN  {[op |-> i.op, colour |-> i.colour, block |-> b] :
         i \in speaking, b \in names}
      \cup {[op |-> op, colour |-> NoCondition, block |-> NoBlock] :
              op \in {"run", "stop"}}

ASSUME PageAssumption == \A p \in Programs : CanPost(p) \subseteq Messages

-----------------------------------------------------------------------------

Deliver ==
  IF posts' = posts THEN UNCHANGED vars ELSE Receive(posts'[Len(posts')].m)

\* A popup or another screen covers the page.
TapPage ==
  /\ screen = "game"
  /\ \/ GreenFlag \/ StopAll
     \/ \E k \in DOMAIN program.scripts : ToggleScript(program.scripts[k])
  /\ Deliver

RunPage   == (StartHat \/ BeginPass \/ StepThread) /\ Deliver
FireTimer == Resolve /\ Deliver

Native ==
  /\ \/ RunMainQueue \/ DismissPopup \/ NavigateBack
     \/ HandleEvent \/ InstructionsThread
  /\ UNCHANGED pageVars

SystemInit == Init /\ VMInit

SystemNext == TapPage \/ RunPage \/ FireTimer \/ Native

\* The machine of the page is stepped by an interval timer.
SystemFairness ==
  /\ WF_systemVars(RunPage)
  /\ WF_systemVars(FireTimer)
  /\ WF_systemVars(RunMainQueue /\ UNCHANGED pageVars)
  /\ WF_systemVars(HandleEvent /\ UNCHANGED pageVars)
  /\ WF_systemVars(InstructionsThread /\ UNCHANGED pageVars)

SystemSpec == SystemInit /\ [][SystemNext]_systemVars /\ SystemFairness

-----------------------------------------------------------------------------
(* The page keeps to the program.                                          *)

\* What is left of a script of program p by a frame of the stack: the rounds left
\* of a loop, or nothing of a block that is under way, and the blocks below it.
Pending(p, f) ==
  LET block == p.blocks[f.block]
  IN  IF f.block = Null THEN Nothing
      ELSE IF f.loopCounter = Unset THEN Meaning(p)[block.next]
      ELSE Then(Again(Meaning(p)[block.branch], f.loopCounter), Meaning(p)[block.next])

\* The block on top has yet to be executed, unless it is a loop that is entered.
OnTop(p, f) ==
  IF f.block # Null /\ f.loopCounter = Unset THEN Meaning(p)[f.block]
  ELSE Pending(p, f)

Rest(p, stack) ==
  LET rest[k \in 0 .. Len(stack)] ==
        IF k = 0 THEN Nothing ELSE Then(Pending(p, stack[k]), rest[k - 1])
  IN  rest

Left(p, stack) ==
  IF stack = <<>> THEN <<>>
  ELSE Then(OnTop(p, Top(stack)), Rest(p, stack)[Len(stack) - 1]).says

\* The instructions a thread has posted.
Said(id) ==
  LET said[k \in 0 .. Len(posts)] ==
        IF k = 0 THEN <<>>
        ELSE IF posts[k].thread = id /\ posts[k].m.op \in Moves \cup Turns
             THEN Append(said[k - 1], Instruction(posts[k].m))
             ELSE said[k - 1]
  IN  said[Len(posts)]

\* However loops, conditions, waits and stop blocks are nested and threads take
\* turns, what a thread has posted and what its stack still holds make up the
\* meaning of its script, and a thread that came to its end has posted all.
PostsTheScript ==
  /\ \A t \in threads :
       ~t.isKilled => Said(t.id) \o Left(program, t.stack) = Meaning(program)[t.topBlock].says
  /\ \A id \in ended : Said(id) = Meaning(program)[started[id]].says

\* Once a run or a stop is posted no thread that was there before posts anything:
\* what the engine is told after a reset belongs to the run that caused it.
SilencedByButtons ==
  \A k, l \in DOMAIN posts :
    /\ k < l
    /\ posts[l].m.op \in Moves \cup Turns
    => CASE posts[k].m.op = "stop" -> posts[l].thread > posts[k].thread
         [] posts[k].m.op = "run"  ->
              posts[l].thread > posts[k].thread - Len(program.scripts)
         [] OTHER -> TRUE

\* On a page with one script, whatever is tapped, clicked and stopped, a message
\* names the block that posts it, or for a turn without a condition the
\* outermost block it is in.  (With two scripts it may name a block of the other
\* one, or none.)
NamesItsBlock ==
  Len(program.scripts) = 1 =>
    \A k \in DOMAIN posts :
      posts[k].m.op \in Moves \cup Turns =>
        posts[k].m.block = IF NamesOutermost(posts[k].m) THEN posts[k].outer
                           ELSE posts[k].at

-----------------------------------------------------------------------------
(* The engine keeps to the page.                                           *)

\* The number of the message the instructions thread takes next.
Upcoming == IF instructions = <<>> THEN sent + 1 ELSE Head(instructions).n

\* The engine of a game in which the instructions that were posted after the run
\* the engine is at, up to the k-th message, are carried out one after the other.
Played[k \in 0 .. Len(posts)] ==
  IF k <= runAt THEN NewEngine(level)
  ELSE IF posts[k].m.op \in Moves \cup Turns
       THEN Perform(level, Played[k - 1], posts[k].m)
       ELSE Played[k - 1]

\* Between two instructions, a game that is not stopped is where playing the
\* instructions of this run one after the other from the start leads to.
ShipFollowsPage ==
  pc = "idle" /\ engine.valid =>
    LET e == Played[Upcoming - 1]
    IN  engine.pos = e.pos /\ engine.dir = e.dir /\ engine.done = e.done

\* Every thread of the page ends or is stopped, a forever loop included: the
\* list is empty again and again, unless the bound on the messages is reached.
ScriptsEnd == []<>(threads = {} \/ sent = MaxMessages)

=============================================================================
