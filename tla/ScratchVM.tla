------------------------------- MODULE ScratchVM -------------------------------
(***************************************************************************)
(* The virtual machine of the ScratchBlocks page running a program.        *)
(*                                                                         *)
(* JavaScript has one thread, which runs the buttons, the clicks on a      *)
(* stack, the timers of wait blocks, and every so often runtime._step.     *)
(* _step makes passes over the threads of the machine until none runs, a   *)
(* block has moved the sprite, or its time is up; each of them may be so   *)
(* after any pass, so here anything may come between two passes and        *)
(* nothing inside one.                                                     *)
(***************************************************************************)
EXTENDS ScratchProgram, FiniteSets

CONSTANTS
  Programs,
  MaxTaps(_)   \* bound on the taps on the page of a program

ASSUME ProgramsAssumption == \A p \in Programs : IsProgram(p)

VARIABLES
  program,
  threads,   \* runtime.threads, a set of threads with a place each
  turn,      \* place of the thread the pass is at, 0 between two passes
  scripts,   \* scripts the green flag has not come to yet
  taps,
  posts,     \* history: the messages, with the thread and the block they come from
  started,   \* history: the top block of every thread; its index is the thread
  ended      \* history: threads that reached the end of their script

pageVars == <<program, threads, turn, scripts, taps, posts, started, ended>>

Unset == -1

Fresh(b) == [block |-> b, loopCounter |-> Unset, isLoop |-> FALSE]

NewThread(id, place, top, click) ==
  [id |-> id, place |-> place, topBlock |-> top, stackClick |-> click,
   isKilled |-> FALSE, promise |-> FALSE, stack |-> <<Fresh(top)>>]

\* _stopThread and retireThread.  The timer of a wait block still runs.
Retired(t) == [t EXCEPT !.isKilled = TRUE, !.stack = <<>>]

\* Neither done nor waiting for a timer.
Runs(t) == t.stack # <<>> /\ ~t.promise

Lowest(S)  == CHOOSE k \in S : \A l \in S : k <= l
Highest(S) == CHOOSE k \in S : \A l \in S : k >= l

\* The thread that comes first in the list.
Foremost(ts) == CHOOSE t \in ts : \A u \in ts : t.place <= u.place

VMInit ==
  /\ program \in Programs
  /\ threads = {} /\ turn = 0 /\ scripts = <<>>
  /\ taps = 0 /\ posts = <<>> /\ started = <<>> /\ ended = {}

-----------------------------------------------------------------------------
(* Taps.                                                                   *)

Resting == turn = 0 /\ scripts = <<>>

Tap == Resting /\ taps < MaxTaps(program) /\ taps' = taps + 1

Post(thread, m, at, outer) ==
  posts' = Append(posts, [thread |-> thread, m |-> m, at |-> at, outer |-> outer])

Button(op) == [op |-> op, colour |-> NoCondition, block |-> NoBlock]

\* A new thread at the end of the list: every place in it is the id of an
\* earlier thread.
Push(top, click) ==
  LET id == Len(started) + 1
  IN  /\ threads' = threads \cup {NewThread(id, id, top, click)}
      /\ started' = Append(started, top)

\* Mutant: the threads of stacks that were clicked are not stopped.
GreenFlagKeepingClicked ==
  /\ Tap
  /\ threads' = {IF t.stackClick THEN t ELSE Retired(t) : t \in threads}
  /\ scripts' = program.scripts
  /\ UNCHANGED <<program, turn, posts, started, ended>>

\* greenFlag: stopAll, then startHats, one script after the other.
GreenFlag ==
  /\ Tap
  /\ threads' = {Retired(t) : t \in threads}
  /\ scripts' = program.scripts
  /\ UNCHANGED <<program, turn, posts, started, ended>>

\* Posts "00 run" for a hat, and restarts its thread in place or adds one.
StartHat ==
  /\ scripts # <<>>
  /\ LET top  == Head(scripts)
         id   == Len(started) + 1
         mine == {t \in threads : t.topBlock = top /\ ~t.stackClick}
         old  == Foremost(mine)
     IN  IF ~IsHat(program, top) THEN UNCHANGED <<threads, started, posts>>
         ELSE /\ Post(id, Button("run"), Null, Null)
              /\ IF mine = {} THEN Push(top, FALSE)
                 ELSE /\ threads' = (threads \ {old})
                                     \cup {NewThread(id, old.place, top, FALSE)}
                      /\ started' = Append(started, top)
  /\ scripts' = Tail(scripts)
  /\ UNCHANGED <<program, turn, taps, ended>>

\* handleStopAllClick.
StopAll ==
  /\ Tap
  /\ Post(Len(started), Button("stop"), Null, Null)
  /\ threads' = {Retired(t) : t \in threads}
  /\ UNCHANGED <<program, turn, scripts, started, ended>>

\* A click on a stack of blocks stops its thread, or starts one.
ToggleScript(top) ==
  /\ Tap
  /\ LET mine == {t \in threads : t.topBlock = top /\ t.stack # <<>>}
         old  == Foremost(mine)
     IN  IF mine = {} THEN Push(top, TRUE)
         ELSE /\ threads' = (threads \ {old}) \cup {Retired(old)}
              /\ UNCHANGED started
  /\ UNCHANGED <<program, turn, scripts, posts, ended>>

-----------------------------------------------------------------------------
(* Stacks.                                                                 *)

Top(stack)         == stack[Len(stack)]
Below(stack)       == SubSeq(stack, 1, Len(stack) - 1)
NextOf(b)          == program.blocks[b].next

\* Once the branch on top of the stack is over: back to the innermost loop, or
\* to the block below the innermost block that has one.
Unwound(stack) ==
  LET levels == {k \in 1 .. Len(stack) - 1 :
                   stack[k].isLoop \/ NextOf(stack[k].block) # Null}
      k == Highest(levels)
  IN  IF levels = {} THEN <<>>
      ELSE IF stack[k].isLoop THEN SubSeq(stack, 1, k)
      ELSE Append(SubSeq(stack, 1, k - 1), Fresh(NextOf(stack[k].block)))

\* The top of the stack gives way to block b, which may be Null.
GoTo(stack, b) ==
  LET moved == Append(Below(stack), Fresh(b))
  IN  IF b = Null THEN Unwound(moved) ELSE moved

\* stepToBranch.
Enter(stack, b) ==
  LET entered == Append(stack, Fresh(b))
  IN  IF b = Null THEN Unwound(entered) ELSE entered

\* Mutant: the counter does not survive the branch.
LoopedForgettingCount(stack) ==
  LET f     == Top(stack)
      block == program.blocks[f.block]
      left  == Rounds(block) - 1
      frame == [f EXCEPT !.loopCounter = left, !.isLoop = TRUE]
  IN  IF left >= 0 THEN Enter(Append(Below(stack), frame), block.branch)
      ELSE GoTo(stack, block.next)

\* repeat and forever.
Looped(stack) ==
  LET f     == Top(stack)
      block == program.blocks[f.block]
      left  == (IF f.loopCounter = Unset THEN Rounds(block) ELSE f.loopCounter) - 1
      frame == [f EXCEPT !.loopCounter = left, !.isLoop = TRUE]
  IN  IF left >= 0 THEN Enter(Append(Below(stack), frame), block.branch)
      ELSE GoTo(stack, block.next)

-----------------------------------------------------------------------------
(* A pass over the threads.                                                *)

\* The place of the next thread that runs, or 0.
NextTurn(ts, place) ==
  LET later == {t.place : t \in {u \in ts : u.place > place /\ Runs(u)}}
  IN  IF later = {} THEN 0 ELSE Lowest(later)

\* Mutant: killed threads stay in the list while others run.
BeginPassKeepingKilled ==
  /\ Resting
  /\ turn' = NextTurn(threads, 0) /\ turn' # 0
  /\ UNCHANGED <<program, threads, scripts, taps, posts, started, ended>>

\* The start of _step drops the threads that were stopped.
BeginPass ==
  /\ Resting
  /\ threads' = {t \in threads : ~t.isKilled}
  /\ turn' = NextTurn(threads', 0)
  /\ threads' # threads \/ turn' # 0
  /\ UNCHANGED <<program, scripts, taps, posts, started, ended>>

Crt      == CHOOSE t \in threads : t.place = turn
Others   == threads \ {Crt}
CrtBlock == program.blocks[Top(Crt.stack).block]
AtBlock  == turn # 0 /\ Top(Crt.stack).block # Null

WithStack(stack) == [Crt EXCEPT !.stack = stack]

\* The thread of the turn has executed a block and is now t, the other threads
\* are others: it goes on, unless it is done, waits, or is back at a loop.
\* After the last thread of the pass those that are done leave the list.
Continue(t, others) ==
  LET ts   == others \cup {t}
      over == ~Runs(t) \/ Top(t.stack).isLoop
  IN  /\ turn' = IF over THEN NextTurn(ts, turn) ELSE turn
      /\ threads' = IF turn' # 0 THEN ts ELSE {u \in ts : u.stack # <<>>}
      /\ ended' = IF t.stack = <<>> THEN ended \cup {t.id} ELSE ended

\* An empty branch, left there by the timer of a wait block.
StepEmptyBranch ==
  /\ turn # 0 /\ Top(Crt.stack).block = Null
  /\ LET stack == Below(Crt.stack)
         t == WithStack(stack)
     IN  IF stack = <<>> THEN Continue(t, Others)
         ELSE threads' = Others \cup {t} /\ UNCHANGED <<turn, ended>>
  /\ UNCHANGED <<program, scripts, taps, posts, started>>

\* turnLeft and turnRight read the bottom of a stack, the others its top.
NamesOutermost(i) == i.op \in Turns /\ i.colour = NoCondition

\* The block a message names, read from the first thread of the list whichever
\* thread posts it.
Named(block) ==
  LET stack == Foremost(threads).stack
  IN  IF stack = <<>> THEN Undefined
      ELSE IF NamesOutermost(block) THEN stack[1].block
      ELSE Top(stack).block

StepInstruction ==
  /\ AtBlock /\ CrtBlock.op \in Moves \cup Turns
  /\ Post(Crt.id,
          [op |-> CrtBlock.op, colour |-> CrtBlock.colour, block |-> Named(CrtBlock)],
          Top(Crt.stack).block, Crt.stack[1].block)
  /\ Continue(WithStack(GoTo(Crt.stack, CrtBlock.next)), Others)
  /\ UNCHANGED <<program, scripts, taps, started>>

StepControl ==
  /\ AtBlock /\ CrtBlock.op \in Loops \cup {"hat", "if"}
  /\ LET stack == CASE CrtBlock.op \in Loops -> Looped(Crt.stack)
                    [] CrtBlock.op = "if"  -> Enter(Crt.stack, Chosen(CrtBlock))
                    [] CrtBlock.op = "hat" -> GoTo(Crt.stack, CrtBlock.next)
     IN  Continue(WithStack(stack), Others)
  /\ UNCHANGED <<program, scripts, taps, posts, started>>

\* The block returns a promise; the thread stays at it until its timer fires.
StepWait ==
  /\ AtBlock /\ CrtBlock.op = "wait"
  /\ Continue([Crt EXCEPT !.promise = TRUE], Others)
  /\ UNCHANGED <<program, scripts, taps, posts, started>>

StepStop ==
  /\ AtBlock
  /\ LET silenced == {Retired(t) : t \in Others}
     IN  \/ CrtBlock.op = "stop all" /\ Continue(Retired(Crt), silenced)
         \/ CrtBlock.op = "stop this script" /\ Continue(WithStack(<<>>), Others)
         \/ /\ CrtBlock.op = "stop other scripts"
            /\ Continue(WithStack(GoTo(Crt.stack, CrtBlock.next)), silenced)
  /\ UNCHANGED <<program, scripts, taps, posts, started>>

StepThread ==
  StepEmptyBranch \/ StepInstruction \/ StepControl \/ StepWait \/ StepStop

-----------------------------------------------------------------------------
(* Timers.                                                                 *)

\* Mutant: a wait at the end of a loop ends the loop.
ResumedOutOfLoops(stack) ==
  LET levels == {k \in DOMAIN stack : NextOf(stack[k].block) # Null \/ k = 1}
      k == Highest(levels)
  IN  Append(SubSeq(stack, 1, k - 1), Fresh(NextOf(stack[k].block)))

\* Where the timer of a wait block puts its thread: on the next block, or on an
\* empty branch inside the innermost loop or at the end of the script.
Resumed(stack) ==
  LET levels == {k \in DOMAIN stack : \/ NextOf(stack[k].block) # Null
                                      \/ k = 1
                                      \/ k > 1 /\ stack[k - 1].isLoop}
      k == Highest(levels)
  IN  Append(SubSeq(stack, 1, k - 1), Fresh(NextOf(stack[k].block)))

\* The timer fires.  A thread that was stopped meanwhile gets a stack again, and
\* leaves the list all the same.
Resolve ==
  /\ Resting
  /\ \E t \in threads :
       /\ t.promise
       /\ LET stack == IF t.stack = <<>> THEN <<Fresh(Null)>> ELSE Resumed(t.stack)
          IN  threads' = (threads \ {t})
                           \cup {[t EXCEPT !.promise = FALSE, !.stack = stack]}
  /\ UNCHANGED <<program, turn, scripts, taps, posts, started, ended>>

=============================================================================
