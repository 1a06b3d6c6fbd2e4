---------------------------- MODULE ScratchProgram ----------------------------
(***************************************************************************)
(* The program a child builds on the ScratchBlocks page, and what it means *)
(* when one reads it: the engine instructions a script stands for, one     *)
(* after the other.  ScratchVM is how the page runs it.                    *)
(*                                                                         *)
(* A program has the fields                                                *)
(*   blocks   the block container: a function from ids to blocks           *)
(*   scripts  the top blocks, in the order the container lists them        *)
(* and a block has the fields                                              *)
(*   op       an engine operation, or one of ControlOps                    *)
(*   colour   the colour code of an If operation, or NoCondition           *)
(*   next     the block below it, or Null                                  *)
(*   branch, other   the first blocks inside it, or Null                   *)
(*   times    how often a repeat repeats; 0 or 1: whether an if's holds    *)
(***************************************************************************)
EXTENDS EngineOps, Sequences

CONSTANT ForeverRounds   \* the rounds after which forever gives up

ASSUME ForeverAssumption == ForeverRounds \in Nat

Null == "null"

Loops      == {"repeat", "forever"}
Stops      == {"stop all", "stop this script"}
ControlOps == Loops \cup Stops \cup {"hat", "if", "wait", "stop other scripts"}

Block(op, colour, next, branch, other, times) ==
  [op |-> op, colour |-> colour, next |-> next, branch |-> branch,
   other |-> other, times |-> times]

IsProgram(p) ==
  /\ \A b \in DOMAIN p.blocks :
       LET block == p.blocks[b]
       IN  /\ block.op \in Moves \cup Turns \cup ControlOps
           /\ block.colour \in {NoCondition} \cup 0 .. 5
           /\ {block.next, block.branch, block.other}
                \subseteq DOMAIN p.blocks \cup {Null}
           /\ block.times \in Nat
  /\ \A S \in SUBSET DOMAIN p.blocks :   \* no block is below or inside itself
       S # {} => \E b \in S : \A c \in S :
         c \notin {p.blocks[b].next, p.blocks[b].branch, p.blocks[b].other}
  /\ Null \notin DOMAIN p.blocks
  /\ p.scripts \in Seq(DOMAIN p.blocks)

IsHat(p, b) == p.blocks[b].op = "hat"

\* How many rounds a loop that is entered makes.
Rounds(block) == IF block.op = "forever" THEN ForeverRounds ELSE block.times

\* The branch an if or if-else enters.
Chosen(block) == IF block.times > 0 THEN block.branch ELSE block.other

-----------------------------------------------------------------------------
(* Meanings: the instructions, and whether a stop block ends the script     *)
(* there.                                                                   *)

Nothing == [says |-> <<>>, ends |-> FALSE]

Then(x, y) ==
  IF x.ends THEN x ELSE [says |-> x.says \o y.says, ends |-> y.ends]

Again(x, k) ==
  LET rounds[n \in 0 .. k] == IF n = 0 THEN Nothing ELSE Then(x, rounds[n - 1])
  IN  rounds[k]

Instruction(block) == [op |-> block.op, colour |-> block.colour]

\* The meaning of a block without those below it.
Own(block, means) ==
  CASE block.op \in Moves \cup Turns ->
         [says |-> <<Instruction(block)>>, ends |-> FALSE]
    [] block.op \in Loops -> Again(means[block.branch], Rounds(block))
    [] block.op = "if" -> means[Chosen(block)]
    [] block.op \in Stops -> [says |-> <<>>, ends |-> TRUE]
    [] OTHER -> Nothing

\* The meaning of each block together with those below it.
Meaning(p) ==
  LET means[b \in DOMAIN p.blocks \cup {Null}] ==
        IF b = Null THEN Nothing
        ELSE Then(Own(p.blocks[b], means), means[p.blocks[b].next])
  IN  means

=============================================================================
