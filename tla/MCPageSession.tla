---------------------------- MODULE MCPageSession ----------------------------
(***************************************************************************)
(* TLC instance of PageSession.  The ship starts facing up.                *)
(***************************************************************************)
EXTENDS PageSession

Column(tiles) == [Width |-> 1, Height |-> 3,
                  Tiles |-> [k \in 0 .. 2 |-> tiles[k + 1]]]

\* Two moves to the goal over a coloured tile; a turn and a move off the board.
MCLevels == { Column(<<Finish, UsedA, Start>>) }

Plain(op, next) == Block(op, NoCondition, next, Null, Null, 0)
Loop(op, times, next, branch) == Block(op, NoCondition, next, branch, Null, times)

\* flag; repeat 2 { move forward if on colour 1; move forward }
Repeating ==
  [blocks |-> [b \in {"hat", "rep", "b", "a"} |->
     CASE b = "hat" -> Plain("hat", "rep")
       [] b = "rep" -> Loop("repeat", 2, Null, "b")
       [] b = "b"   -> Block("moveFront", 1, "a", Null, Null, 0)
       [] b = "a"   -> Plain("moveFront", Null)],
   scripts |-> <<"hat">>]

\* flag; forever { turn left; if true { wait } }
Waiting ==
  [blocks |-> [b \in {"hat", "ever", "c", "if", "w"} |->
     CASE b = "hat"  -> Plain("hat", "ever")
       [] b = "ever" -> Loop("forever", 0, Null, "c")
       [] b = "c"    -> Plain("turnLeft", "if")
       [] b = "if"   -> Loop("if", 1, Null, "w")
       [] b = "w"    -> Plain("wait", Null)],
   scripts |-> <<"hat">>]

\* flag; move forward; stop other scripts; turn right.
\* flag; if true { turn left; stop this script } else {}; move back
Two ==
  [blocks |-> [b \in {"hat", "a", "o", "d", "hat2", "if", "c", "s", "e"} |->
     CASE b = "hat"  -> Plain("hat", "a")
       [] b = "a"    -> Plain("moveFront", "o")
       [] b = "o"    -> Plain("stop other scripts", "d")
       [] b = "d"    -> Plain("turnRight", Null)
       [] b = "hat2" -> Plain("hat", "if")
       [] b = "if"   -> Loop("if", 1, "e", "c")
       [] b = "c"    -> Plain("turnLeft", "s")
       [] b = "s"    -> Plain("stop this script", Null)
       [] b = "e"    -> Plain("moveBack", Null)],
   scripts |-> <<"hat2", "hat">>]

\* repeat 2 { repeat 2 { if false {...} else { turn left if on colour 1 } } }
\* with no hat; flag; repeat 2 {}; stop all
Nested ==
  [blocks |-> [b \in {"hat", "none", "s", "out", "in", "if", "c"} |->
     CASE b = "hat"  -> Plain("hat", "none")
       [] b = "none" -> Loop("repeat", 2, "s", Null)
       [] b = "s"    -> Plain("stop all", Null)
       [] b = "out"  -> Loop("repeat", 2, Null, "in")
       [] b = "in"   -> Loop("repeat", 2, Null, "if")
       [] b = "if"   -> Block("if", NoCondition, Null, Null, "c", 0)
       [] b = "c"    -> Block("turnLeft", 1, Null, Null, Null, 0)],
   scripts |-> <<"out", "hat">>]

MCPrograms == {Repeating, Waiting, Two, Nested}

MCMaxTaps(p) == IF p = Repeating THEN 3 ELSE 2

MCMessages == UNION {CanPost(p) : p \in MCPrograms}

=============================================================================
