---------------------------- MODULE MCGameSession ----------------------------
(***************************************************************************)
(* TLC instance of GameSession.  The ship starts facing up.                *)
(***************************************************************************)
EXTENDS GameSession

Column(tiles) == [Width |-> 1, Height |-> 3,
                  Tiles |-> [k \in 0 .. 2 |-> tiles[k + 1]]]

\* Two moves to the goal over a coloured tile, and two off the route.
MCLevels == { Column(<<Finish, UsedA, Start>>),
              Column(<<Used, Free, Start>>) }

Message(op, colour, block) == [op |-> op, colour |-> colour, block |-> block]

MCMessages == { Message("run", NoCondition, NoBlock),
                Message("stop", NoCondition, NoBlock),
                Message("moveFront", NoCondition, "a"),
                Message("moveFront", 1, "b"),
                Message("turnLeft", NoCondition, "c") }

=============================================================================
