---------------------------- MODULE MCLevelServer ----------------------------
(* Instances of LevelServer: one of the two names is seeded by main.        *)
EXTENDS LevelServer

CONSTANTS hard, other

MCNames  == {hard, other}
MCWidths == {1, 2}
MCSeeds  == {[Name |-> hard, Width |-> 1]}

=============================================================================
