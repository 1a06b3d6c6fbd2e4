--------------------------- MODULE MCUserRepository ---------------------------
(***************************************************************************)
(* TLC instance of UserRepository: a character for everybody and one that  *)
(* a level unlocks.                                                        *)
(***************************************************************************)
EXTENDS UserRepository

CONSTANTS first, second

MCCharacters == {first, second}
MCLevelsRequired == [c \in MCCharacters |-> IF c = first THEN 0 ELSE 1]

=============================================================================
