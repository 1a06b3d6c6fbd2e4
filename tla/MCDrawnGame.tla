------------------------------ MODULE MCDrawnGame ------------------------------
(***************************************************************************)
(* TLC instance of EngineAR and DrawnGame: every level of two small        *)
(* shapes, and levels with a corner to turn round or a Start with a row on *)
(* either side.  Beyond the single tile no shape is square, so that rows   *)
(* and columns cannot be confused.  The tile types leave out all colours   *)
(* but one of the conditional ones.                                        *)
(***************************************************************************)
EXTENDS DrawnGame

MCTiles == {Free, Start, Finish, UsedA}

LevelsOfShape(w, h, types) ==
  {[Width |-> w, Height |-> h, Tiles |-> t] :
     t \in {t \in [TileIndices(w, h) -> UNION {types[k] : k \in DOMAIN types}] :
              \A k \in TileIndices(w, h) : t[k] \in types[k + 1]}}

MCLevels ==
  LevelsOfShape(1, 1, <<MCTiles \cup {Used}>>)
    \cup LevelsOfShape(2, 1, <<MCTiles, MCTiles>>)
    \cup LevelsOfShape(3, 2, << {Free, Finish}, {Start, UsedA}, MCTiles \ {Start},
                                {Free}, {Start}, {UsedA} >>)
    \cup LevelsOfShape(1, 3, << MCTiles, {Free, UsedA}, {Start, Finish} >>)

=============================================================================
