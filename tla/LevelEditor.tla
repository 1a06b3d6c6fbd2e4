----------------------------- MODULE LevelEditor -----------------------------
(***************************************************************************)
(* The screens on top of LevelsRepository: the main menu with the public   *)
(* levels, the list of the user's levels with the level builder, and the   *)
(* game that is played from either.  All of it runs on the main thread, so *)
(* that every gesture is one step; what comes between is the answers of    *)
(* Firestore, and the games, whose instructions go on in the background    *)
(* after the user has left them.                                           *)
(*                                                                         *)
(* The level screen and the games keep an index into the repository's      *)
(* list.  Going to another screen always makes a new one.                  *)
(***************************************************************************)
EXTENDS LevelsRepository, PublicLevels

CONSTANTS MaxEdits, MaxGames, MaxLaunches  \* bounds; an addition is an edit

ASSUME EditorAssumption == {MaxEdits, MaxGames, MaxLaunches} \subseteq Nat

VARIABLES
  running,    \* FALSE when the process has crashed
  role,       \* of the user, in the user's document: "user" or "admin"
  known,      \* the properties of the user have come since launch
  menu,       \* the last menu: "main" or "levels"
  inGame,     \* a game covers it, and goes back to a new one
  cells,      \* the cells of the main menu, or None
  at,         \* the level the level screen opens
  waiting,    \* it has not had a list yet, and opens at when it has
  listed,     \* the rows of its list, a set of indices of the repository's
  options,    \* its builder has the switch and the chapter of administrators
  levelAt,    \* the level its builder is on
  shown,      \* what its builder shows
  stale,      \* a level has been deleted since the builder was loaded
  playing,    \* the games that go on: the index they were given, their level,
              \* what the screen showed, whether it surely showed that level,
              \* and whether the level got another size meanwhile
  marks,      \* levels played to the end, with what was recorded
  edits, games, launches

builder == <<levelAt, shown, stale>>
screen  == <<menu, inGame, cells, at, waiting, listed, options, builder>>
screens == <<running, known, screen>>
played  == <<playing, marks, games>>
vars    == <<repository, role, screens, played, edits, launches>>

Published == load \in {"delivered", "overtaken"} \/ made # {}

IsAdmin == known /\ role = "admin"

\* Mutant: an administrator has rows like any user.
MineByUser(lvl) == lvl.ByUserID = Me

\* The rows of the list screen: the role counts at the moment the list comes.
Mine(lvl) == IsAdmin \/ lvl.ByUserID = Me
Rows(list) == {k \in 0 .. Len(list) - 1 : Mine(Get(list, k))}

\* loadLevel of the builder.
LoadLevel(list, index) ==
  /\ levelAt' = index
  /\ shown' = Get(list, index)
  /\ stale' = FALSE

\* The builder gives the name of a level it loads back, if the level has one;
\* the level is written again, and the list propagated.
WriteBack(index) == Update(index, Get(entities, index))

\* A new main menu: its cells are made once, of the first list and the first
\* properties it gets.
ShowMain ==
  /\ menu' = "main" /\ inGame' = FALSE
  /\ cells' = IF known /\ Published THEN Cells(entities) ELSE None
  /\ at' = 0 /\ waiting' = FALSE /\ listed' = {} /\ options' = FALSE
  /\ LoadLevel(<<>>, -1)
  /\ UNCHANGED repository

\* A new level screen.
ShowLevels(index) ==
  /\ menu' = "levels" /\ inGame' = FALSE /\ cells' = None
  /\ at' = index /\ waiting' = ~Published
  /\ listed' = IF Published THEN Rows(entities) ELSE {}
  /\ options' = IsAdmin
  /\ IF Published THEN LoadLevel(entities, index) ELSE LoadLevel(<<>>, -1)
  /\ UNCHANGED repository \/ (Published /\ WriteBack(index))

Init ==
  /\ RepositoryInit
  /\ running = TRUE /\ role \in {"user", "admin"} /\ known = FALSE
  /\ menu = "main" /\ inGame = FALSE /\ cells = None
  /\ at = 0 /\ waiting = FALSE /\ listed = {} /\ options = FALSE
  /\ levelAt = -1 /\ shown = None /\ stale = FALSE
  /\ playing = {} /\ marks = {}
  /\ edits = 0 /\ games = 0 /\ launches = 0

\* onNext of the repository: the main menu makes its cells, unless it has; the
\* list screen shows the levels, and if it waits for them opens its level, which
\* was just read or made: written back, it stays as it is.
Propagate ==
  /\ cells' = IF menu = "main" /\ known /\ cells = None THEN Cells(entities')
              ELSE cells
  /\ listed' = IF menu = "levels" THEN Rows(entities') ELSE {}
  /\ waiting' = FALSE
  /\ IF waiting THEN LoadLevel(entities', at) ELSE UNCHANGED builder
  /\ UNCHANGED <<running, known, menu, inGame, at, options>>

-----------------------------------------------------------------------------
(* Firestore answers.                                                      *)

Deliver ==
  /\ running
  /\ SyncFromServer /\ Propagate
  /\ UNCHANGED <<role, played, edits, launches>>

Answer ==
  /\ running
  /\ AnswerLoad \/ FailLoad
  /\ UNCHANGED <<role, screens, played, edits, launches>>

\* The properties of the user come, and go to the main menu.
DeliverProperties ==
  /\ running /\ ~known
  /\ known' = TRUE
  /\ cells' = IF menu = "main" /\ Published THEN Cells(entities) ELSE cells
  /\ UNCHANGED <<repository, running, role, menu, inGame, at, waiting, listed,
                 options, builder, played, edits, launches>>

-----------------------------------------------------------------------------
(* Going from one screen to another.                                       *)

OnMain   == running /\ menu = "main" /\ ~inGame
OnLevels == running /\ menu = "levels" /\ ~inGame

MyLevels == OnMain /\ ShowLevels(0)
GoBack   == OnLevels /\ ShowMain

\* Back from a game, which goes on; a level screen opens the level of the game.
Leave ==
  /\ running /\ inGame
  /\ IF menu = "main" THEN ShowMain ELSE ShowLevels(at)

Navigate ==
  /\ MyLevels \/ GoBack \/ Leave
  /\ UNCHANGED <<running, role, known, played, edits, launches>>

-----------------------------------------------------------------------------
(* The list screen.  It has rows only once a list has come, so that nothing *)
(* waits any more when there is something to delete, select or edit.       *)

AddLevel(u) ==
  /\ OnLevels /\ edits < MaxEdits
  /\ Add(u) /\ Propagate
  /\ edits' = edits + 1
  /\ UNCHANGED <<role, played, launches>>

IsRow(row) == OnLevels /\ row \in 0 .. Cardinality(listed) - 1

\* The row is taken for an index of the repository's list.
DeleteRow(row) ==
  /\ IsRow(row)
  /\ Delete(row)
  /\ listed' = Rows(entities')
  /\ stale' = TRUE
  /\ UNCHANGED <<running, role, known, menu, inGame, cells, at, waiting, options,
                 levelAt, shown, played, edits, launches>>

\* And here: then the level's UUID is looked up, which finds the first of two.
SelectRow(row) ==
  /\ IsRow(row)
  /\ LET index == GetAt(entities, Get(entities, row).UUID)
     IN  /\ at' = index /\ LoadLevel(entities, index)
         /\ \/ UNCHANGED <<repository, listed>>
            \/ WriteBack(index) /\ listed' = Rows(entities)
  /\ UNCHANGED <<running, role, known, menu, inGame, cells, waiting, options,
                 played, edits, launches>>

-----------------------------------------------------------------------------
(* The builder.                                                            *)

Crash ==
  /\ running' = FALSE
  /\ UNCHANGED <<repository, known, screen>>

\* The builder is told of the change, then the repository propagates it.
Edit(lvl) ==
  /\ Update(levelAt, lvl)
  /\ shown' = lvl
  /\ listed' = Rows(entities')
  /\ UNCHANGED <<running, known, menu, inGame, cells, at, waiting, options,
                 levelAt, stale>>

\* What is typed for a level that is gone is lost with the new level get(at)
\* returns for it; the builder shows another such.
EditNone ==
  /\ shown' = None
  /\ UNCHANGED <<repository, running, known, menu, inGame, cells, at, waiting,
                 listed, options, levelAt, stale>>

Editing ==
  /\ OnLevels /\ edits < MaxEdits
  /\ edits' = edits + 1
  /\ UNCHANGED <<role, marks, games, launches>>

Gestures(type) == {Swap(type), CycleLeft(type), CycleRight(type), Start}

\* A tap, a swipe or a long press on a tile that is shown.  The tile is changed
\* in whatever level is at the builder's index now, or not at all: the new level
\* that get(at) returns for an index that is gone has no tiles.
Touch(tile) ==
  LET lvl == Get(entities, levelAt)
  IN  /\ Editing
      /\ shown # None /\ tile \in DOMAIN shown.Tiles
      /\ IF lvl # None /\ tile \in DOMAIN lvl.Tiles
         THEN \E type \in Gestures(lvl.Tiles[tile]) : Edit(SetTile(lvl, tile, type))
         ELSE Crash
      /\ UNCHANGED playing

\* A size is typed, and the object a game may be playing on gets another board.
\* The same size changes nothing.
Resize(size) ==
  LET lvl == Get(entities, levelAt)
      resized(game) == [game EXCEPT !.resized = @ \/ game.level = lvl.UUID]
  IN  /\ Editing
      /\ IF InList(entities, levelAt)
         THEN /\ \/ lvl.Width # size /\ Edit(SetWidth(lvl, size))
                 \/ lvl.Height # size /\ Edit(SetHeight(lvl, size))
              /\ playing' = {resized(game) : game \in playing}
         ELSE EditNone /\ UNCHANGED playing

\* A name is typed.
SetName ==
  /\ Editing
  /\ IF InList(entities, levelAt) THEN Edit(Get(entities, levelAt)) ELSE EditNone
  /\ UNCHANGED playing

\* An administrator throws the switch, or types a chapter.
SetOptions ==
  LET lvl == Get(entities, levelAt)
  IN  /\ Editing /\ options
      /\ IF InList(entities, levelAt)
         THEN \/ Edit(SetPublic(lvl, ~lvl.Public))
              \/ \E chapter \in Chapters \ {lvl.Chapter, NoChapter} :
                 Edit(SetChapter(lvl, chapter))
         ELSE EditNone
      /\ UNCHANGED playing

-----------------------------------------------------------------------------
(* The game.                                                               *)

\* The level at the index is played.  The engine of a level without tiles, which
\* get(at) returns for an index that is gone or not there yet, ends the process.
Open(index, seen, sure) ==
  IF InList(entities, index)
  THEN /\ inGame' = TRUE
       /\ playing' = playing \cup
            {[at |-> index, level |-> Get(entities, index).UUID,
              seen |-> seen, sure |-> sure, resized |-> FALSE]}
       /\ UNCHANGED <<repository, running, known, menu, cells, at, waiting,
                      listed, options, builder>>
  ELSE Crash /\ UNCHANGED playing

Opening ==
  /\ games < MaxGames
  /\ games' = games + 1
  /\ UNCHANGED <<role, marks, edits, launches>>

Play ==
  /\ OnLevels /\ Opening
  /\ Open(at, IF shown = None THEN None ELSE shown.UUID, ~stale /\ shown # None)

\* Mutant: the row is taken for an index of the repository's list.
TappedByRow(section, row) == Get(entities, row - 1).UUID

\* getLevel looks in the cells as they would be now.
Tapped(section, row) == Cells(entities)[section].items[row]

\* A tap on a cell of the public levels.
TapCell(section, row) ==
  /\ OnMain /\ cells # None /\ Opening
  /\ section \in DOMAIN cells /\ row \in DOMAIN cells[section].items
  /\ LET now == Cells(entities)
     IN  IF section \in DOMAIN now /\ row \in DOMAIN now[section].items
         THEN Open(GetAt(entities, Tapped(section, row)),
                   cells[section].items[row], made = {})
         ELSE Crash /\ UNCHANGED playing

\* A game is done: the level that is at its index now is recorded.
Done(game) ==
  /\ running
  /\ marks' = marks \cup
       {<<game.level, IF InList(entities, game.at)
                      THEN Get(entities, game.at).UUID ELSE None>>}
  /\ playing' = playing \ {game}
  /\ UNCHANGED <<repository, role, screens, games, edits, launches>>

\* The thread of a game may read past the end of a board that got another size,
\* while the size and the tiles do not agree or from a tile that is no more.
Trap(game) ==
  /\ running /\ game.resized
  /\ Crash
  /\ UNCHANGED <<role, played, edits, launches>>

Launch ==
  /\ launches < MaxLaunches
  /\ launches' = launches + 1
  /\ Relaunch
  /\ running' = TRUE /\ known' = FALSE
  /\ menu' = "main" /\ inGame' = FALSE /\ cells' = None
  /\ at' = 0 /\ waiting' = FALSE /\ listed' = {} /\ options' = FALSE
  /\ LoadLevel(<<>>, -1)
  /\ playing' = {}
  /\ UNCHANGED <<role, marks, games, edits>>

Next ==
  \/ Deliver \/ Answer \/ DeliverProperties \/ Launch \/ Navigate
  \/ \E u \in UUIDs : AddLevel(u)
  \/ \E row \in 0 .. Len(entities) - 1 : DeleteRow(row) \/ SelectRow(row)
  \/ shown # None /\ \E tile \in DOMAIN shown.Tiles : Touch(tile)
  \/ \E size \in Sizes : Resize(size)
  \/ SetName \/ SetOptions \/ Play
  \/ cells # None /\ \E section \in DOMAIN cells :
       \E row \in DOMAIN cells[section].items : TapCell(section, row)
  \/ \E game \in playing : Done(game) \/ Trap(game)

Spec == Init /\ [][Next]_vars

-----------------------------------------------------------------------------
(* Properties.                                                             *)

TypeOK ==
  /\ RepositoryTypeOK
  /\ {running, known, inGame, waiting, options, stale} \subseteq BOOLEAN
  /\ role \in {"user", "admin"} /\ menu \in {"main", "levels"}
  /\ at \in Nat /\ levelAt \in Nat \cup {-1}
  /\ listed \subseteq 0 .. Len(entities) - 1
  /\ shown \in Level \cup {None}
  /\ \A game \in playing : game.at \in Nat /\ game.level \in UUIDs

\* As long as no level has been deleted since it was loaded, the builder shows
\* the level that its gestures change, whatever is added or read behind it.
BuilderShowsItsLevel ==
  ~stale /\ shown # None => shown = Get(entities, levelAt)

\* Nothing but these ends the process: in the level screen, a deletion since the
\* builder was loaded, no level to play, or a game on a level that got another
\* size; in the main menu, cells older than the collection.
CrashesExplained ==
  ~running => \/ \E game \in playing : game.resized
              \/ menu = "levels" /\ (stale \/ ~InList(entities, at))
              \/ menu = "main" /\ made # {}

\* A game is played on the level the screen showed when it was opened: the
\* builder, unless a level was deleted since it was loaded, and the cell that
\* was tapped, although its level is looked up anew, unless a level was added
\* since launch (and the collection came behind it and the cells).
PlaysWhatIsShown == \A game \in playing : game.sure => game.level = game.seen

\* An administrator whose properties were there when the screen was opened has
\* a row for every level, so that every row is the level it stands for.
AdministratorSeesAll ==
  options /\ ~waiting => listed = 0 .. Len(entities) - 1

\* The cells are the public levels by chapter, for every list the additions,
\* edits and deletions lead to.
CellsAreChapters == AreChapters(Cells(entities), entities)

\* A swipe to one side undoes a swipe to the other, on every tile of every level
\* that the gestures lead to.
SwipesUndo ==
  \A k \in DOMAIN entities : \A tile \in DOMAIN entities[k].Tiles :
    LET type == entities[k].Tiles[tile]
    IN  CycleLeft(CycleRight(type)) = type /\ CycleRight(CycleLeft(type)) = type

-----------------------------------------------------------------------------
(* What the documentation says, and what does not happen.                  *)

\* LevelsListViewModel.swift:26: the list screen is to "Filter the levels that
\* are showed".  A level that has no row is not to be deleted by the list.
OnlyListedDeleted ==
  [][\A k \in DOMAIN entities :
       entities[k].UUID \notin UUIDsOf(entities') /\ launches' = launches
       => k - 1 \in listed]_vars

\* GameUISplitViewController.swift:160: "Mark level as completed".  The level
\* that was played is the one to mark.
CompletedIsPlayed == \A mark \in marks : mark[1] = mark[2]

=============================================================================
