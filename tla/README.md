# TLA+ verification of ArRobotCode

ArRobotCode is an iPad application with which children learn to program: they
put Scratch blocks together, and a spaceship flies over the tiles of a level,
from Start to Finish, in augmented reality. Levels are made in a level builder
and kept in Firestore; completed levels unlock characters. An older part of the
repository keeps levels on a Go server over Couchbase.

This directory holds TLA+ models of that code, the TLC configurations that
check them on small instances, and proofs of the most important properties for
every value of the constants. `PROJECT.json` maps each definition to the lines
it models and lists runs, mutants, findings, hazards and theorems.

Contents:

1. [Inventory](#1-inventory): the system's parts, their state, how they interact
2. [Modules](#2-modules): which module models which part, and how
3. [Runs](#3-runs): what each run checks, its bounds, the fairness
4. [Findings](#4-findings): where code and documentation part
5. [Proofs](#5-proofs): what is proved and by which invariants
6. [Not modelled](#6-not-modelled) and what stays only model-checked
7. [Plan](#7-plan): the order of the work, and what is left


## 1. Inventory

Paths are relative to `src/IOS/ArRobotCode` unless they start with `src/`.

### The game

| component | code | state | operations |
|---|---|---|---|
| Level data | `Entities/DataTile.swift`, `DataLevel.swift` | width, height and a flat array of tile types | `swap`, `cycleLeft`, `cycleRight`, `setWidth`, `setHeight`, `reAssignTiles` |
| Game engine | `Game/Engine/EngineAR.swift` | position, direction, the flags `valid` and `done`, the last event | `moveFront/Back`, `turnLeft/Right`, their `If` forms, `stopLevel`, `resetLevel` |
| Game session | `Game/GameUISplitViewController.swift`, `Game/Instructions/InstructionsViewController.swift` | two message streams, two background threads, the main queue, the popup, the blocks that glow | receive a message of the page, handle an event, carry out an instruction, show an outcome, navigate back |
| AR player and scene | `Game/Instructions/Player/PlayerAR.swift`, `Game/AR/Scene/GameScene.swift`, `Game/AR/ARViewController.swift` | the drawn ship's node, `playerRoot`, whether the board has been placed | fly, turn, fly home, place the board on a tapped plane, tap |
| Scratch blocks and VM | `src/Scratch/scratch-vm/src`: `engine/runtime.js`, `sequencer.js`, `thread.js`, `execute.js`, `blocks/scratch3_control.js`, `scratch3_motion.js` | the user's program, in a web view; the list of threads with a stack each, timers of waits | green flag, stop button, click on a stack, step; post one message per instruction, `run` and `stop` |

The page runs the program in Scratch's virtual machine: the green flag stops
every thread and starts one per script with a hat, each posting `run`; `_step`
makes passes over the list of threads, in which each thread runs up to its next
loop or wait; a motion block posts its instruction and the block it names. A
thread that is stopped stays in the list until the next step, and a timer cannot
be taken back.

The page posts messages to the main thread (`didReceive`), which puts
instructions on one RxSwift subject and events on another; `run` goes to both.
Each subject is drained by a background thread of its own. The instructions
thread drives the engine, sleeps one second per instruction and posts the
glowing of blocks back to the main queue, from where it reaches the page. The
events thread calls `engine.stopLevel()`. The two threads share the engine
without a lock. Every engine operation also calls the same operation of
`PlayerAR`, which moves a node of the scene and knows nothing of the engine's
indices.

*Hard:* a stop between the guard of a move and the move; a stop and a run
handled in the other order than they were posted; glow calls that outlive their
instruction; a game that goes on behind another screen; the two positions of
the ship, one in tiles and one in scene coordinates, that nothing compares; on
the page, threads that are restarted, clicked and stopped while others take
their turns, counters and timers that live longer than the pass that made them,
a block named by a thread that is not its own.

*Correct when:* the ship of an unfinished game is on the route, so that no read
of `Tiles` misses the array; a run has one outcome and the outcome is true; a
finished game is frozen; a stop cancels what it finds waiting; every
instruction is taken or dropped; no block is left glowing; the drawn ship is
where the engine's ship is; a thread posts what its script means, no more after
it is stopped and with the name of its own block; the ship goes where the posted
instructions lead; every script ends.

### The progress of a user

| component | code | state | operations |
|---|---|---|---|
| User repository | `Repository/UserRepository.swift`, `Entities/UserProperties.swift` | one `UserProperties` object in memory, the document `users/<uid>`, writes and reads on their way | read, save, `addCompletedLevel`, `setUserSelectedCharacter` |
| Sign-in, launch | `AppDelegate.swift`, `Main/AuthViewController.swift` | who is signed in | sign in, create the repositories |
| Cloud function | `src/FirebaseFunctions/functions/src/index.ts` | none | `createUser` |
| Character selection | `Main/Characters/CharactersViewModel.swift`, `Repository/CharactersRepository.swift` | the character shown | `selectCharacter` |
| Achievements, main menu | `Main/Achievements`, `Main/MainViewController.swift` | none of their own | show |

A device writes the whole document at each save and then reads it again; the
answers come on the main thread and replace the object in memory, while
`addCompletedLevel` runs on the background thread of a game. Firestore keeps
the writes of an offline device and shows them to it at once.

*Hard:* answers that are older than the object they replace; the object
replaced between two statements of `addCompletedLevel`; two devices that
overwrite each other; the document made after it was asked for; a restart with
writes outstanding.

*Correct when:* a selected character is unlocked by the levels beside it, in
every copy; memory and server agree once everything has arrived; the exchange
comes to an end; a completed level is recorded and stays recorded.

### The levels

| component | code | state | operations |
|---|---|---|---|
| Levels repository | `Repository/LevelsRepository.swift` | the list in memory, one read of the collection `levels` | `add`, `delete(at:)`, `triggerUpdate`, `get(at:)`, `getAt(ID:)`, `syncFromServer` |
| Level list and builder | `Levels/LevelsSplitViewController.swift`, `Levels/LevelsList`, `Levels/LevelBuilder` | the index of the level each screen is on, the rows, the level shown, whether the administrator's options are there | add, delete, select, edit a tile, change a size, a name, the public flag or the chapter, play, come back |
| Public levels screen | `Main/PublicLevels` | the cells: public levels grouped by chapter | show, open |

The level screen and the games name a level by its index in the repository's
list; a row of the list screen, or a cell of the public levels, is turned into
one when it is tapped. The properties of the user, which say whether he is an
administrator, and the levels arrive independently. Gestures run on
the main thread; the answer of Firestore, and a game that goes on in the
background after the user has left it, come in between.

*Hard:* an index that is stale after a deletion or a load; a filtered list whose
row is used as an index of the unfiltered one; a level added while the
collection is being read; cells that are made once and looked up anew; a role
that arrives after the list; a board that is resized while a game on it goes on.

*Correct when:* list and collection hold the same levels; the builder shows what
it changes; what is deleted was listed; what is marked as completed was played;
what is opened was shown; an administrator has a row for every level; the cells
are the public levels by chapter; a level has a tile per square; nothing ends the
process but what is known to.

### The level server

| component | code | state | operations |
|---|---|---|---|
| HTTP API | `src/Server/src/API/API.go` | one goroutine per request | `GET`, `POST`, `PUT`, `DELETE` of `/levels` |
| Couchbase repository | `src/Server/src/Repository/CouchBaseRepository.go` | the bucket, name to level | `GetLevels`, `GetLevelByName`, `AddLevel`, `UpdateLevel`, `DeleteLevel` |
| Start | `src/Server/main.go` | none | adds two levels at every start |

*Hard:* a rename is four calls to the bucket with no lock around them; a call
can fail with or without effect; the server can go down between two calls; the
levels `main` adds meet the ones already there.

*Correct when:* a level is stored under its own name; nothing but an update
writes over a level; the answers account for the levels; every request ends.


## 2. Modules

    LevelData ----> EngineOps ----> EngineAR ----> DrawnGame
        |               |              ^  \
        |               |              |   `--implements--> LevelPlay
        |               |--------> GameSession -----.
        |               |             (implements    |
        |               |              EngineAR)     v
        |               `--> ScratchProgram     PageSession
        |                          |                 ^   (implements
        |                          `--> ScratchVM ---'    GameSession)
        |
        `---> LevelsRepository ----> LevelEditor <---- PublicLevels
    UserRepository                  LevelServer

Arrows are EXTENDS, unless they say something else. `MC*` modules give the
constants their values for TLC, `*Proofs` modules hold theorems, and
`FoldLemmas` the facts on induction, folds and recursive functions they share.
A definition
whose comment starts with "Mutant:" is no part of the model: it is a plausible
mistake in one definition, and `PROJECT.json` names the property that refutes
it.

**LevelData** has tile types, the gestures that change one (`Swap`,
`CycleLeft`, `CycleRight`) and the change of a board's size (`ReAssignTiles`).
The six colours `Used` ... `UsedE` are numbers as in the enumeration. A level
has its public flag and its chapter; name and order are left out.

**EngineOps** has the engine as one record (`pos`, `dir`, `valid`, `done`,
`event`) and one operator per method or part of a method. Moves are split into
`Shifted` (the translation) and `Checked` (`checkIfInvalid` and `checkIfDone`),
because `GameSession` needs the point in between. As in the code `x` runs over
rows and `y` over columns, a position becomes an index by
`matrixCoordinatesToVector`, and the position after a step off the board is
kept, not clipped. The status text is left out.

**EngineAR** is the engine alone: one action per public method, each atomic.
**LevelPlay** is the abstract game it implements: a walk on a graph of cells,
whose last cell decides. The refinement maps a position outside the board to
one place `OffBoard` and the two flags to a phase.

**DrawnGame** adds the ship of the scene. `place` is the ship's offset from
`playerRoot` in tiles, `angle` its rotation in quarter turns; `simdWorldFront`
is SceneKit's front of a rotated node, and the sign in `PlayerAR.moveFront` is
kept, because the model of the ship points backwards. Its first heading (half a
turn) and the place of `playerRoot` are those of the node in
`art.scnassets/game.scn`; `reset` turns to the same heading. A flight lasts a
second and so does an instruction, so the flight of an instruction is one step
with it; the flight of a tap is not, and a reset that comes while it lasts
leaves the ship at an unknown place, `Lost`. `SpawnLevel` may happen at any
moment of a game and traps on a level without a Finish tile.

**GameSession** cuts the two threads and the main thread wherever another one
can come between. The events thread only writes `valid`; all other fields of
the engine belong to the instructions thread, so a step of that thread ends
wherever it reads or writes `valid`:

| `pc` | the instructions thread is | next |
|---|---|---|
| `idle` | between two messages | `TakeInstruction`, `SkipInstruction` |
| `guard` | before `if isFinished()` of the engine's method | `ResetLevel`, `Refused`, `TestColour`, `BeginOperation` |
| `inner` | in an `If` method, before the guard of the method it calls | `Refused`, `BeginOperation` |
| `move` | after the guard, before `crtPosition` changes | `Move` |
| `check` | before `checkIfInvalid` | `Check` |
| `sleep` | in `sleep(1)` | `EndInstruction` |

`Receive` is `didReceive`; `HandleEvent` the events thread; `RunMainQueue` a
closure of the main queue; `DismissPopup` and `NavigateBack` the user.
`outcomes`, `runAt` and `cancelled` are history the properties speak about.
`SafetySpec` is the session without fairness, `Spec` with it. Seen through
`Settled`, which carries an operation that has passed its guard through to its
end, a session implements `EngineAR`.

**ScratchProgram** has the blocks of a page as the block container keeps them (a
function from ids to blocks with `next` and branches) and `Meaning`: the
instructions a script stands for, by structural recursion, with the rounds of
loops and the stop blocks. A program has no block below or inside itself
(`IsProgram`): `moveBlock` takes a block off its old parent before it puts it under
a new one, and `getTopLevelScript` climbs from parent to parent until there is
none. **ScratchVM** is how the page runs it. Its buttons are
`GreenFlag`, `StopAll` and `ToggleScript`; `StartHat` is one round of `startHats`;
`BeginPass` and `StepThread` are `_step` and the sequencer's passes; `Resolve` is a
timer. A thread has its stack with the loop counters in the frames. The order of
the array of threads is the `place` of each: a restarted thread takes the place of
the one it replaces, a new one goes to the end. Passes are atomic as JavaScript
is (`turn` marks one under way, and no button acts then); between two passes
anything may come, because a step ends after whichever pass its time is up.

**PageSession** is the page and the session together: what the machine posts in a
step, `didReceive` gets in the same step (`Deliver`). The main thread receives
messages in the order they are posted and puts them into two queues of which
nobody says when they are read, so that a delay before the queues would add
nothing. Its `SafetySpec` is that of `GameSession` with fewer messages: every
behaviour of a page with its session is a behaviour of a session, and all
theorems of `GameSession` hold of it.

**UserRepository** has the document and, per device, the object in memory, the
writes the server has not seen and the reads it has asked for. `CommitWrite`,
`AnswerGet` and `FailGet` are Firestore and the network: the reads of a device are
answered in their order, and each can end with an error, or with a document that
cannot be decoded, whether or not the document exists. `DeliverGet` is the
completion handler, which leaves the object as it is when there is no document and
never asks again; `missed` remembers that the last answer brought none.
`AddCompletedLevel`, `AppendLevel` and `SaveLevel` are the three points of
`addCompletedLevel` between which the object can be replaced; `Launch` is a
process that ends at any moment and starts again, which loses memory and
unanswered reads, not the writes.

**LevelServer** has the bucket and, per request, the call to Couchbase the
handler is at. Each call is atomic, and each may fail: then the handler sees an
error and nobody knows whether it took effect. `Restart` ends every request and
adds `main`'s two levels again, ignoring the error when they are there.

**LevelsRepository** is the list, its one load and the writes behind it.
Firestore shows a device its own writes at once, so `documents` is the
collection as this device sees it; other devices' writes are left out.
**PublicLevels** has what `PublicLevelsViewModel` makes of a list: `Sorted`, and
`AddCell`, which begins a section when the chapter changes; `AreChapters` says what
the cells should be. The sort of Swift 4.2, the version of the project, inserts one
element after the other when there are fewer than 20, and so keeps the order of a
chapter; of a longer array it promises the order by chapter only. `ManyLevels` is
that length. From it on `Sorted` is some order by chapter, of which nothing else is
known (`ByChapterOrders`), and `AreChapters` asks for the order within a chapter
only below it.

**LevelEditor** adds the screens, two menus of which one is at a time on top: the
main menu with the public levels, and the level screen with the list and the
builder. Every gesture is one step of the main thread with everything it calls.
`Deliver` is the answer of Firestore with what it makes the screens do, and
`DeliverProperties` the answer about the user: the main menu makes its cells of
the first list and the first properties it gets and keeps them (`take(1)`), the
list screen makes its rows of each list with the role known at that moment, and
the builder has the switch and the chapter of administrators if the role is
known when it is made. A level the builder loads may be written back at once,
because its name is typed into the field (`WriteBack`). A game covers the screen
it was opened from and goes on after the user has left it: `Done` is a game that
is completed, `Trap` a game whose `DataLevel` object has got another size and
whose thread reads past the end. A subscript out of range is `Crash`.

## 3. Runs

| run | module, cfg | checks | distinct states |
|---|---|---|---|
| `engine` | MCDrawnGame, DrawnGame.cfg | type invariants, `OnTheRoute`, `DoneOnFinish`, `ShipOnItsTile`, `FinishedIsFrozen`, `ImplementsPlay` | 21,336 |
| `session` | MCPageSession, PageSession.cfg | `TypeOK`, `PlaysOnRoute`, `OneOutcomePerRun`, `GlowTracksInstruction`, `PostsTheScript`, `SilencedByButtons`, `NamesItsBlock`, `ShipFollowsPage`, `StopCancels`, `ImplementsEngine`, `EveryInstructionTaken`, `GlowEnds`, `ScriptsEnd` | 365,725 |
| `user` | MCUserRepository, UserRepository.cfg | `TypeOK`, `SelectionEarned`, `MemoryConverges`, `Settles` | 1,196,205 |
| `server` | MCLevelServer, LevelServer.cfg | `TypeOK`, `KeyIsName`, `LevelsAccounted`, `OnlyUpdatesOverwrite`, `RequestsEnd` | 28,774 |
| `editor` | MCLevelEditor, LevelEditor.cfg | `TypeOK` with a tile per square, `MirrorsServer`, `BuilderShowsItsLevel`, `CrashesExplained`, `PlaysWhatIsShown`, `AdministratorSeesAll`, `CellsAreChapters`, `SwipesUndo` | 581,383 |

The seven other runs each show one violation (section 4); those of the session
(MCGameSession) let the page post any message at any moment.

### What the properties say

- `OnTheRoute`, `PlaysOnRoute`: the ship of a game that is not over is on the
  route; in a session, at every point but the one between a move and its check.
- `DoneOnFinish`, `OneOutcomePerRun`: a game is won on a Finish tile, and a run
  is announced as won or lost at most once, whichever way a stop interferes.
- `FinishedIsFrozen`: an operation that finds the game over changes nothing, a
  reset excepted.
- `ImplementsPlay`, `ImplementsEngine`: the engine is the abstract game; the two
  threads are the engine.
- `ShipOnItsTile`: the drawn ship is on the engine's tile with the engine's
  heading, however far it has gone and whenever the board was placed, and again
  from the first run that begins after a tap's flight has ended.
- `StopCancels`: what a stop finds waiting ahead of the next run never moves or
  turns the ship.
- `GlowTracksInstruction`, `GlowEnds`: one block glows at a time, the one whose
  instruction is under way, and none for ever.
- `EveryInstructionTaken`: an instruction is carried out or dropped.
- `PostsTheScript`: however loops, conditions, waits and stop blocks are nested
  and threads take turns, what a thread has posted and what its stack still holds
  are together the meaning of its script; a thread that has ended has posted all.
- `SilencedByButtons`: no thread that was there before a run or a stop posts an
  instruction after it, the runs that one flag posts for its scripts counting as
  one: the engine gets no instruction of an earlier flag after a reset.
- `NamesItsBlock`: on a page with one script a message names the block it comes
  from, or for a turn the outermost block, as the code has it. With two scripts
  the name is read from the stack of another thread.
- `ShipFollowsPage`: between two instructions, the ship of a game that is not
  stopped is where the instructions posted since the run lead to. It relates the
  history of the page to the engine, through two queues and two threads.
- `ScriptsEnd`: every thread of the page ends or is stopped, `forever` included.
- `SelectionEarned`: in memory, on its way or on the server, no copy of the
  properties has a character its levels do not unlock.
- `MemoryConverges`, `Settles`: the exchange with Firestore ends, and then the
  memory of the only signed-in device agrees with the server, unless its last read
  failed. That exception is real: when a level is appended while the answer to the
  save before it waits for the main thread, the answer takes the level out of
  memory, and only the read after the second save brings it back. If that read
  fails, the next save writes the older properties over the level the document had.
- `KeyIsName`, `OnlyUpdatesOverwrite`, `LevelsAccounted`, `RequestsEnd`: as in
  the inventory; `LevelsAccounted` is an equation per name between what the
  server started with, what it answered, and what the bucket holds.
- `MirrorsServer`: list and collection hold the same levels after the load,
  unless a level was added between its question and its answer, in which case
  the code does list it twice.
- `BuilderShowsItsLevel`: the builder shows what its gestures change until a
  level is deleted, whatever is added, delivered or written back behind it.
- `CrashesExplained`: the process ends only after a deletion behind the builder,
  for want of a level to play, by a game on a resized board, or on cells older
  than the collection. In particular a fresh screen never subscripts wrongly.
- `PlaysWhatIsShown`: a game is on the level its screen showed, although a tap on
  a cell computes the cells anew and looks the UUID up again, unless a level was
  deleted behind the builder or added behind the cells.
- `AdministratorSeesAll`: with the properties there before the screen, an
  administrator has a row for every level, so that a row is the right index.
- `CellsAreChapters`: on every list that additions, edits, deletions and loads lead
  to, the cells agree with the reference definition: a header per chapter, and under
  it each public level of the chapter as often as the list has it, in the order of
  the list if the list is short.
- `SwipesUndo`: swipes to the two sides are inverse on every tile they lead to.

### Bounds

- `engine`: every level of 1 by 1 and of 2 by 1 tiles, over Free, Start, Finish
  and one conditional colour (a plain one on the single tile), columns of three
  and boards of 3 by 2 with a corner. Beyond the single tile no board is square,
  so rows and columns cannot be exchanged without a trace; levels with no Start,
  two Starts or no Finish are among them. Instructions, stops and resets are not
  bounded. `MaxTaps = 1`: a second tap only moves a ship that is already apart.
- `session`: a column of three tiles whose second is coloured, and four programs:
  a repeat of a conditional move and a move; a `forever` around a turn and an `if`
  with a wait; two scripts with a hat each, one with "stop other scripts", one with
  "stop this script" inside an `if`; and a script with nested repeats and an
  if-else that has no hat, beside one with an empty repeat and "stop all". Up to five
  messages (`MaxMessages`), two taps on the flag, the stop button or a stack, three
  for the first program (`MCMaxTaps`): flag, stop and flag again with an instruction
  between is what the properties are about. `ForeverRounds` is 2 where the code has
  500; the properties ask only that the counter survives passes, waits and inner
  blocks. The proofs cover any programs and any number of messages and taps.
- `user`: two devices, two levels, a character for everybody and one that a
  level unlocks, three completions (so that a level can be completed twice), one
  selection, two launches. Two devices are needed for one to be outdated.
- `server`: two requests of any kind per life of the server, two names of which
  `main` adds one, two values of a level, one failure, one restart. Two requests
  are what a race needs; a rename against an addition is among them.
- `editor`: a user or an administrator, two stored levels of which the first is
  another user's and comes last by chapter, room for one more, widths and
  heights 1 and 2, chapters 0 and 1, two changes (an addition, a tile, a size,
  a name, a flag, a chapter), one game from either screen, one restart.
  Deletions, selections, the ways between the screens and the moments of the
  answers are not bounded. One addition and one edit are what a stale index or
  stale cells need; two levels what a wrong row needs. `ManyLevels` is 3 in
  `LevelEditor.cfg`, so that lists of three are sorted in an order nobody knows and
  shorter ones by insertion, and 20, as in Swift, in the two configurations that
  show a violation.

`CHECK_DEADLOCK FALSE` is set because each of these systems may really stop: the
process of `engine` and `editor` can crash, and in the others all taps, messages,
requests and plays can be used up.

### Fairness

Only what the platform's scheduler gives. `GameSession`: weak fairness of the
main queue, of the events thread and of the instructions thread, each a queue of
Grand Central Dispatch that runs while it has work. `PageSession` adds the
machine of the page, which an interval timer steps, and the timers of waits; a
`Tap` is never assumed. `UserRepository`: weak fairness of the cloud function,
of Firestore's deliveries and of a background thread that has begun.
`LevelServer`: weak fairness of each goroutine. Nobody has to press a button,
send a request or play. `EngineAR`, `DrawnGame` and `LevelEditor` state no
liveness and assume no fairness.


## 4. Findings

Each is a run that TLC ends with a counterexample to one property, which states
what the code or its documentation says.

- `move_after_stop`: `EngineAR.moveFront` checks that the game goes on and then
  moves. A stop on the events thread falls in between, and the ship of a
  stopped game moves (`NoMoveWhenFinished`).
- `late_stop`: a stop posted before a run can be handled after the run's reset,
  and ends the run the user has just started (`StopEndsEarlierRuns`).
- `user_forgotten_level`: nobody tells `UserRepository` of a sign-in, so on the
  first launch there are no properties and a completed level is not recorded
  (`CompletedLevelsRecorded`).
- `user_overwritten_level`: a device with older properties writes the whole
  document and takes away a level of another device (`RecordedStays`).
- `server_rename`: a rename finds the new name free, deletes the old level, and
  then cannot add the new one, because another request has taken the name: an
  error for the client, and the level is gone (`RefusedUpdateKeepsLevel`).
- `editor_wrong_row`: a row of the filtered list is used as an index of the
  unfiltered one, so that deleting a row can delete another user's level
  (`OnlyListedDeleted`).
- `editor_wrong_mark`: a game that goes on after the user has left it marks
  whatever level is at its index by then (`CompletedIsPlayed`).


## 5. Proofs

All theorems are for every value of the constants that satisfies the
assumptions of the modules. These are: levels have positive sizes and a tile
per square (`LevelsAssumption`, `SessionAssumption`), messages have the
operations and colours `didReceive` accepts, bounds and `ManyLevels` are natural
numbers, `None`, `Awaited`, `Lost` and `Elsewhere` are no proper values, a new user's character needs no
levels (`UserAssumption`), `main`'s levels have different names
(`ServerAssumption`), stored levels have different UUIDs
(`RepositoryAssumption`), a program's blocks refer to blocks of it and
none is below or inside itself (`ProgramsAssumption`), `forever` has a natural number of rounds
(`ForeverAssumption`), and what the programs post are messages
(`PageAssumption`).

| module | theorem | states |
|---|---|---|
| DrawnGameProofs | `TypeCorrect` | `Spec => []TypeOK`, of the engine alone |
| | `RouteInvariant` | `OnTheRoute` and `DoneOnFinish` |
| | `FrozenTheorem` | `FinishedIsFrozen` |
| | `EngineImplementsPlay` | `Spec => ImplementsPlay` |
| | `ShipFollowsEngine` | `DrawnTypeOK` and `ShipOnItsTile` |
| | `DrawnImplementsEngine` | `DrawnSpec => Spec` |
| GameSessionProofs | `SessionTypeCorrect` | `TypeOK`, with `Control` |
| | `SessionOutcomes` | `PlaysOnRoute` and `OneOutcomePerRun` |
| | `SessionImplementsEngine` | `SafetySpec => ImplementsEngine` |
| | `SessionInOrder` | `CancelInv`, the order of the waiting messages |
| | `SessionStopCancels` | `StopCancels` |
| | `SessionGlow` | `GlowTracksInstruction` |
| PageSessionProofs | `PageIsASession` | `SystemSpec => SafetySpec` |
| | `PageKeepsSession` | the theorems of the session, of the page with it |
| | `ButtonsSilence` | `SilencedByButtons` |
| | `PageNamesItsBlock` | `NamesItsBlock` |
| | `ShipFollows` | `ShipFollowsPage` |
| | `PageKeepsToProgram` | `PostsTheScript` |
| UserRepositoryProofs | `UserInvariant` | `TypeOK` and `SelectionEarned` |
| | `OnlyDeviceConverges` | `MemoryConverges` |
| LevelServerProofs | `ServerInvariant` | `TypeOK` and `KeyIsName` |
| | `NothingOverwritten` | `OnlyUpdatesOverwrite` |
| | `ServerAccounts` | `LevelsAccounted` |
| LevelEditorProofs | `EditorInvariant` | `RepositoryTypeOK` and `MirrorsServer` |
| | `EditorScreens` | `TypeOK`, `BuilderShowsItsLevel`, `AdministratorSeesAll`, `PlaysWhatIsShown` |
| | `EditorSwipes` | `SwipesUndo` |
| | `EditorCells` | `CellsAreChapters` |
| | `EditorCrashes` | `CrashesExplained` |

**Induction** (`FoldLemmas`). The library's induction theorems take an operator
and cannot be cited, but the fact they rest on, that a well-founded relation has
minimal elements, is about sets and can. From it come induction over a set of
numbers, the least and the greatest index with a property, and two facts about
definitions: a left fold is the last of a sequence of values, each of which is a
step from the one before (`FoldExists`), and a recursive function exists, is
unique on a prefix, and does not change where its sequence grows
(`RecursionExists`, `RecursionGrows`). The step and the property are sets and
functions, no operators, so that a proof about any fold can cite them. The same is
proved of functions defined by recursion along a tree (`TreeRecursionExists`,
`TreeRecursionUnique`): a set of nodes of which every nonempty subset has one with
no child in it.

**Lemmas on the engine** (`EngineOpsProofs`): what each operator returns and
preserves, stated with ASSUME and PROVE. The central ones say that an index
made from a position on the board is an index of `Tiles` (a product of a row
and a width, bounded by cases) and that `Checked` leaves an unfinished engine on
the route. `EngineAR`, `DrawnGame` and `GameSession` cite them.

**The engine implements the game.** One lemma per operation maps it to `Enter`,
`GiveUp`, `StartRun` or a stutter of `LevelPlay`; a move needs `OnTheRoute`,
because `Enter` is only possible from a cell of the board.

**The drawn ship** (`DrawnInv`). `ShipOnItsTile` speaks of a board that has been
placed; the invariant has to hold before that. `Follows` compares the drawn ship
with the level's start position instead of with `playerRoot`, and says which
angle goes with which direction; `RootOnStart` says that a placed board puts
`playerRoot` on the Start tile when there is exactly one. The two together give
the property.

**The session.** `Control` says what each value of `pc` has learnt from the steps
before it (a held operation is a move, `done` is false, a tested colour is that
of the tile). It is not true of `valid`, which the events thread may clear at
any point: this is why `PlaysOnRoute` excludes only `pc = "check"`.
`SessionOutcomes` adds `NotYetAnnounced`: an operation that has passed its guard
finds no outcome. `SessionStopCancels` has the longest invariant, `CancelInv`:
`InOrder` says that the numbers of waiting messages grow along the queue and that
the one in hand is before them; `CancelledAhead` that a cancelled number that is
still to come has an engine that is not valid and no run before it, so that
nothing can make the engine valid again first.
`SessionGlow` follows the calls on the main queue: they alternate between on and
off of one block (`QueueAlternates`), the page is where the first of them expects
it, and the last is what the instructions thread did last (`GlowInv`).
`SessionImplementsEngine` maps each step of each thread to a step of `EngineAR`
or a stutter. The delicate case is a stop while a move is under way:
`Settled` commutes with it.

**The page.** `PageInv` is the type of the machine with `Distinct` (two threads
of the list have two places), `Numbered` (the numbers and places of threads were
given out), `InTurn` (during a pass the thread of the turn is there and runs,
and stopped threads have no stack) and `SilenceInv`. The latter is why
`SilencedByButtons` holds: a thread that is not stopped has a number above those
there were at the last stop, and at the last flag but for the scripts the flag
has started since; restarting one in place gives it a new number. Every message
is one of `Messages`, whence `PageIsASession`. `PageNamesItsBlock` adds `Alone`:
with one script, at most one thread is not stopped, and during a pass there is
no other, because the step dropped the stopped ones at its start: the first
thread of the list is the one that posts.

`ShipFollows` rests on `Known`, the invariants of the page and of the session
together, to which it adds how far each side has got: `posts` are the page's
messages, every instruction from `Upcoming` on waits in the queue, and between it
and the one in hand there is none (`LinkInv`). `Played` is the ship after a
prefix of the posts, a recursive function of which three things are needed: a
post changes no earlier value (`PlayedGrows`), each value is one operation from
the one before (`PlayedFacts`), and messages that are no operations change
nothing (`Gapless`). The invariant `Follows` says for each `pc` which of these
values a valid engine is at, up to the event it announced last. A stop makes the
engine invalid, and what it leaves in the queue finds it so until the next run,
by `CancelInv`.

`PageKeepsToProgram` first makes `Meaning` a function one can reason with: the tree
recursion exists (`MeaningIs`), so that the meaning of a block is its own, then that
of the block below. Meanings combine by `Then`, which is associative and has
`Nothing` for a unit (`ThenTogether`, `ThenNothing`); a stop block makes all that
follows it void. What a stack has left is the product of what its frames have
left, from the top down. Putting a frame on and taking one off change it by one
factor (`PushFacts`, `CutFacts`), and from that a lemma says for each thing the
machine does to a stack what it does to what is left: a thread that has run
through a branch unwinds to the loop or the block below it and loses nothing
(`UnwoundLeft`, `ResumedLeft`), an entered branch stands for the block it is
in (`EnterLeft`), a round of a loop takes one off its counter (`LoopedLeft`), and
a move or a turn takes its instruction off the front (`ExecutedLeft`), which the
thread posts in the same step. The invariant is `ScriptInv`: what each thread has
posted, then what its stack has left, is the meaning of its script. It needs that
only loops have counters (`GoodStack`), that an empty branch is on a stack only in
a loop or as its only frame (`NoLooseEnd`), that a promise is that of a wait on
top of the stack, and that a thread that came to its end does not go on
(`Halts`).

**User properties.** `SelectionEarned` is inductive together with `TypeOK`
because it speaks of all copies at once: a copy only ever comes from another
copy, with a level more or a character that was checked against the same copy.
`OnlyDeviceConverges` strengthens `MemoryConverges` to states in which something
is still on its way (`Converging`): on the only signed-in device, the last
outstanding read brings what the device sees of the document, its own writes
included, or nothing; with no read outstanding the memory has that already, except
between the change of the object and its save, which asks for another read, and
after a last read that brought nothing. Failed reads before the last do no harm,
because the last one brings the whole document.

**The server.** `NothingOverwritten` needs `Fits`, which says what a request at
each call has asked for. `ServerAccounts` proves the equation through `Counted`,
one sum per name that each call changes on both sides alike; a request in the
middle of a rename counts as a removal.

**The list of levels** (`RepInv`). `MirrorsServer` speaks of the time after the
load; the invariant follows the load from its question on. `OwnOnly`: until the
answer is delivered the list has exactly the levels made since launch that still
exist. `AnswerStands`: what the answer says of any other level is still so,
because nothing on this device can change a level it does not list. `UsedKnown`:
every document has a UUID that has been used, so that a new one is no document.

**The screens** (`IInv`, which is `RepInv`, `ScreenInv` and `GamesOK`).
`BuilderShowsItsLevel` needs that the builder is on the level the screen opens or
on none (`LevelOpened`), and that writing a loaded level back changes nothing
(`WriteBackKeeps`). `AdministratorSeesAll` needs that the builder has an
administrator's options only when the role is known (`OptionsKept`), because the
role is never forgotten before a restart. `PlaysWhatIsShown` needs `CellsFresh`:
until a level is added the cells are what they would be if made now; and
`GetAtFinds`, the least index with a UUID. A game keeps what it was given
(`GamesOK`). `EditorSwipes` needs only the types of tiles. `EditorCrashes` looks
at each subscript: a row or cell of a fresh screen is an index of the list, or of
the cells made of the same list, so that a step which ends the process comes with
one of the reasons the property names.

**The cells of the public levels** (`EditorCells`). The insertion sort and the
making of cells are both folds. After every prefix of the list the inserted levels
are a permutation of it in chapter order, the levels of a chapter in the order of
the list (`StableSort`). That shows that every list has an order by chapter, so
that the sort of a long list is one too (`Sorting`), and it is all that is known of
it: a long list keeps its levels, not their order (`ItemsUnsorted`), a short one
both (`ListsUnsorted`). After every prefix of the sorted levels there is one
section for each chapter so far, the last of them the chapter of the last level,
and each lists the public levels of its chapter (`CellsInv`).


## 6. Not modelled

Only model-checked: liveness (`EveryInstructionTaken`, `GlowEnds`, `ScriptsEnd`,
`Settles`, `RequestsEnd`), which is outside what TLAPS proves here.

Left out:

- *Blocks of the page whose course depends on a value* (`repeat until`, `wait
  until`, operators, variables): the condition of an `if` is fixed in the program.
  Procedures, clones, broadcasts and turbo mode; a script that is edited while it
  runs.
- *Messages on their way* from the page to the main thread (section 2).
- *Planes, lights, scales, frames of a flight.* Floating point and SceneKit's
  timing. A flight that a late frame starts with the old heading is a hazard no
  model covers.
- *Achievements and the menus of characters and achievements.* They read once and
  show; so does the mark of a completed level on a cell of the public levels.
- *The order of levels* (`setOrder`), which no control on the screen changes, their
  names (typing one is modelled, the text is not), layout.
- *Subscriptions that are made again* when a view is reused, and the further
  events a gesture recognizer sends while a long press goes on.
- *Two games of one device that are completed at the same time*, each with a
  background thread in `addCompletedLevel`: the model has one such thread per device.
- *Documents of the collection and bodies of requests that cannot be decoded*, and an
  addition of `main` that fails at the first start: the levels the list starts from
  and those the server starts with are there. An undecodable document of the user is
  a failed read.
- *A stop that is on its way when the page is covered* by a popup or a menu: the page
  of `PageSession` stays on the screen.
- *Six colours.* License.tex:525 speaks of five colours of tiles; code and model cycle
  through the six that `Tile` has. No property depends on their number.
- *Other devices' changes of levels.* `LevelsRepository` reads the collection
  once per launch, so they would be seen as part of the stored levels; that they
  can overwrite each other is the same story as in `UserRepository`.
- *What a game reads from a resized board.* `Trap` says that it may end the
  process; which tiles it sees when it does not is a race whose outcomes the
  session does not follow.
- *Earlier versions* (`FirebaseLevelsRepository`, `PlayerHexa`,
  `AlternativeInstructionsViewController`, `LevelsListViewController`), which
  nothing calls, and the pods.

Hazards without a property are listed in `PROJECT.json` with the reason.


## 7. Plan

The order was: what a child sees go wrong first, then what loses work.

1. `LevelData`, `EngineOps`, `EngineAR`, with `LevelPlay` as its promise.
2. `GameSession`, composed with the engine by refinement.
3. `UserRepository`.
4. `LevelServer`.
5. `LevelsRepository`, and `LevelEditor` on top of it.
6. `DrawnGame`, the scene on top of the engine.
7. `ScratchProgram`, `ScratchVM`, and `PageSession`, which composes the page with
   the session.
8. `PublicLevels`, the role of the user and the administrator's options, and games
   on levels that are resized, in `LevelEditor`.

All are done, and every safety property that a run is to pass with is proved.
Still worth having:

- `MemoryConverges` for any number of devices;
- conditions that change while a program runs, and with them `repeat until` and
  `wait until`;
- a session around one `DataLevel` object with a builder that resizes it, to say
  which reads of `Tiles` can miss the array.

## Running the checks

    tlc -workers 2 -config DrawnGame.cfg MCDrawnGame
    tlapm DrawnGameProofs.tla

The other runs and proof modules are started in the same way; the longest run
takes about two minutes.
