-------------------------- MODULE LevelEditorProofs --------------------------
(***************************************************************************)
(* The list of levels and the collection of Firestore stay the same levels *)
(* (MirrorsServer), the screens show what the list has, the cells of the   *)
(* public levels are its chapters in order, and the process ends only for  *)
(* the reasons known: for every set of levels, users, sizes and chapters   *)
(* and without any bound on edits, games and launches.                     *)
(***************************************************************************)
EXTENDS LevelEditor, FoldLemmas, FiniteSetTheorems

-----------------------------------------------------------------------------
(* Levels.                                                                 *)

\* A record of the right fields is a level.
LEMMA MakeLevel ==
  ASSUME NEW u \in UUIDs, NEW b \in Users, NEW p \in BOOLEAN, NEW c \in Chapters,
         NEW w \in Sizes, NEW h \in Sizes,
         NEW tiles \in [TileIndices(w, h) -> TypeOfTile]
  PROVE  [UUID |-> u, ByUserID |-> b, Public |-> p, Chapter |-> c,
          Width |-> w, Height |-> h, Tiles |-> tiles] \in Level
<1> DEFINE lvl == [UUID |-> u, ByUserID |-> b, Public |-> p, Chapter |-> c,
                   Width |-> w, Height |-> h, Tiles |-> tiles]
<1>1. lvl \in [UUID: UUIDs, ByUserID: Users, Public: BOOLEAN, Chapter: Chapters,
               Width: Sizes, Height: Sizes,
               Tiles: UNION {[TileIndices(x, y) -> TypeOfTile] : x, y \in Sizes}]
  <2>1. tiles \in UNION {[TileIndices(x, y) -> TypeOfTile] : x, y \in Sizes}
    <3> DEFINE boards == {[TileIndices(x, y) -> TypeOfTile] : x, y \in Sizes}
    <3>1. [TileIndices(w, h) -> TypeOfTile] \in boards
      OBVIOUS
    <3> HIDE DEF boards
    <3>2. tiles \in UNION boards
      BY <3>1
    <3>3. QED
      BY <3>2 DEF boards
  <2>2. QED
    BY <2>1
<1>2. IsLevel(lvl)
  BY RepositoryAssumption DEF IsLevel
<1>3. QED
  BY <1>1, <1>2 DEF Level

\* And a level has these fields.
LEMMA LevelFields ==
  ASSUME NEW lvl \in Level
  PROVE  /\ lvl.UUID \in UUIDs /\ lvl.ByUserID \in Users
         /\ lvl.Public \in BOOLEAN /\ lvl.Chapter \in Chapters
         /\ lvl.Width \in Sizes /\ lvl.Height \in Sizes
         /\ lvl.Tiles \in [TileIndices(lvl.Width, lvl.Height) -> TypeOfTile]
         /\ lvl = [UUID |-> lvl.UUID, ByUserID |-> lvl.ByUserID,
                   Public |-> lvl.Public, Chapter |-> lvl.Chapter,
                   Width |-> lvl.Width, Height |-> lvl.Height, Tiles |-> lvl.Tiles]
BY DEF Level, IsLevel

\* A gesture on a tile leaves a level, with the UUID it had.
LEMMA SetTileLevel ==
  ASSUME NEW lvl \in Level, NEW tile \in DOMAIN lvl.Tiles,
         NEW type \in Gestures(lvl.Tiles[tile])
  PROVE  /\ SetTile(lvl, tile, type) \in Level
         /\ SetTile(lvl, tile, type).UUID = lvl.UUID
<1>1. lvl.Tiles[tile] \in TypeOfTile
  BY LevelFields
<1>2. type \in TypeOfTile
  BY <1>1 DEF Gestures, Swap, CycleLeft, CycleRight, Coloured, TypeOfTile,
              Free, Used, Start, Finish, UsedA, UsedE
<1> DEFINE tiles == [lvl.Tiles EXCEPT ![tile] = type]
<1>3. tiles \in [TileIndices(lvl.Width, lvl.Height) -> TypeOfTile]
  BY <1>2, LevelFields
<1>4. SetTile(lvl, tile, type) =
        [UUID |-> lvl.UUID, ByUserID |-> lvl.ByUserID, Public |-> lvl.Public, Chapter |-> lvl.Chapter,
         Width |-> lvl.Width, Height |-> lvl.Height, Tiles |-> tiles]
  BY LevelFields DEF SetTile
<1> HIDE DEF tiles
<1>5. QED
  BY <1>3, <1>4, LevelFields, MakeLevel

\* So does a size, which gives it new tiles.
LEMMA ResizedLevel ==
  ASSUME NEW lvl \in Level, NEW size \in Sizes
  PROVE  /\ SetWidth(lvl, size) \in Level /\ SetWidth(lvl, size).UUID = lvl.UUID
         /\ SetHeight(lvl, size) \in Level /\ SetHeight(lvl, size).UUID = lvl.UUID
<1>1. Free \in TypeOfTile
  BY DEF TypeOfTile, Free, UsedE
<1> DEFINE board(w, h) == [k \in TileIndices(w, h) |-> Free]
<1>2. \A w, h : board(w, h) \in [TileIndices(w, h) -> TypeOfTile]
  BY <1>1
<1>3. SetWidth(lvl, size) =
        [UUID |-> lvl.UUID, ByUserID |-> lvl.ByUserID, Public |-> lvl.Public, Chapter |-> lvl.Chapter,
         Width |-> size, Height |-> lvl.Height, Tiles |-> board(size, lvl.Height)]
  <2>1. [lvl EXCEPT !.Width = size] =
          [UUID |-> lvl.UUID, ByUserID |-> lvl.ByUserID, Public |-> lvl.Public, Chapter |-> lvl.Chapter,
           Width |-> size, Height |-> lvl.Height, Tiles |-> lvl.Tiles]
    BY LevelFields
  <2>2. SetWidth(lvl, size) = ReAssignTiles([lvl EXCEPT !.Width = size])
    BY Zenon DEF SetWidth
  <2>3. ReAssignTiles([UUID |-> lvl.UUID, ByUserID |-> lvl.ByUserID,
                       Public |-> lvl.Public, Chapter |-> lvl.Chapter,
                       Width |-> size, Height |-> lvl.Height, Tiles |-> lvl.Tiles])
          = [UUID |-> lvl.UUID, ByUserID |-> lvl.ByUserID, Public |-> lvl.Public, Chapter |-> lvl.Chapter,
             Width |-> size, Height |-> lvl.Height, Tiles |-> board(size, lvl.Height)]
    BY DEF ReAssignTiles
  <2>4. QED
    BY <2>1, <2>2, <2>3, Zenon
<1>4. SetHeight(lvl, size) =
        [UUID |-> lvl.UUID, ByUserID |-> lvl.ByUserID, Public |-> lvl.Public, Chapter |-> lvl.Chapter,
         Width |-> lvl.Width, Height |-> size, Tiles |-> board(lvl.Width, size)]
  <2>1. [lvl EXCEPT !.Height = size] =
          [UUID |-> lvl.UUID, ByUserID |-> lvl.ByUserID, Public |-> lvl.Public, Chapter |-> lvl.Chapter,
           Width |-> lvl.Width, Height |-> size, Tiles |-> lvl.Tiles]
    BY LevelFields
  <2>2. SetHeight(lvl, size) = ReAssignTiles([lvl EXCEPT !.Height = size])
    BY Zenon DEF SetHeight
  <2>3. ReAssignTiles([UUID |-> lvl.UUID, ByUserID |-> lvl.ByUserID,
                       Public |-> lvl.Public, Chapter |-> lvl.Chapter,
                       Width |-> lvl.Width, Height |-> size, Tiles |-> lvl.Tiles])
          = [UUID |-> lvl.UUID, ByUserID |-> lvl.ByUserID, Public |-> lvl.Public, Chapter |-> lvl.Chapter,
             Width |-> lvl.Width, Height |-> size, Tiles |-> board(lvl.Width, size)]
    BY DEF ReAssignTiles
  <2>4. QED
    BY <2>1, <2>2, <2>3, Zenon
<1> HIDE DEF board
<1>5. QED
  BY <1>2, <1>3, <1>4, LevelFields, MakeLevel

\* So do the switch and the chapter.
LEMMA OptionsLevel ==
  ASSUME NEW lvl \in Level, NEW p \in BOOLEAN, NEW c \in Chapters
  PROVE  /\ SetPublic(lvl, p) \in Level /\ SetPublic(lvl, p).UUID = lvl.UUID
         /\ SetChapter(lvl, c) \in Level /\ SetChapter(lvl, c).UUID = lvl.UUID
<1>1. SetPublic(lvl, p) =
        [UUID |-> lvl.UUID, ByUserID |-> lvl.ByUserID, Public |-> p,
         Chapter |-> lvl.Chapter, Width |-> lvl.Width, Height |-> lvl.Height,
         Tiles |-> lvl.Tiles]
  BY LevelFields DEF SetPublic
<1>2. SetChapter(lvl, c) =
        [UUID |-> lvl.UUID, ByUserID |-> lvl.ByUserID, Public |-> lvl.Public,
         Chapter |-> c, Width |-> lvl.Width, Height |-> lvl.Height,
         Tiles |-> lvl.Tiles]
  BY LevelFields DEF SetChapter
<1>3. QED
  BY <1>1, <1>2, LevelFields, MakeLevel

\* And a new level is one.
LEMMA NewLevelLevel ==
  ASSUME NEW u \in UUIDs
  PROVE  NewLevel(u) \in Level /\ NewLevel(u).UUID = u
<1>1. Free \in TypeOfTile
  BY DEF TypeOfTile, Free, UsedE
<1> DEFINE tiles == [k \in TileIndices(NewSize, NewSize) |-> Free]
<1>2. tiles \in [TileIndices(NewSize, NewSize) -> TypeOfTile]
  BY <1>1
<1>3. NewLevel(u) = [UUID |-> u, ByUserID |-> Me, Public |-> FALSE,
                     Chapter |-> NoChapter, Width |-> NewSize,
                     Height |-> NewSize, Tiles |-> tiles]
  <2>1. NewLevel(u) =
          ReAssignTiles([UUID |-> u, ByUserID |-> Me, Public |-> FALSE,
                         Chapter |-> NoChapter, Width |-> NewSize,
                         Height |-> NewSize, Tiles |-> <<>>])
    BY Zenon DEF NewLevel
  <2>2. ASSUME NEW private, NEW none
        PROVE  ReAssignTiles([UUID |-> u, ByUserID |-> Me, Public |-> private,
                              Chapter |-> NoChapter, Width |-> NewSize,
                              Height |-> NewSize, Tiles |-> none])
                 = [UUID |-> u, ByUserID |-> Me, Public |-> private,
                    Chapter |-> NoChapter, Width |-> NewSize,
                    Height |-> NewSize, Tiles |-> tiles]
    BY DEF ReAssignTiles
  <2>3. QED
    BY <2>1, <2>2, Zenon
<1> HIDE DEF tiles
<1>4. FALSE \in BOOLEAN
  BY Zenon
<1>5. Me \in Users /\ NoChapter \in Chapters /\ NewSize \in Sizes
  BY RepositoryAssumption
<1>6. [UUID |-> u, ByUserID |-> Me, Public |-> FALSE, Chapter |-> NoChapter,
       Width |-> NewSize, Height |-> NewSize, Tiles |-> tiles] \in Level
  BY <1>2, <1>4, <1>5, MakeLevel, Zenon
<1>7. NewLevel(u) \in Level
  BY <1>3, <1>6, Zenon
<1>8. NewLevel(u).UUID = u
  BY <1>3
<1>9. QED
  BY <1>7, <1>8

-----------------------------------------------------------------------------
(* Lists.                                                                  *)

\* What a concatenation is.
LEMMA Concatenated ==
  ASSUME NEW S, NEW a \in Seq(S), NEW b \in Seq(S)
  PROVE  /\ a \o b \in Seq(S)
         /\ Len(a \o b) = Len(a) + Len(b)
         /\ \A k \in 1 .. Len(a) : (a \o b)[k] = a[k]
         /\ \A k \in 1 .. Len(b) : (a \o b)[Len(a) + k] = b[k]
OBVIOUS

\* RemoveAt closes the gap.
LEMMA Removed ==
  ASSUME NEW S, NEW s \in Seq(S), NEW i \in 1 .. Len(s)
  PROVE  /\ RemoveAt(s, i) \in Seq(S)
         /\ Len(RemoveAt(s, i)) = Len(s) - 1
         /\ \A k \in 1 .. Len(s) - 1 :
              RemoveAt(s, i)[k] = s[IF k < i THEN k ELSE k + 1]
<1> DEFINE a == SubSeq(s, 1, i - 1)
           b == SubSeq(s, i + 1, Len(s))
<1>1. /\ a \in Seq(S) /\ Len(a) = i - 1
      /\ \A k \in 1 .. i - 1 : a[k] = s[k]
  OBVIOUS
<1>2. /\ b \in Seq(S) /\ Len(b) = Len(s) - i
      /\ \A k \in 1 .. Len(s) - i : b[k] = s[i + k]
  OBVIOUS
<1>3. RemoveAt(s, i) = a \o b
  BY DEF RemoveAt
<1> HIDE DEF a, b
<1>4. a \o b \in Seq(S) /\ Len(a \o b) = Len(s) - 1
  <2>1. a \o b \in Seq(S) /\ Len(a \o b) = Len(a) + Len(b)
    BY <1>1, <1>2, Concatenated
  <2>2. (i - 1) + (Len(s) - i) = Len(s) - 1
    OBVIOUS
  <2>3. QED
    BY <1>1, <1>2, <2>1, <2>2
<1>5. ASSUME NEW k \in 1 .. Len(s) - 1
      PROVE  (a \o b)[k] = s[IF k < i THEN k ELSE k + 1]
  <2>1. CASE k < i
    <3>1. k \in 1 .. Len(a)
      BY <1>1, <2>1
    <3>2. (a \o b)[k] = a[k] /\ a[k] = s[k]
      BY <1>1, <1>2, <2>1, <3>1, Concatenated
    <3>3. QED
      BY <2>1, <3>2
  <2>2. CASE k >= i
    <3>1. k - (i - 1) \in 1 .. Len(b) /\ Len(a) + (k - (i - 1)) = k
      BY <1>1, <1>2, <2>2
    <3>2. (a \o b)[k] = b[k - (i - 1)]
      BY <1>1, <1>2, <3>1, Concatenated
    <3>3. b[k - (i - 1)] = s[i + (k - (i - 1))] /\ i + (k - (i - 1)) = k + 1
      BY <1>2, <3>1
    <3>4. ~(k < i)
      BY <2>2
    <3>5. QED
      BY <3>2, <3>3, <3>4
  <2>3. k < i \/ k >= i
    OBVIOUS
  <2>4. QED
    BY <2>1, <2>2, <2>3
<1>6. QED
  BY <1>3, <1>4, <1>5

-----------------------------------------------------------------------------
(* The inductive invariant.  MirrorsServer speaks of the time after the     *)
(* answer only; before it, the list has the levels of this launch and no    *)
(* other, and the answer has all the rest, as they still are.               *)

\* The list has no level twice, and shows each as it is.
Known ==
  load \in {"asked", "answered", "delivered"} =>
    /\ Distinct(entities)
    /\ \A k \in DOMAIN entities : documents[entities[k].UUID] = entities[k]

\* Before the answer is delivered, the list has the levels made since launch.
OwnOnly ==
  load \in {"asked", "answered"} =>
    /\ UUIDsOf(entities) \subseteq made
    /\ \A u \in made : documents[u] # None => u \in UUIDsOf(entities)

\* Nobody changes a level that was read and not made since launch.
AnswerStands ==
  load = "answered" =>
    /\ Distinct(answer)
    /\ \A k \in DOMAIN answer :
         answer[k].UUID \notin made => documents[answer[k].UUID] = answer[k]
    /\ \A u \in UUIDs \ made : documents[u] # None => u \in UUIDsOf(answer)

Complete ==
  load = "delivered" =>
    \A u \in UUIDs : documents[u] # None => u \in UUIDsOf(entities)

UsedKnown == \A u \in UUIDs : documents[u] # None => u \in used

RepInv ==
  RepositoryTypeOK /\ Known /\ OwnOnly /\ AnswerStands /\ Complete /\ UsedKnown

\* What is in a list, by index.
LEMMA InTheList ==
  ASSUME NEW list \in Seq(Level), NEW index, InList(list, index)
  PROVE  /\ index + 1 \in 1 .. Len(list) /\ index + 1 \in DOMAIN list
         /\ Get(list, index) = list[index + 1]
         /\ Get(list, index) \in Level
         /\ Get(list, index) # None
         /\ Get(list, index).UUID \in UUIDs
<1>1. index + 1 \in 1 .. Len(list) /\ Get(list, index) = list[index + 1]
  BY DEF InList, Get
<1>2. list[index + 1] \in Level
  BY <1>1
<1>3. QED
  BY <1>1, <1>2, LevelFields, RepositoryAssumption

\* The invariant holds at the first launch.
LEMMA InitKeeps == RepositoryInit => RepInv
<1> SUFFICES ASSUME RepositoryInit PROVE RepInv
  OBVIOUS
<1>1. /\ entities = <<>> /\ answer = <<>> /\ load = "asked" /\ made = {}
      /\ used = {lvl.UUID : lvl \in Stored}
      /\ entities \in Seq(Level) /\ answer \in Seq(Level) /\ DOMAIN entities = {}
  BY DEF RepositoryInit
<1>2. used \subseteq UUIDs
  <2>1. \A lvl \in Stored : lvl.UUID \in UUIDs
    BY RepositoryAssumption, LevelFields
  <2>2. QED
    BY <1>1, <2>1
<1>3. ASSUME NEW u \in UUIDs
      PROVE  /\ documents[u] \in Level \cup {None}
             /\ documents[u] # None => documents[u].UUID = u /\ u \in used
  <2>1. CASE u \in used
    <3>1. PICK lvl \in Stored : lvl.UUID = u
      BY <1>1, <2>1
    <3>2. documents[u] = CHOOSE x \in Stored : x.UUID = u
      BY <2>1 DEF RepositoryInit
    <3>3. documents[u] \in Stored /\ documents[u].UUID = u
      BY <3>1, <3>2
    <3>4. QED
      BY <2>1, <3>3, RepositoryAssumption
  <2>2. CASE u \notin used
    BY <2>2 DEF RepositoryInit
  <2>3. QED
    BY <2>1, <2>2
<1>4. documents \in [UUIDs -> Level \cup {None}]
  <2>1. documents = [u \in UUIDs |-> documents[u]]
    BY DEF RepositoryInit
  <2>2. QED
    BY <1>3, <2>1
<1>5. RepositoryTypeOK
  BY <1>1, <1>2, <1>3, <1>4 DEF RepositoryTypeOK
<1>6. QED
  BY <1>1, <1>3, <1>5 DEF RepInv, Known, OwnOnly, AnswerStands, Complete,
     UsedKnown, Distinct, UUIDsOf

-----------------------------------------------------------------------------
(* Every operation keeps it.                                               *)

LEMMA StutterKeeps == RepInv /\ UNCHANGED repository => RepInv'
BY DEF RepInv, RepositoryTypeOK, Known, OwnOnly, AnswerStands, Complete,
       UsedKnown, Distinct, UUIDsOf, repository

LEMMA RelaunchKeeps == RepInv /\ Relaunch => RepInv'
<1> SUFFICES ASSUME RepInv, Relaunch PROVE RepInv'
  OBVIOUS
<1>1. /\ entities' = <<>> /\ answer' = <<>> /\ load' = "asked" /\ made' = {}
      /\ used' = used /\ documents' = documents
      /\ entities' \in Seq(Level) /\ answer' \in Seq(Level) /\ DOMAIN entities' = {}
  BY DEF Relaunch
<1>2. RepositoryTypeOK'
  BY <1>1 DEF RepInv, RepositoryTypeOK
<1>3. QED
  BY <1>1, <1>2 DEF RepInv, Known, OwnOnly, AnswerStands, Complete,
     UsedKnown, Distinct, UUIDsOf

\* The answer is the collection as it is.
LEMMA AnswerKeeps == RepInv /\ (AnswerLoad \/ FailLoad) => RepInv'
<1> SUFFICES ASSUME RepInv, AnswerLoad \/ FailLoad PROVE RepInv'
  OBVIOUS
<1>1. CASE FailLoad
  BY <1>1 DEF FailLoad, RepInv, RepositoryTypeOK, Known, OwnOnly, AnswerStands,
     Complete, UsedKnown, Distinct, UUIDsOf
<1>2. CASE AnswerLoad
  <2>1. /\ load = "asked" /\ load' = "answered"
        /\ entities' = entities /\ made' = made /\ used' = used
        /\ documents' = documents
    BY <1>2 DEF AnswerLoad
  <2> DEFINE present == {u \in UUIDs : documents[u] # None}
             n == Cardinality(present)
  <2>2. PICK names \in [1 .. n -> present] :
          /\ \A u \in present : \E k \in 1 .. n : names[k] = u
          /\ \A j, k \in 1 .. n : j < k => names[j] < names[k]
          /\ answer' = [k \in 1 .. n |-> documents[names[k]]]
    <3>1. PICK names \in Listings(documents) :
            answer' = [k \in DOMAIN names |-> documents[names[k]]]
      BY <1>2, Zenon DEF AnswerLoad
    <3> HIDE DEF n
    <3>2. /\ names \in [1 .. n -> present]
          /\ \A u \in present : \E k \in DOMAIN names : names[k] = u
          /\ \A j, k \in DOMAIN names : j < k => names[j] < names[k]
      BY <3>1, Zenon DEF Listings, n
    <3>3. DOMAIN names = 1 .. n
      BY <3>2, Zenon
    <3>4. QED
      BY <3>1, <3>2, <3>3, Zenon
  <2>3. n \in Nat
    <3>1. IsFiniteSet(present)
      BY RepositoryAssumption, FS_Subset
    <3>2. QED
      BY <3>1, FS_CardinalityType
  <2> HIDE DEF n
  <2>4. ASSUME NEW k \in 1 .. n
        PROVE  /\ names[k] \in UUIDs /\ names[k] \in Nat
               /\ answer'[k] = documents[names[k]]
               /\ answer'[k] \in Level /\ answer'[k].UUID = names[k]
    BY <2>2, RepositoryAssumption DEF RepInv, RepositoryTypeOK
  <2>5. /\ answer' \in Seq(Level) /\ DOMAIN answer' = 1 .. n
    <3>1. answer' \in [1 .. n -> Level]
      BY <2>2, <2>4
    <3>2. QED
      BY <2>2, <2>3, <3>1
  <2>6. ASSUME NEW j \in 1 .. n, NEW k \in 1 .. n, names[j] = names[k]
        PROVE  j = k
    <3>1. names[j] \in Nat /\ names[k] \in Nat /\ j \in Int /\ k \in Int
      BY <2>3, <2>4
    <3>2. ~(j < k) /\ ~(k < j)
      BY <2>2, <2>6, <3>1
    <3>3. QED
      BY <3>1, <3>2
  <2>7. AnswerStands'
    <3>1. Distinct(answer)'
      BY <2>4, <2>5, <2>6 DEF Distinct
    <3>2. \A k \in DOMAIN answer' : documents'[answer'[k].UUID] = answer'[k]
      BY <2>1, <2>4, <2>5
    <3>3. ASSUME NEW u \in UUIDs, documents'[u] # None
          PROVE  u \in UUIDsOf(answer)'
      <4>1. PICK k \in 1 .. n : names[k] = u
        BY <2>1, <2>2, <3>3
      <4>2. QED
        BY <2>4, <2>5, <4>1 DEF UUIDsOf
    <3>4. QED
      BY <2>1, <3>1, <3>2, <3>3 DEF AnswerStands
  <2>8. RepositoryTypeOK'
    BY <2>1, <2>5 DEF RepInv, RepositoryTypeOK
  <2>9. Known' /\ OwnOnly' /\ Complete' /\ UsedKnown'
    BY <2>1 DEF RepInv, Known, OwnOnly, Complete, UsedKnown, Distinct, UUIDsOf
  <2>10. QED
    BY <2>7, <2>8, <2>9 DEF RepInv
<1>3. QED
  BY <1>1, <1>2

\* A level that never was comes last in the list.
LEMMA AddKeeps == ASSUME NEW u \in UUIDs, RepInv, Add(u) PROVE RepInv'
<1> DEFINE n == Len(entities)
<1>1. /\ u \notin used /\ load' = load /\ answer' = answer
      /\ entities' = Append(entities, NewLevel(u))
      /\ made' = made \cup {u} /\ used' = used \cup {u}
      /\ documents' = [documents EXCEPT ![NewLevel(u).UUID] = NewLevel(u)]
  BY DEF Add, SetData
<1>2. /\ entities \in Seq(Level) /\ n \in Nat /\ DOMAIN entities = 1 .. n
      /\ documents \in [UUIDs -> Level \cup {None}]
      /\ made \subseteq used /\ used \subseteq UUIDs
  BY DEF RepInv, RepositoryTypeOK
<1>3. NewLevel(u) \in Level /\ NewLevel(u).UUID = u /\ NewLevel(u) # None
  BY NewLevelLevel, RepositoryAssumption
<1>4. /\ entities' \in Seq(Level) /\ DOMAIN entities' = 1 .. n + 1
      /\ \A k \in 1 .. n : entities'[k] = entities[k]
      /\ entities'[n + 1] = NewLevel(u)
  <2> HIDE DEF NewLevel
  <2>1. QED
    BY <1>1, <1>2, <1>3
<1> HIDE DEF n
<1>5. /\ documents' \in [UUIDs -> Level \cup {None}]
      /\ documents'[u] = NewLevel(u)
      /\ \A v \in UUIDs \ {u} : documents'[v] = documents[v]
  BY <1>1, <1>2, <1>3
<1>6. RepositoryTypeOK'
  <2>1. \A v \in UUIDs : documents'[v] # None => documents'[v].UUID = v
    BY <1>3, <1>5 DEF RepInv, RepositoryTypeOK
  <2>2. made' \subseteq used' /\ used' \subseteq UUIDs
    BY <1>1, <1>2
  <2>3. QED
    BY <1>1, <1>4, <1>5, <2>1, <2>2 DEF RepInv, RepositoryTypeOK
<1>7. UUIDsOf(entities)' = UUIDsOf(entities) \cup {u}
  BY <1>2, <1>3, <1>4 DEF UUIDsOf
<1>8. UsedKnown'
  BY <1>1, <1>5 DEF RepInv, UsedKnown
<1>9. Known'
  <2> SUFFICES ASSUME load \in {"asked", "answered", "delivered"}
               PROVE  /\ Distinct(entities)'
                      /\ \A k \in DOMAIN entities' :
                           documents'[entities'[k].UUID] = entities'[k]
    BY <1>1 DEF Known
  <2>1. ASSUME NEW k \in 1 .. n
        PROVE  /\ entities[k] \in Level /\ entities[k].UUID \in UUIDs \ {u}
               /\ documents[entities[k].UUID] = entities[k]
    <3>1. entities[k] \in Level /\ entities[k].UUID \in UUIDs /\ entities[k] # None
      BY <1>2, LevelFields, RepositoryAssumption
    <3>2. documents[entities[k].UUID] = entities[k]
      BY <1>2 DEF RepInv, Known
    <3>3. entities[k].UUID \in used
      BY <3>1, <3>2 DEF RepInv, UsedKnown
    <3>4. QED
      BY <1>1, <3>1, <3>2, <3>3
  <2>2. \A j, k \in 1 .. n : entities[j].UUID = entities[k].UUID => j = k
    BY <1>2 DEF RepInv, Known, Distinct
  <2>3. Distinct(entities)'
    BY <1>2, <1>3, <1>4, <2>1, <2>2 DEF Distinct
  <2>4. \A k \in DOMAIN entities' : documents'[entities'[k].UUID] = entities'[k]
    BY <1>2, <1>3, <1>4, <1>5, <2>1
  <2>5. QED
    BY <2>3, <2>4
<1>10. OwnOnly'
  BY <1>1, <1>5, <1>7 DEF RepInv, OwnOnly, RepositoryTypeOK
<1>11. Complete'
  BY <1>1, <1>5, <1>7 DEF RepInv, Complete
<1>12. AnswerStands'
  <2> SUFFICES ASSUME load = "answered" PROVE AnswerStands'
    BY <1>1 DEF AnswerStands
  <2>1. Distinct(answer)' /\ UUIDsOf(answer)' = UUIDsOf(answer)
    BY <1>1 DEF RepInv, AnswerStands, Distinct, UUIDsOf
  <2>2. ASSUME NEW k \in DOMAIN answer', answer'[k].UUID \notin made'
        PROVE  documents'[answer'[k].UUID] = answer'[k]
    <3>1. answer[k] \in Level /\ answer[k].UUID \in UUIDs \ {u}
      BY <1>1, <2>2, LevelFields DEF RepInv, RepositoryTypeOK
    <3>2. documents[answer[k].UUID] = answer[k]
      BY <1>1, <2>2 DEF RepInv, AnswerStands
    <3>3. QED
      BY <1>1, <1>5, <3>1, <3>2
  <2>3. \A v \in UUIDs \ made' : documents'[v] # None => v \in UUIDsOf(answer)'
    BY <1>1, <1>5, <2>1 DEF RepInv, AnswerStands
  <2>4. QED
    BY <2>1, <2>2, <2>3 DEF AnswerStands
<1>13. QED
  BY <1>6, <1>8, <1>9, <1>10, <1>11, <1>12 DEF RepInv

\* A level changes where it is in the list, and in the collection.
LEMMA UpdateKeeps ==
  ASSUME NEW index, NEW lvl \in Level, RepInv, Update(index, lvl),
         lvl.UUID = Get(entities, index).UUID
  PROVE  RepInv'
<1> DEFINE n == Len(entities)
           i == index + 1
           u == lvl.UUID
<1>1. /\ load' = load /\ answer' = answer /\ made' = made /\ used' = used
      /\ InList(entities, index)
      /\ entities' = [entities EXCEPT ![i] = lvl]
      /\ documents' = [documents EXCEPT ![u] = IF @ = None THEN None ELSE lvl]
  BY DEF Update, UpdateData
<1>2. /\ entities \in Seq(Level) /\ n \in Nat /\ DOMAIN entities = 1 .. n
      /\ documents \in [UUIDs -> Level \cup {None}]
  BY DEF RepInv, RepositoryTypeOK
<1>3. i \in 1 .. n /\ u \in UUIDs /\ entities[i].UUID = u /\ lvl # None
  BY <1>1, <1>2, InTheList, LevelFields, RepositoryAssumption
<1> HIDE DEF n, i, u
<1>4. /\ entities' \in Seq(Level) /\ DOMAIN entities' = 1 .. n
      /\ entities'[i] = lvl
      /\ \A k \in 1 .. n \ {i} : entities'[k] = entities[k]
      /\ \A k \in 1 .. n : entities'[k].UUID = entities[k].UUID
  BY <1>1, <1>2, <1>3 DEF u
<1>5. /\ documents' \in [UUIDs -> Level \cup {None}]
      /\ documents'[u] = IF documents[u] = None THEN None ELSE lvl
      /\ \A v \in UUIDs \ {u} : documents'[v] = documents[v]
      /\ \A v \in UUIDs : documents'[v] # None <=> documents[v] # None
  BY <1>1, <1>2, <1>3
<1>6. UUIDsOf(entities)' = UUIDsOf(entities)
  BY <1>2, <1>4 DEF UUIDsOf
<1>7. RepositoryTypeOK'
  <2>1. \A v \in UUIDs : documents'[v] # None => documents'[v].UUID = v
    BY <1>5 DEF RepInv, RepositoryTypeOK, u
  <2>2. QED
    BY <1>1, <1>4, <1>5, <2>1 DEF RepInv, RepositoryTypeOK
<1>8. UsedKnown' /\ Complete' /\ OwnOnly'
  BY <1>1, <1>5, <1>6 DEF RepInv, UsedKnown, Complete, OwnOnly, RepositoryTypeOK
<1>9. Known'
  <2> SUFFICES ASSUME load \in {"asked", "answered", "delivered"}
               PROVE  /\ Distinct(entities)'
                      /\ \A k \in DOMAIN entities' :
                           documents'[entities'[k].UUID] = entities'[k]
    BY <1>1 DEF Known
  <2>1. \A j, k \in 1 .. n : entities[j].UUID = entities[k].UUID => j = k
    BY <1>2 DEF RepInv, Known, Distinct
  <2>2. Distinct(entities)'
    BY <1>4, <2>1 DEF Distinct
  <2>3. \A k \in 1 .. n : documents[entities[k].UUID] = entities[k]
    BY <1>2 DEF RepInv, Known
  <2>4. documents'[entities'[i].UUID] = entities'[i]
    <3>1. documents[u] = entities[i] /\ entities[i] # None
      BY <1>2, <1>3, <2>3, RepositoryAssumption
    <3>2. QED
      BY <1>3, <1>4, <1>5, <3>1 DEF u
  <2>5. ASSUME NEW k \in 1 .. n \ {i}
        PROVE  documents'[entities'[k].UUID] = entities'[k]
    <3>1. entities[k].UUID \in UUIDs \ {u}
      <4>1. entities[k] \in Level
        BY <1>2
      <4>2. QED
        BY <1>3, <2>1, <4>1, LevelFields
    <3>2. QED
      BY <1>4, <1>5, <2>3, <3>1
  <2>6. QED
    BY <1>3, <1>4, <2>2, <2>4, <2>5
<1>10. AnswerStands'
  <2> SUFFICES ASSUME load = "answered" PROVE AnswerStands'
    BY <1>1 DEF AnswerStands
  <2>1. u \in made
    BY <1>2, <1>3 DEF RepInv, OwnOnly, UUIDsOf
  <2>2. Distinct(answer)' /\ UUIDsOf(answer)' = UUIDsOf(answer)
    BY <1>1 DEF RepInv, AnswerStands, Distinct, UUIDsOf
  <2>3. ASSUME NEW k \in DOMAIN answer', answer'[k].UUID \notin made'
        PROVE  documents'[answer'[k].UUID] = answer'[k]
    <3>1. answer[k] \in Level /\ answer[k].UUID \in UUIDs \ {u}
      BY <1>1, <2>1, <2>3, LevelFields DEF RepInv, RepositoryTypeOK
    <3>2. documents[answer[k].UUID] = answer[k]
      BY <1>1, <2>3 DEF RepInv, AnswerStands
    <3>3. QED
      BY <1>1, <1>5, <3>1, <3>2
  <2>4. \A v \in UUIDs \ made' : documents'[v] # None => v \in UUIDsOf(answer)'
    BY <1>1, <1>5, <2>2 DEF RepInv, AnswerStands
  <2>5. QED
    BY <2>2, <2>3, <2>4 DEF AnswerStands
<1>11. QED
  BY <1>7, <1>8, <1>9, <1>10 DEF RepInv

\* A level leaves the list, and the collection.
LEMMA DeleteKeeps ==
  ASSUME NEW index, RepInv, Delete(index) PROVE RepInv'
<1> DEFINE n == Len(entities)
           i == index + 1
           u == entities[i].UUID
<1>1. /\ load' = load /\ answer' = answer /\ made' = made /\ used' = used
      /\ InList(entities, index)
      /\ entities' = RemoveAt(entities, i)
      /\ documents' = [documents EXCEPT ![Get(entities, index).UUID] = None]
  BY DEF Delete, DeleteData
<1>2. /\ entities \in Seq(Level) /\ n \in Nat /\ DOMAIN entities = 1 .. n
      /\ documents \in [UUIDs -> Level \cup {None}]
  BY DEF RepInv, RepositoryTypeOK
<1>3. i \in 1 .. n /\ Get(entities, index) = entities[i] /\ u \in UUIDs
  BY <1>1, <1>2, InTheList
<1> HIDE DEF i
<1>4. /\ entities' \in Seq(Level) /\ DOMAIN entities' = 1 .. n - 1
      /\ \A k \in 1 .. n - 1 :
           entities'[k] = entities[IF k < i THEN k ELSE k + 1]
  BY <1>1, <1>2, <1>3, Removed
<1>5. /\ documents' \in [UUIDs -> Level \cup {None}]
      /\ documents'[u] = None
      /\ \A v \in UUIDs \ {u} : documents'[v] = documents[v]
  BY <1>1, <1>2, <1>3
<1> HIDE DEF n, u
<1> DEFINE old(k) == IF k < i THEN k ELSE k + 1
<1>6. ASSUME NEW k \in 1 .. n - 1
      PROVE  old(k) \in 1 .. n \ {i} /\ entities'[k] = entities[old(k)]
  BY <1>2, <1>3, <1>4
<1>7. ASSUME NEW k \in 1 .. n \ {i}
      PROVE  \E j \in 1 .. n - 1 : old(j) = k
  <2>1. CASE k < i
    <3>1. k \in 1 .. n - 1
      BY <1>2, <1>3, <2>1
    <3>2. QED
      BY <2>1, <3>1
  <2>2. CASE k > i
    <3>1. k - 1 \in 1 .. n - 1 /\ ~(k - 1 < i) /\ (k - 1) + 1 = k
      BY <1>2, <1>3, <2>2
    <3>2. QED
      BY <3>1
  <2>3. k < i \/ k > i
    BY <1>2, <1>3
  <2>4. QED
    BY <2>1, <2>2, <2>3
<1>8. \A j, k \in 1 .. n - 1 : old(j) = old(k) => j = k
  BY <1>2, <1>3
<1> HIDE DEF old
<1>9. UUIDsOf(entities)' \subseteq UUIDsOf(entities)
  <2>1. ASSUME NEW v \in UUIDsOf(entities)' PROVE v \in UUIDsOf(entities)
    <3>1. PICK k \in 1 .. n - 1 : entities'[k].UUID = v
      BY <1>4 DEF UUIDsOf
    <3>2. old(k) \in DOMAIN entities /\ entities[old(k)].UUID = v
      BY <1>2, <1>6, <3>1
    <3>3. QED
      BY <3>2 DEF UUIDsOf
  <2>2. QED
    BY <2>1
<1>10. UUIDsOf(entities) \ {u} \subseteq UUIDsOf(entities)'
  <2>1. ASSUME NEW v \in UUIDsOf(entities) \ {u} PROVE v \in UUIDsOf(entities)'
    <3>1. PICK k \in 1 .. n : entities[k].UUID = v
      BY <1>2 DEF UUIDsOf
    <3>2. k # i
      BY <2>1, <3>1 DEF u
    <3>3. PICK j \in 1 .. n - 1 : old(j) = k
      BY <1>7, <3>2
    <3>4. entities'[j].UUID = v
      BY <1>6, <3>1, <3>3
    <3>5. QED
      BY <1>4, <3>4 DEF UUIDsOf
  <2>2. QED
    BY <2>1
<1>11. RepositoryTypeOK'
  <2>1. \A v \in UUIDs : documents'[v] # None => documents'[v].UUID = v
    BY <1>5 DEF RepInv, RepositoryTypeOK
  <2>2. QED
    BY <1>1, <1>4, <1>5, <2>1 DEF RepInv, RepositoryTypeOK
<1>12. UsedKnown' /\ Complete' /\ OwnOnly'
  BY <1>1, <1>5, <1>9, <1>10 DEF RepInv, UsedKnown, Complete, OwnOnly, RepositoryTypeOK
<1>13. Known'
  <2> SUFFICES ASSUME load \in {"asked", "answered", "delivered"}
               PROVE  /\ Distinct(entities)'
                      /\ \A k \in DOMAIN entities' :
                           documents'[entities'[k].UUID] = entities'[k]
    BY <1>1 DEF Known
  <2>1. \A j, k \in 1 .. n : entities[j].UUID = entities[k].UUID => j = k
    BY <1>2 DEF RepInv, Known, Distinct
  <2>2. ASSUME NEW j \in 1 .. n - 1, NEW k \in 1 .. n - 1,
               entities'[j].UUID = entities'[k].UUID
        PROVE  j = k
    <3>1. old(j) = old(k)
      BY <1>6, <2>1, <2>2
    <3>2. QED
      BY <1>8, <3>1
  <2>3. Distinct(entities)'
    BY <1>4, <2>2 DEF Distinct
  <2>4. ASSUME NEW k \in 1 .. n - 1
        PROVE  documents'[entities'[k].UUID] = entities'[k]
    <3>1. old(k) \in 1 .. n \ {i} /\ entities'[k] = entities[old(k)]
      BY <1>6
    <3>2. entities[old(k)] \in Level
      BY <1>2, <3>1
    <3>3. entities[old(k)].UUID \in UUIDs \ {u}
      BY <1>3, <2>1, <3>1, <3>2, LevelFields DEF u
    <3>4. documents[entities[old(k)].UUID] = entities[old(k)]
      BY <1>2, <3>1 DEF RepInv, Known
    <3>5. QED
      BY <1>5, <3>1, <3>3, <3>4
  <2>5. QED
    BY <1>4, <2>3, <2>4
<1>14. AnswerStands'
  <2> SUFFICES ASSUME load = "answered" PROVE AnswerStands'
    BY <1>1 DEF AnswerStands
  <2>1. u \in made
    BY <1>2, <1>3 DEF RepInv, OwnOnly, UUIDsOf, u
  <2>2. Distinct(answer)' /\ UUIDsOf(answer)' = UUIDsOf(answer)
    BY <1>1 DEF RepInv, AnswerStands, Distinct, UUIDsOf
  <2>3. ASSUME NEW k \in DOMAIN answer', answer'[k].UUID \notin made'
        PROVE  documents'[answer'[k].UUID] = answer'[k]
    <3>1. answer[k] \in Level /\ answer[k].UUID \in UUIDs \ {u}
      BY <1>1, <2>1, <2>3, LevelFields DEF RepInv, RepositoryTypeOK
    <3>2. documents[answer[k].UUID] = answer[k]
      BY <1>1, <2>3 DEF RepInv, AnswerStands
    <3>3. QED
      BY <1>1, <1>5, <3>1, <3>2
  <2>4. \A v \in UUIDs \ made' : documents'[v] # None => v \in UUIDsOf(answer)'
    BY <1>1, <1>5, <2>2 DEF RepInv, AnswerStands
  <2>5. QED
    BY <2>2, <2>3, <2>4 DEF AnswerStands
<1>15. QED
  BY <1>11, <1>12, <1>13, <1>14 DEF RepInv

\* The answer comes behind what was made in the meantime.
LEMMA SyncKeeps == RepInv /\ SyncFromServer => RepInv'
<1> SUFFICES ASSUME RepInv, SyncFromServer PROVE RepInv'
  OBVIOUS
<1> DEFINE n == Len(entities)
           m == Len(answer)
<1>1. /\ load = "answered" /\ entities' = entities \o answer /\ answer' = <<>>
      /\ made' = made /\ used' = used /\ documents' = documents
      /\ load' = IF UUIDsOf(answer) \cap made = {} THEN "delivered" ELSE "overtaken"
  BY DEF SyncFromServer
<1>2. /\ entities \in Seq(Level) /\ n \in Nat /\ DOMAIN entities = 1 .. n
      /\ answer \in Seq(Level) /\ m \in Nat /\ DOMAIN answer = 1 .. m
  BY DEF RepInv, RepositoryTypeOK
<1>3. /\ entities' \in Seq(Level) /\ DOMAIN entities' = 1 .. n + m
      /\ \A k \in 1 .. n : entities'[k] = entities[k]
      /\ \A k \in 1 .. m : entities'[n + k] = answer[k]
  <2>1. Len(entities \o answer) = n + m /\ entities \o answer \in Seq(Level)
    BY <1>2, Concatenated
  <2>2. DOMAIN (entities \o answer) = 1 .. Len(entities \o answer)
    BY <2>1
  <2>3. QED
    BY <1>1, <1>2, <2>1, <2>2, Concatenated
<1> HIDE DEF n, m
<1>4. RepositoryTypeOK'
  <2>1. <<>> \in Seq(Level)
    OBVIOUS
  <2>2. QED
    BY <1>1, <1>3, <2>1 DEF RepInv, RepositoryTypeOK
<1>5. UsedKnown' /\ OwnOnly' /\ AnswerStands'
  BY <1>1 DEF RepInv, UsedKnown, OwnOnly, AnswerStands
<1>6. CASE UUIDsOf(answer) \cap made # {}
  <2>1. load' = "overtaken"
    BY <1>1, <1>6
  <2>2. QED
    BY <1>4, <1>5, <2>1 DEF RepInv, Known, Complete
<1>7. CASE UUIDsOf(answer) \cap made = {}
  <2>1. load' = "delivered"
    BY <1>1, <1>7
  <2>2. ASSUME NEW k \in 1 .. n
        PROVE  /\ entities[k].UUID \in made
               /\ documents[entities[k].UUID] = entities[k]
    BY <1>1, <1>2 DEF RepInv, Known, OwnOnly, UUIDsOf
  <2>3. ASSUME NEW k \in 1 .. m
        PROVE  /\ answer[k].UUID \notin made
               /\ documents[answer[k].UUID] = answer[k]
    <3>1. answer[k].UUID \in UUIDsOf(answer)
      BY <1>2 DEF UUIDsOf
    <3>2. QED
      BY <1>1, <1>2, <1>7, <3>1 DEF RepInv, AnswerStands
  <2>4. ASSUME NEW k \in 1 .. n + m
        PROVE  \/ k \in 1 .. n /\ entities'[k] = entities[k]
               \/ /\ k - n \in 1 .. m /\ n + (k - n) = k
                  /\ entities'[k] = answer[k - n]
    <3>1. k \in 1 .. n \/ (k - n \in 1 .. m /\ n + (k - n) = k)
      BY <1>2
    <3>2. QED
      BY <1>3, <3>1
  <2>5. Distinct(entities)'
    <3>1. \A j, k \in 1 .. n : entities[j].UUID = entities[k].UUID => j = k
      BY <1>1, <1>2 DEF RepInv, Known, Distinct
    <3>2. \A j, k \in 1 .. m : answer[j].UUID = answer[k].UUID => j = k
      BY <1>1, <1>2 DEF RepInv, AnswerStands, Distinct
    <3>3. ASSUME NEW j \in 1 .. n + m, NEW k \in 1 .. n + m,
                 entities'[j].UUID = entities'[k].UUID
          PROVE  j = k
      <4>1. CASE j \in 1 .. n /\ k \in 1 .. n
        BY <1>3, <3>1, <3>3, <4>1
      <4>2. CASE j \notin 1 .. n /\ k \notin 1 .. n
        <5>1. j - n = k - n
          BY <2>4, <3>2, <3>3, <4>2
        <5>2. QED
          BY <1>2, <5>1
      <4>3. ASSUME NEW x \in 1 .. n, NEW y \in 1 .. n + m, y \notin 1 .. n
            PROVE  entities'[x].UUID # entities'[y].UUID
        <5>1. entities'[x] = entities[x] /\ entities[x].UUID \in made
          BY <1>3, <2>2
        <5>2. y - n \in 1 .. m /\ entities'[y] = answer[y - n]
          BY <2>4, <4>3
        <5>3. answer[y - n].UUID \notin made
          BY <2>3, <5>2
        <5>4. QED
          BY <5>1, <5>2, <5>3
      <4>4. QED
        BY <3>3, <4>1, <4>2, <4>3
    <3>4. QED
      BY <1>3, <3>3 DEF Distinct
  <2>6. ASSUME NEW k \in 1 .. n + m
        PROVE  documents'[entities'[k].UUID] = entities'[k]
    <3>1. CASE k \in 1 .. n
      BY <1>1, <1>3, <2>2, <3>1
    <3>2. CASE k \notin 1 .. n
      <4>1. k - n \in 1 .. m /\ entities'[k] = answer[k - n]
        BY <2>4, <3>2
      <4>2. documents[answer[k - n].UUID] = answer[k - n]
        BY <2>3, <4>1
      <4>3. QED
        BY <1>1, <4>1, <4>2
    <3>3. QED
      BY <3>1, <3>2
  <2>7. Known'
    BY <1>3, <2>5, <2>6 DEF Known
  <2>8. ASSUME NEW u \in UUIDs, documents[u] # None
        PROVE  u \in UUIDsOf(entities)'
    <3>1. CASE u \in made
      <4>1. PICK k \in 1 .. n : entities[k].UUID = u
        BY <1>1, <1>2, <2>8, <3>1 DEF RepInv, OwnOnly, UUIDsOf
      <4>2. k \in DOMAIN entities' /\ entities'[k].UUID = u
        BY <1>2, <1>3, <4>1
      <4>3. QED
        BY <4>2 DEF UUIDsOf
    <3>2. CASE u \notin made
      <4>1. PICK k \in 1 .. m : answer[k].UUID = u
        BY <1>1, <1>2, <2>8, <3>2 DEF RepInv, AnswerStands, UUIDsOf
      <4>2. n + k \in DOMAIN entities' /\ entities'[n + k].UUID = u
        BY <1>2, <1>3, <4>1
      <4>3. QED
        BY <4>2 DEF UUIDsOf
    <3>3. QED
      BY <3>1, <3>2
  <2>9. Complete'
    BY <1>1, <2>8 DEF Complete
  <2>10. QED
    BY <1>4, <1>5, <2>7, <2>9 DEF RepInv
<1>8. QED
  BY <1>6, <1>7

-----------------------------------------------------------------------------
(* The screens use the operations with levels that are levels.             *)

\* An edit of a level keeps the invariant.
LEMMA EditKeeps ==
  ASSUME NEW lvl \in Level, RepInv, Edit(lvl),
         InList(entities, levelAt) => lvl.UUID = Get(entities, levelAt).UUID
  PROVE  RepInv'
<1>1. Update(levelAt, lvl)
  BY Zenon DEF Edit
<1>2. InList(entities, levelAt)
  BY <1>1, Zenon DEF Update
<1>3. QED
  BY <1>1, <1>2, UpdateKeeps

LEMMA CrashKeeps == RepInv /\ Crash => RepInv'
BY StutterKeeps DEF Crash

LEMMA EditNoneKeeps == RepInv /\ EditNone => RepInv'
BY StutterKeeps DEF EditNone

LEMMA OpenKeeps ==
  ASSUME NEW index, NEW seen, NEW sure, RepInv, Open(index, seen, sure)
  PROVE  RepInv'
<1>1. UNCHANGED repository
  BY Zenon DEF Open, Crash
<1>2. QED
  BY <1>1, StutterKeeps

LEMMA TouchKeeps == ASSUME NEW tile, RepInv, Touch(tile) PROVE RepInv'
<1> DEFINE lvl == Get(entities, levelAt)
<1>1. CASE lvl # None /\ tile \in DOMAIN lvl.Tiles
  <2>1. PICK type \in Gestures(lvl.Tiles[tile]) : Edit(SetTile(lvl, tile, type))
    BY <1>1, Zenon DEF Touch
  <2>2. InList(entities, levelAt) /\ entities \in Seq(Level)
    BY <1>1 DEF Get, RepInv, RepositoryTypeOK
  <2>3. lvl \in Level
    BY <2>2, InTheList
  <2> HIDE DEF lvl
  <2>4. SetTile(lvl, tile, type) \in Level /\ SetTile(lvl, tile, type).UUID = lvl.UUID
    BY <1>1, <2>1, <2>3, SetTileLevel
  <2>5. QED
    BY <2>1, <2>4, EditKeeps DEF lvl
<1>2. CASE ~(lvl # None /\ tile \in DOMAIN lvl.Tiles)
  <2>1. Crash
    BY <1>2, Zenon DEF Touch
  <2>2. QED
    BY <2>1, CrashKeeps
<1>3. QED
  BY <1>1, <1>2

LEMMA ResizeKeeps == ASSUME NEW size \in Sizes, RepInv, Resize(size) PROVE RepInv'
<1> DEFINE lvl == Get(entities, levelAt)
<1>1. CASE InList(entities, levelAt)
  <2>1. lvl \in Level
    BY <1>1, InTheList DEF RepInv, RepositoryTypeOK
  <2>2. Edit(SetWidth(lvl, size)) \/ Edit(SetHeight(lvl, size))
    BY <1>1, Zenon DEF Resize
  <2> HIDE DEF lvl
  <2>3. QED
    BY <2>1, <2>2, ResizedLevel, EditKeeps DEF lvl
<1>2. CASE ~InList(entities, levelAt)
  <2>1. EditNone
    BY <1>2, Zenon DEF Resize
  <2>2. QED
    BY <2>1, EditNoneKeeps
<1>3. QED
  BY <1>1, <1>2

LEMMA SetNameKeeps == RepInv /\ SetName => RepInv'
<1> SUFFICES ASSUME RepInv, SetName PROVE RepInv'
  OBVIOUS
<1>1. CASE InList(entities, levelAt)
  <2>1. Get(entities, levelAt) \in Level
    BY <1>1, InTheList DEF RepInv, RepositoryTypeOK
  <2>2. Edit(Get(entities, levelAt))
    BY <1>1, Zenon DEF SetName
  <2>3. QED
    BY <2>1, <2>2, EditKeeps
<1>2. CASE ~InList(entities, levelAt)
  <2>1. EditNone
    BY <1>2, Zenon DEF SetName
  <2>2. QED
    BY <2>1, EditNoneKeeps
<1>3. QED
  BY <1>1, <1>2

\* A level that is written back was there already.
LEMMA WriteBackKeeps ==
  ASSUME NEW index, RepInv, WriteBack(index)
  PROVE  /\ RepInv'
         /\ entities' = entities /\ load' = load /\ made' = made
<1> DEFINE lvl == Get(entities, index)
<1>1. InList(entities, index) /\ Update(index, lvl)
  BY Zenon DEF WriteBack, Update
<1>2. entities \in Seq(Level) /\ lvl \in Level
  BY <1>1, InTheList DEF RepInv, RepositoryTypeOK
<1>3. RepInv'
  BY <1>1, <1>2, UpdateKeeps
<1>4. /\ entities' = [entities EXCEPT ![index + 1] = lvl]
      /\ load' = load /\ made' = made
  BY <1>1 DEF Update
<1>5. entities' = entities
  <2>1. lvl = entities[index + 1]
    BY <1>1, <1>2, InTheList
  <2> HIDE DEF lvl
  <2>2. QED
    BY <1>2, <1>4, <2>1
<1>6. QED
  BY <1>3, <1>4, <1>5

LEMMA SetOptionsKeeps == RepInv /\ SetOptions => RepInv'
<1> SUFFICES ASSUME RepInv, SetOptions PROVE RepInv'
  OBVIOUS
<1> DEFINE lvl == Get(entities, levelAt)
<1>1. CASE InList(entities, levelAt)
  <2>1. lvl \in Level
    BY <1>1, InTheList DEF RepInv, RepositoryTypeOK
  <2>2. \/ Edit(SetPublic(lvl, ~lvl.Public))
        \/ \E chapter \in Chapters \ {lvl.Chapter, NoChapter} :
             Edit(SetChapter(lvl, chapter))
    BY <1>1, Zenon DEF SetOptions
  <2> HIDE DEF lvl
  <2>3. (~lvl.Public) \in BOOLEAN
    <3>1. lvl.Public \in BOOLEAN
      BY <2>1, LevelFields
    <3>2. QED
      BY <3>1
  <2>4. CASE Edit(SetPublic(lvl, ~lvl.Public))
    <3>1. /\ SetPublic(lvl, ~lvl.Public) \in Level
          /\ SetPublic(lvl, ~lvl.Public).UUID = lvl.UUID
      BY <2>1, <2>3, OptionsLevel, RepositoryAssumption
    <3>2. QED
      BY <2>4, <3>1, EditKeeps DEF lvl
  <2>5. ASSUME NEW c \in Chapters, Edit(SetChapter(lvl, c)) PROVE RepInv'
    <3>1. SetChapter(lvl, c) \in Level /\ SetChapter(lvl, c).UUID = lvl.UUID
      BY <2>1, OptionsLevel
    <3>2. QED
      BY <2>5, <3>1, EditKeeps DEF lvl
  <2>6. QED
    BY <2>2, <2>4, <2>5
<1>2. CASE ~InList(entities, levelAt)
  <2>1. EditNone
    BY <1>2, Zenon DEF SetOptions
  <2>2. QED
    BY <2>1, EditNoneKeeps
<1>3. QED
  BY <1>1, <1>2

LEMMA TapKeeps ==
  ASSUME NEW section, NEW row, RepInv, TapCell(section, row) PROVE RepInv'
<1>1. \/ Open(GetAt(entities, Tapped(section, row)),
              cells[section].items[row], made = {})
      \/ Crash
  BY Zenon DEF TapCell
<1>2. QED
  BY <1>1, OpenKeeps, CrashKeeps

\* Whatever the user, Firestore or a game does.
LEMMA NextKeeps == RepInv /\ [Next]_vars => RepInv'
<1> SUFFICES ASSUME RepInv, [Next]_vars PROVE RepInv'
  OBVIOUS
<1>1. CASE UNCHANGED vars
  BY <1>1, StutterKeeps DEF vars
<1>2. CASE Deliver
  BY <1>2, SyncKeeps DEF Deliver
<1>3. CASE Answer
  BY <1>3, AnswerKeeps DEF Answer
<1>4. CASE DeliverProperties
  BY <1>4, StutterKeeps DEF DeliverProperties
<1>5. CASE Launch
  BY <1>5, RelaunchKeeps DEF Launch
<1>6. CASE Navigate
  <2>1. UNCHANGED repository \/ \E index : WriteBack(index)
    BY <1>6, Zenon DEF Navigate, MyLevels, GoBack, Leave, ShowMain, ShowLevels
  <2>2. QED
    BY <2>1, StutterKeeps, WriteBackKeeps
<1>7. ASSUME NEW u \in UUIDs, AddLevel(u) PROVE RepInv'
  BY <1>7, AddKeeps DEF AddLevel
<1>8. ASSUME NEW row, DeleteRow(row) PROVE RepInv'
  BY <1>8, DeleteKeeps DEF DeleteRow
<1>9. ASSUME NEW row, SelectRow(row) PROVE RepInv'
  <2>1. UNCHANGED repository \/ \E index : WriteBack(index)
    BY <1>9, Zenon DEF SelectRow
  <2>2. QED
    BY <2>1, StutterKeeps, WriteBackKeeps
<1>10. ASSUME NEW tile, Touch(tile) PROVE RepInv'
  BY <1>10, TouchKeeps
<1>11. ASSUME NEW size \in Sizes, Resize(size) PROVE RepInv'
  BY <1>11, ResizeKeeps
<1>12. CASE SetName \/ SetOptions
  BY <1>12, SetNameKeeps, SetOptionsKeeps
<1>13. CASE Play
  BY <1>13, OpenKeeps DEF Play
<1>14. ASSUME NEW section, NEW row, TapCell(section, row) PROVE RepInv'
  BY <1>14, TapKeeps
<1>15. ASSUME NEW game, Done(game) PROVE RepInv'
  BY <1>15, StutterKeeps DEF Done
<1>16. ASSUME NEW game, Trap(game) PROVE RepInv'
  BY <1>16, CrashKeeps DEF Trap
<1>17. QED
  BY <1>1, <1>2, <1>3, <1>4, <1>5, <1>6, <1>7, <1>8, <1>9, <1>10, <1>11, <1>12,
     <1>13, <1>14, <1>15, <1>16, Zenon DEF Next

\* The list of the device and the collection are the same levels (lists and
\* documents of the right types, MirrorsServer) however many levels are made,
\* edited, deleted and played, before, while and after the collection is read.
THEOREM EditorInvariant == Spec => [](RepositoryTypeOK /\ MirrorsServer)
<1>1. Init => RepInv
  BY InitKeeps DEF Init
<1>2. RepInv /\ [Next]_vars => RepInv'
  BY NextKeeps
<1>3. RepInv => RepositoryTypeOK /\ MirrorsServer
  BY DEF RepInv, Known, Complete, MirrorsServer
<1>4. QED
  BY <1>1, <1>2, <1>3, PTL DEF Spec

-----------------------------------------------------------------------------
(* The screens.  What they show is what the list has: every row, the level *)
(* of the builder, and the cells as long as nothing can have changed.      *)

\* getAt finds a level that is in the list.
LEMMA GetAtFinds ==
  ASSUME NEW list \in Seq(Level), NEW u \in UUIDsOf(list)
  PROVE  /\ InList(list, GetAt(list, u)) /\ GetAt(list, u) \in Nat
         /\ Get(list, GetAt(list, u)).UUID = u
<1> DEFINE n == Len(list)
           S == {k \in 1 .. n : list[k].UUID = u}
           First(k) == list[k].UUID = u /\ \A j \in 1 .. k - 1 : list[j].UUID # u
           c == CHOOSE k \in DOMAIN list : First(k)
<1>1. n \in Nat /\ DOMAIN list = 1 .. n
  OBVIOUS
<1>2. S \in SUBSET Nat /\ S # {}
  BY <1>1 DEF UUIDsOf
<1>3. PICK k \in S : \A j \in S : ~(j < k)
  BY <1>2, LeastIndex
<1>4. k \in DOMAIN list /\ First(k)
  <2>1. ASSUME NEW j \in 1 .. k - 1 PROVE list[j].UUID # u
    <3>1. j \in 1 .. n /\ j < k
      BY <1>1, <1>3
    <3>2. QED
      BY <1>3, <3>1
  <2>2. QED
    BY <1>1, <1>3, <2>1
<1> HIDE DEF First
<1>5. c \in DOMAIN list /\ First(c)
  BY <1>4, Zenon
<1>6. GetAt(list, u) = c - 1
  BY Zenon DEF GetAt, First
<1> HIDE DEF c
<1>7. c \in 1 .. n /\ list[c].UUID = u /\ (c - 1) + 1 = c
  BY <1>1, <1>5 DEF First
<1>8. QED
  BY <1>1, <1>6, <1>7 DEF InList, Get

\* A level is at the index getAt gives only if it is the level.
LEMMA GetAtRight ==
  ASSUME NEW list \in Seq(Level), NEW u, InList(list, GetAt(list, u))
  PROVE  u \in UUIDsOf(list)
<1>1. SUFFICES ASSUME u \notin UUIDsOf(list) PROVE FALSE
  OBVIOUS
<1>2. GetAt(list, u) = -1
  BY <1>1 DEF GetAt
<1>3. QED
  BY <1>2 DEF InList

\* The rows of a list are indices of it, and to an administrator all of them.
LEMMA RowsOf ==
  ASSUME NEW list
  PROVE  /\ Rows(list) \subseteq 0 .. Len(list) - 1
         /\ IsAdmin => Rows(list) = 0 .. Len(list) - 1
BY DEF Rows, Mine

\* What is added or read comes behind.
LEMMA Behind ==
  ASSUME RepInv, (\E u \in UUIDs : Add(u)) \/ SyncFromServer, NEW index,
         InList(entities, index)
  PROVE  InList(entities', index) /\ Get(entities', index) = Get(entities, index)
<1>1. entities \in Seq(Level) /\ answer \in Seq(Level)
  BY DEF RepInv, RepositoryTypeOK
<1> DEFINE n == Len(entities)
<1>2. /\ Len(entities') \in Nat /\ Len(entities') >= n
      /\ \A k \in 1 .. n : entities'[k] = entities[k]
  <2>1. CASE SyncFromServer
    <3>1. entities' = entities \o answer
      BY <2>1 DEF SyncFromServer
    <3>2. QED
      BY <1>1, <3>1, Concatenated
  <2>2. ASSUME NEW u \in UUIDs, Add(u)
        PROVE  /\ Len(entities') \in Nat /\ Len(entities') >= n
               /\ \A k \in 1 .. n : entities'[k] = entities[k]
    <3>1. entities' = Append(entities, NewLevel(u)) /\ NewLevel(u) \in Level
      BY <2>2, NewLevelLevel DEF Add
    <3> HIDE DEF NewLevel
    <3>2. QED
      BY <1>1, <3>1
  <2>3. QED
    BY <2>1, <2>2
<1>3. n \in Nat /\ index \in 0 .. n - 1
  BY <1>1 DEF InList
<1>4. index \in 0 .. Len(entities') - 1 /\ index + 1 \in 1 .. n
  BY <1>2, <1>3
<1> HIDE DEF n
<1>5. QED
  BY <1>2, <1>4 DEF InList, Get

LEMMA GetType ==
  ASSUME NEW list \in Seq(Level), NEW index
  PROVE  /\ Get(list, index) \in Level \cup {None}
         /\ Get(list, index) # None => InList(list, index)
BY InTheList DEF Get

-----------------------------------------------------------------------------
(* The inductive invariant of the screens.                                 *)

ScreensTypeOK ==
  /\ at \in Nat /\ levelAt \in Nat \cup {-1}
  /\ {running, known, inGame, waiting, options, stale} \subseteq BOOLEAN
  /\ role \in {"user", "admin"} /\ menu \in {"main", "levels"}
  /\ listed \subseteq 0 .. Len(entities) - 1
  /\ shown \in Level \cup {None}

\* The builder has the options of an administrator only if he is one.
OptionsKept == options => IsAdmin /\ menu = "levels"

\* The builder is on the level the screen opens, or on none.
LevelOpened == menu = "levels" => levelAt \in {at, -1}

\* The cells are the ones there would be now, unless a level was added.
CellsFresh ==
  menu = "main" /\ cells # None =>
    Published /\ (made = {} => cells = Cells(entities))

ScreenInv ==
  /\ ScreensTypeOK /\ OptionsKept /\ AdministratorSeesAll
  /\ BuilderShowsItsLevel /\ LevelOpened /\ CellsFresh

IsGame(game) ==
  /\ game = [at |-> game.at, level |-> game.level, seen |-> game.seen,
             sure |-> game.sure, resized |-> game.resized]
  /\ game.at \in Nat /\ game.level \in UUIDs
  /\ game.sure => game.level = game.seen

GamesOK == \A game \in playing : IsGame(game)

\* As long as the list and the screen stay, so does what is said of them.
LEMMA ScreenStays ==
  ASSUME ScreenInv, UNCHANGED <<entities, load, made, role, known, screen>>,
         running' \in BOOLEAN
  PROVE  ScreenInv'
<1>1. /\ entities' = entities /\ load' = load /\ made' = made /\ role' = role
      /\ known' = known /\ menu' = menu /\ inGame' = inGame /\ cells' = cells
      /\ at' = at /\ waiting' = waiting /\ listed' = listed /\ options' = options
      /\ levelAt' = levelAt /\ shown' = shown /\ stale' = stale
  BY DEF screen, builder
<1>2. ScreensTypeOK'
  BY <1>1 DEF ScreenInv, ScreensTypeOK
<1>3. OptionsKept' /\ AdministratorSeesAll' /\ LevelOpened'
  BY <1>1 DEF ScreenInv, OptionsKept, AdministratorSeesAll, LevelOpened, IsAdmin
<1>4. BuilderShowsItsLevel'
  BY <1>1 DEF ScreenInv, BuilderShowsItsLevel
<1>5. CellsFresh'
  BY <1>1 DEF ScreenInv, CellsFresh, Published
<1>6. QED
  BY <1>2, <1>3, <1>4, <1>5 DEF ScreenInv

\* The builder that is opened on an index shows what is there.
LEMMA Loaded ==
  ASSUME NEW list \in Seq(Level), NEW index, LoadLevel(list, index)
  PROVE  /\ levelAt' = index /\ shown' = Get(list, index) /\ stale' = FALSE
         /\ shown' \in Level \cup {None}
BY GetType DEF LoadLevel

\* A main menu has no builder, and new cells.
LEMMA ShowMainKeeps ==
  ASSUME RepInv, ScreenInv, ShowMain, UNCHANGED <<running, role, known>>
  PROVE  ScreenInv'
<1>1. /\ menu' = "main" /\ inGame' = FALSE /\ at' = 0 /\ waiting' = FALSE
      /\ listed' = {} /\ options' = FALSE
      /\ cells' = IF known /\ Published THEN Cells(entities) ELSE None
      /\ entities' = entities /\ load' = load /\ made' = made
      /\ running' = running /\ role' = role /\ known' = known
  BY DEF ShowMain, repository
<1>2. levelAt' = -1 /\ shown' = None /\ stale' = FALSE
  BY DEF ShowMain, LoadLevel, Get, InList
<1>3. ScreensTypeOK'
  BY <1>1, <1>2 DEF ScreenInv, ScreensTypeOK
<1>4. CellsFresh'
  BY <1>1 DEF CellsFresh, Published
<1>5. QED
  BY <1>1, <1>2, <1>3, <1>4 DEF ScreenInv, OptionsKept, AdministratorSeesAll,
     BuilderShowsItsLevel, LevelOpened

\* A level screen opens its level, unless the list has not come.
LEMMA ShowLevelsKeeps ==
  ASSUME RepInv, ScreenInv, NEW index \in Nat, ShowLevels(index),
         UNCHANGED <<running, role, known>>
  PROVE  ScreenInv'
<1>0. entities' = entities /\ load' = load /\ made' = made
  <2>1. UNCHANGED repository \/ WriteBack(index)
    BY Zenon DEF ShowLevels
  <2>2. QED
    BY <2>1, WriteBackKeeps DEF repository
<1>1. /\ menu' = "levels" /\ inGame' = FALSE /\ cells' = None
      /\ at' = index /\ waiting' = ~Published /\ options' = IsAdmin
      /\ listed' = IF Published THEN Rows(entities) ELSE {}
      /\ entities' = entities /\ load' = load /\ made' = made
      /\ running' = running /\ role' = role /\ known' = known
  BY <1>0 DEF ShowLevels
<1>2. IsAdmin' = IsAdmin /\ IsAdmin \in BOOLEAN /\ Published \in BOOLEAN
  BY <1>1 DEF IsAdmin, Published
<1>3. /\ entities \in Seq(Level) /\ <<>> \in Seq(Level)
      /\ Get(<<>>, -1) = None
  BY DEF RepInv, RepositoryTypeOK, Get, InList
<1>4. CASE Published
  <2>1. LoadLevel(entities, index)
    BY <1>4 DEF ShowLevels
  <2>2. /\ levelAt' = index /\ shown' = Get(entities, index) /\ stale' = FALSE
        /\ shown' \in Level \cup {None}
    BY <1>3, <2>1, Loaded
  <2>3. ScreensTypeOK'
    BY <1>1, <1>2, <1>4, <2>2, RowsOf DEF ScreenInv, ScreensTypeOK
  <2>4. AdministratorSeesAll'
    BY <1>1, <1>2, <1>4, RowsOf DEF AdministratorSeesAll
  <2>5. QED
    BY <1>1, <1>2, <2>2, <2>3, <2>4 DEF ScreenInv, OptionsKept, CellsFresh,
       BuilderShowsItsLevel, LevelOpened
<1>5. CASE ~Published
  <2>1. LoadLevel(<<>>, -1)
    BY <1>5 DEF ShowLevels
  <2>2. levelAt' = -1 /\ shown' = None /\ stale' = FALSE
    BY <1>3, <2>1 DEF LoadLevel
  <2>3. ScreensTypeOK'
    BY <1>1, <1>2, <1>5, <2>2 DEF ScreenInv, ScreensTypeOK
  <2>4. QED
    BY <1>1, <1>2, <1>5, <2>2, <2>3 DEF ScreenInv, OptionsKept, CellsFresh,
       BuilderShowsItsLevel, LevelOpened, AdministratorSeesAll
<1>6. QED
  BY <1>4, <1>5

\* A list that comes, with more levels behind the ones there were.
LEMMA PropagateKeeps ==
  ASSUME RepInv, RepInv', ScreenInv, Propagate, role' = role,
         (menu = "levels" /\ \E u \in UUIDs : Add(u)) \/ SyncFromServer
  PROVE  ScreenInv'
<1>1. /\ waiting' = FALSE /\ running' = running /\ known' = known
      /\ menu' = menu /\ inGame' = inGame /\ at' = at /\ options' = options
      /\ cells' = IF menu = "main" /\ known /\ cells = None THEN Cells(entities')
                  ELSE cells
      /\ listed' = IF menu = "levels" THEN Rows(entities') ELSE {}
      /\ role' = role
  BY DEF Propagate
<1>2. IsAdmin' = IsAdmin
  BY <1>1 DEF IsAdmin
<1>3. entities \in Seq(Level) /\ entities' \in Seq(Level)
  BY DEF RepInv, RepositoryTypeOK
<1>4. /\ shown' \in Level \cup {None} /\ levelAt' \in Nat \cup {-1}
      /\ stale' \in BOOLEAN
      /\ BuilderShowsItsLevel' /\ LevelOpened'
  <2>1. CASE waiting
    <3>1. LoadLevel(entities', at)
      BY <2>1, Zenon DEF Propagate
    <3>2. /\ levelAt' = at /\ shown' = Get(entities', at) /\ stale' = FALSE
          /\ shown' \in Level \cup {None}
      BY <1>3, <3>1, Loaded
    <3>3. QED
      BY <1>1, <3>2 DEF ScreenInv, ScreensTypeOK, BuilderShowsItsLevel, LevelOpened
  <2>2. CASE ~waiting
    <3>1. levelAt' = levelAt /\ shown' = shown /\ stale' = stale
      BY <2>2, Zenon DEF Propagate, builder
    <3>2. ASSUME ~stale, shown # None PROVE shown = Get(entities', levelAt)
      <4>1. shown = Get(entities, levelAt)
        BY <3>2 DEF ScreenInv, BuilderShowsItsLevel
      <4>2. InList(entities, levelAt)
        BY <1>3, <3>2, <4>1, GetType
      <4>3. QED
        BY <4>1, <4>2, Behind
    <3>3. QED
      BY <1>1, <3>1, <3>2 DEF ScreenInv, ScreensTypeOK, BuilderShowsItsLevel,
         LevelOpened
  <2>3. QED
    BY <2>1, <2>2
<1>5. ScreensTypeOK'
  BY <1>1, <1>4, RowsOf DEF ScreenInv, ScreensTypeOK
<1>6. OptionsKept'
  BY <1>1, <1>2 DEF ScreenInv, OptionsKept
<1>7. AdministratorSeesAll'
  <2>1. ASSUME options PROVE listed' = 0 .. Len(entities') - 1
    BY <1>1, <2>1, RowsOf DEF ScreenInv, OptionsKept
  <2>2. QED
    BY <1>1, <2>1 DEF AdministratorSeesAll
<1>8. CellsFresh'
  <2> SUFFICES ASSUME menu = "main", cells' # None
               PROVE  Published' /\ (made' = {} => cells' = Cells(entities'))
    BY <1>1 DEF CellsFresh
  <2>1. /\ load = "answered" /\ made' = made
        /\ load' \in {"delivered", "overtaken"}
    BY DEF SyncFromServer
  <2>2. Published'
    BY <2>1 DEF Published
  <2>3. ASSUME made = {} PROVE cells' = Cells(entities')
    <3>1. ~Published
      BY <2>1, <2>3 DEF Published
    <3>2. cells = None
      BY <3>1 DEF ScreenInv, CellsFresh
    <3>3. QED
      BY <1>1, <3>2
  <2>4. QED
    BY <2>1, <2>2, <2>3
<1>9. QED
  BY <1>4, <1>5, <1>6, <1>7, <1>8 DEF ScreenInv

\* An edit: the builder shows what it made of the level.
LEMMA EditShows ==
  ASSUME RepInv, ScreenInv, NEW lvl \in Level, Edit(lvl), menu = "levels",
         role' = role
  PROVE  ScreenInv'
<1>1. /\ shown' = lvl /\ listed' = Rows(entities') /\ running' = running
      /\ known' = known /\ menu' = menu /\ inGame' = inGame /\ cells' = cells
      /\ at' = at /\ waiting' = waiting /\ options' = options
      /\ levelAt' = levelAt /\ stale' = stale /\ Update(levelAt, lvl)
  BY DEF Edit
<1>2. /\ entities \in Seq(Level) /\ InList(entities, levelAt)
      /\ entities' = [entities EXCEPT ![levelAt + 1] = lvl]
  BY <1>1 DEF RepInv, RepositoryTypeOK, Update
<1>3. Len(entities') = Len(entities) /\ Get(entities', levelAt) = lvl
  BY <1>2 DEF InList, Get
<1>4. IsAdmin' = IsAdmin
  BY <1>1 DEF IsAdmin
<1>5. ScreensTypeOK'
  BY <1>1, RowsOf DEF ScreenInv, ScreensTypeOK
<1>6. AdministratorSeesAll'
  BY <1>1, RowsOf DEF ScreenInv, OptionsKept, AdministratorSeesAll
<1>7. LevelOpened'
  BY <1>1 DEF ScreenInv, LevelOpened
<1>8. QED
  BY <1>1, <1>3, <1>4, <1>5, <1>6, <1>7 DEF ScreenInv, OptionsKept, CellsFresh,
     BuilderShowsItsLevel

LEMMA EditNoneShows == ASSUME ScreenInv, EditNone, role' = role PROVE ScreenInv'
<1>1. /\ entities' = entities /\ load' = load /\ made' = made /\ role' = role
      /\ known' = known /\ menu' = menu /\ inGame' = inGame /\ cells' = cells
      /\ at' = at /\ waiting' = waiting /\ listed' = listed /\ options' = options
      /\ levelAt' = levelAt /\ shown' = None /\ stale' = stale /\ running' = running
  BY DEF EditNone, repository
<1>2. ScreensTypeOK'
  BY <1>1 DEF ScreenInv, ScreensTypeOK
<1>3. OptionsKept' /\ AdministratorSeesAll' /\ LevelOpened' /\ CellsFresh'
  BY <1>1 DEF ScreenInv, OptionsKept, AdministratorSeesAll, LevelOpened, IsAdmin,
     CellsFresh, Published
<1>4. QED
  BY <1>1, <1>2, <1>3 DEF ScreenInv, BuilderShowsItsLevel

LEMMA CrashShows == ASSUME ScreenInv, Crash, role' = role PROVE ScreenInv'
<1>1. UNCHANGED <<entities, load, made, role, known, screen>> /\ running' \in BOOLEAN
  BY DEF Crash, repository
<1>2. QED
  BY <1>1, ScreenStays

LEMMA OpenShows ==
  ASSUME ScreenInv, NEW index, NEW seen, NEW sure, Open(index, seen, sure),
         role' = role
  PROVE  ScreenInv'
<1>1. CASE InList(entities, index)
  <2>1. /\ entities' = entities /\ load' = load /\ made' = made /\ role' = role
        /\ known' = known /\ menu' = menu /\ inGame' = TRUE /\ cells' = cells
        /\ at' = at /\ waiting' = waiting /\ listed' = listed /\ options' = options
        /\ levelAt' = levelAt /\ shown' = shown /\ stale' = stale
        /\ running' = running
    BY <1>1 DEF Open, repository, builder
  <2>2. ScreensTypeOK'
    BY <2>1 DEF ScreenInv, ScreensTypeOK
  <2>3. OptionsKept' /\ AdministratorSeesAll' /\ LevelOpened' /\ CellsFresh'
    BY <2>1 DEF ScreenInv, OptionsKept, AdministratorSeesAll, LevelOpened, IsAdmin,
       CellsFresh, Published
  <2>4. QED
    BY <2>1, <2>2, <2>3 DEF ScreenInv, BuilderShowsItsLevel
<1>2. CASE ~InList(entities, index)
  BY <1>2, CrashShows DEF Open
<1>3. QED
  BY <1>1, <1>2

\* A deletion leaves rows for what remains, and a builder that may be wrong.
LEMMA DeleteShows ==
  ASSUME ScreenInv, NEW row, DeleteRow(row) PROVE ScreenInv'
<1>1. /\ load' = load /\ made' = made /\ role' = role /\ known' = known
      /\ menu' = menu /\ inGame' = inGame /\ cells' = cells /\ at' = at
      /\ waiting' = waiting /\ listed' = Rows(entities') /\ options' = options
      /\ levelAt' = levelAt /\ shown' = shown /\ stale' = TRUE
      /\ running' = running /\ menu = "levels"
  BY DEF DeleteRow, Delete, IsRow, OnLevels
<1>2. ScreensTypeOK'
  BY <1>1, RowsOf DEF ScreenInv, ScreensTypeOK
<1>3. AdministratorSeesAll'
  BY <1>1, RowsOf DEF ScreenInv, OptionsKept, AdministratorSeesAll
<1>4. QED
  BY <1>1, <1>2, <1>3 DEF ScreenInv, OptionsKept, IsAdmin, LevelOpened,
     CellsFresh, BuilderShowsItsLevel

\* A selected row is a level of the list.
LEMMA SelectShows ==
  ASSUME RepInv, ScreenInv, NEW row \in 0 .. Len(entities) - 1, SelectRow(row)
  PROVE  ScreenInv'
<1> DEFINE u     == Get(entities, row).UUID
           index == GetAt(entities, u)
<1>0. /\ entities' = entities /\ load' = load /\ made' = made
      /\ listed' \in {listed, Rows(entities)}
  <2>1. \/ UNCHANGED <<repository, listed>>
        \/ WriteBack(index) /\ listed' = Rows(entities)
    BY Zenon DEF SelectRow
  <2>2. QED
    BY <2>1, WriteBackKeeps DEF repository
<1>1. /\ at' = index /\ LoadLevel(entities, index)
      /\ entities' = entities /\ load' = load /\ made' = made /\ role' = role
      /\ known' = known /\ menu' = menu /\ inGame' = inGame /\ cells' = cells
      /\ waiting' = waiting /\ options' = options
      /\ running' = running /\ menu = "levels"
  BY <1>0 DEF SelectRow, IsRow, OnLevels
<1>2. entities \in Seq(Level)
  BY DEF RepInv, RepositoryTypeOK
<1>3. u \in UUIDsOf(entities)
  <2>1. row + 1 \in DOMAIN entities /\ Get(entities, row) = entities[row + 1]
    BY <1>2 DEF Get, InList
  <2>2. QED
    BY <2>1 DEF UUIDsOf
<1> HIDE DEF u
<1>4. index \in Nat
  BY <1>2, <1>3, GetAtFinds
<1> HIDE DEF index
<1>5. /\ levelAt' = index /\ shown' = Get(entities, index) /\ stale' = FALSE
      /\ shown' \in Level \cup {None}
  BY <1>1, <1>2, Loaded
<1>6. ScreensTypeOK'
  BY <1>0, <1>1, <1>4, <1>5, RowsOf DEF ScreenInv, ScreensTypeOK
<1>7. OptionsKept' /\ AdministratorSeesAll' /\ CellsFresh'
  BY <1>0, <1>1, RowsOf DEF ScreenInv, OptionsKept, AdministratorSeesAll, IsAdmin,
     CellsFresh
<1>8. QED
  BY <1>1, <1>5, <1>6, <1>7 DEF ScreenInv, BuilderShowsItsLevel, LevelOpened

LEMMA PropertiesShow == ScreenInv /\ DeliverProperties => ScreenInv'
<1> SUFFICES ASSUME ScreenInv, DeliverProperties PROVE ScreenInv'
  OBVIOUS
<1>1. /\ entities' = entities /\ load' = load /\ made' = made /\ role' = role
      /\ ~known /\ known' = TRUE /\ menu' = menu /\ inGame' = inGame
      /\ cells' = IF menu = "main" /\ Published THEN Cells(entities) ELSE cells
      /\ at' = at /\ waiting' = waiting /\ listed' = listed /\ options' = options
      /\ levelAt' = levelAt /\ shown' = shown /\ stale' = stale
      /\ running' = running
  BY DEF DeliverProperties, repository, builder
<1>2. ScreensTypeOK'
  BY <1>1 DEF ScreenInv, ScreensTypeOK
<1>3. OptionsKept' /\ AdministratorSeesAll' /\ LevelOpened'
  BY <1>1 DEF ScreenInv, OptionsKept, AdministratorSeesAll, LevelOpened, IsAdmin
<1>4. CellsFresh'
  BY <1>1 DEF ScreenInv, CellsFresh, Published
<1>5. QED
  BY <1>1, <1>2, <1>3, <1>4 DEF ScreenInv, BuilderShowsItsLevel

LEMMA LaunchShows == ScreenInv /\ Launch => ScreenInv'
<1> SUFFICES ASSUME ScreenInv, Launch PROVE ScreenInv'
  OBVIOUS
<1>1. /\ entities' = <<>> /\ role' = role /\ running' = TRUE /\ known' = FALSE
      /\ menu' = "main" /\ inGame' = FALSE /\ cells' = None
      /\ at' = 0 /\ waiting' = FALSE /\ listed' = {} /\ options' = FALSE
  BY DEF Launch, Relaunch
<1>2. levelAt' = -1 /\ shown' = None /\ stale' = FALSE
  BY DEF Launch, LoadLevel, Get, InList
<1>3. QED
  BY <1>1, <1>2 DEF ScreenInv, ScreensTypeOK, OptionsKept, AdministratorSeesAll,
     BuilderShowsItsLevel, LevelOpened, CellsFresh

\* What the gestures of the builder show.
LEMMA EditingShows ==
  ASSUME RepInv, ScreenInv,
         \/ (\E tile : Touch(tile)) \/ (\E size \in Sizes : Resize(size))
         \/ SetName \/ SetOptions
  PROVE  ScreenInv'
<1> DEFINE lvl == Get(entities, levelAt)
<1>1. Editing
  BY Zenon DEF Touch, Resize, SetName, SetOptions
<1>2. menu = "levels" /\ role' = role
  BY <1>1 DEF Editing, OnLevels
<1>3. entities \in Seq(Level)
  BY DEF RepInv, RepositoryTypeOK
<1>4. \/ Crash \/ EditNone
      \/ \E edited \in Level : Edit(edited)
  <2>1. ASSUME NEW tile, Touch(tile), ~Crash PROVE \E edited \in Level : Edit(edited)
    <3>1. lvl # None /\ tile \in DOMAIN lvl.Tiles
      BY <2>1, Zenon DEF Touch
    <3>2. PICK type \in Gestures(lvl.Tiles[tile]) : Edit(SetTile(lvl, tile, type))
      BY <2>1, <3>1, Zenon DEF Touch
    <3>3. lvl \in Level
      BY <1>3, <3>1, GetType
    <3> HIDE DEF lvl
    <3>4. SetTile(lvl, tile, type) \in Level
      BY <3>1, <3>2, <3>3, SetTileLevel
    <3>5. QED
      BY <3>2, <3>4
  <2>2. ASSUME NEW size \in Sizes, Resize(size), ~EditNone
        PROVE  \E edited \in Level : Edit(edited)
    <3>1. InList(entities, levelAt)
      BY <2>2, Zenon DEF Resize
    <3>2. Edit(SetWidth(lvl, size)) \/ Edit(SetHeight(lvl, size))
      BY <2>2, <3>1, Zenon DEF Resize
    <3>3. lvl \in Level
      BY <1>3, <3>1, InTheList
    <3> HIDE DEF lvl
    <3>4. SetWidth(lvl, size) \in Level /\ SetHeight(lvl, size) \in Level
      BY <3>3, ResizedLevel
    <3>5. QED
      BY <3>2, <3>4
  <2>3. ASSUME SetOptions, ~EditNone PROVE \E edited \in Level : Edit(edited)
    <3>1. InList(entities, levelAt)
      BY <2>3, Zenon DEF SetOptions
    <3>2. \/ Edit(SetPublic(lvl, ~lvl.Public))
          \/ \E chapter \in Chapters \ {lvl.Chapter, NoChapter} :
               Edit(SetChapter(lvl, chapter))
      BY <2>3, <3>1, Zenon DEF SetOptions
    <3>3. lvl \in Level
      BY <1>3, <3>1, InTheList
    <3> HIDE DEF lvl
    <3>4. (~lvl.Public) \in BOOLEAN /\ NoChapter \in Chapters
      <4>1. lvl.Public \in BOOLEAN
        BY <3>3, LevelFields
      <4>2. QED
        BY <4>1, RepositoryAssumption
    <3>5. /\ SetPublic(lvl, ~lvl.Public) \in Level
          /\ \A chapter \in Chapters : SetChapter(lvl, chapter) \in Level
      BY <3>3, <3>4, OptionsLevel
    <3>6. QED
      BY <3>2, <3>5
  <2>4. ASSUME SetName, ~EditNone PROVE \E edited \in Level : Edit(edited)
    <3>1. InList(entities, levelAt)
      BY <2>4, Zenon DEF SetName
    <3>2. Edit(lvl)
      BY <2>4, <3>1, Zenon DEF SetName
    <3>3. lvl \in Level
      BY <1>3, <3>1, InTheList
    <3>4. QED
      BY <3>2, <3>3
  <2>5. QED
    BY <2>1, <2>2, <2>3, <2>4
<1>5. QED
  BY <1>2, <1>4, CrashShows, EditNoneShows, EditShows

LEMMA ScreenKeeps ==
  ASSUME RepInv, RepInv', ScreenInv, [Next]_vars PROVE ScreenInv'
<1>1. CASE UNCHANGED vars
  <2>1. UNCHANGED <<entities, load, made, role, known, screen>> /\ running' = running
    BY <1>1 DEF vars, screens, repository
  <2>2. running \in BOOLEAN
    BY DEF ScreenInv, ScreensTypeOK
  <2>3. QED
    BY <2>1, <2>2, ScreenStays
<1>2. CASE Deliver
  BY <1>2, PropagateKeeps DEF Deliver
<1>3. CASE Answer
  <2>1. /\ entities' = entities /\ made' = made /\ role' = role
        /\ load = "asked" /\ load' \in {"answered", "failed"}
        /\ UNCHANGED screens
    BY <1>3 DEF Answer, AnswerLoad, FailLoad
  <2>2. /\ running' = running /\ known' = known /\ menu' = menu /\ inGame' = inGame
        /\ cells' = cells /\ at' = at /\ waiting' = waiting /\ listed' = listed
        /\ options' = options /\ levelAt' = levelAt /\ shown' = shown
        /\ stale' = stale
    BY <2>1 DEF screens, screen, builder
  <2>3. ScreensTypeOK'
    BY <2>1, <2>2 DEF ScreenInv, ScreensTypeOK
  <2>4. OptionsKept' /\ AdministratorSeesAll' /\ LevelOpened'
    BY <2>1, <2>2 DEF ScreenInv, OptionsKept, AdministratorSeesAll, LevelOpened,
       IsAdmin
  <2>5. BuilderShowsItsLevel'
    BY <2>1, <2>2 DEF ScreenInv, BuilderShowsItsLevel
  <2>6. CellsFresh'
    BY <2>1, <2>2 DEF ScreenInv, CellsFresh, Published
  <2>7. QED
    BY <2>3, <2>4, <2>5, <2>6 DEF ScreenInv
<1>4. CASE DeliverProperties
  BY <1>4, PropertiesShow
<1>5. CASE Launch
  BY <1>5, LaunchShows
<1>6. CASE Navigate
  <2>1. UNCHANGED <<running, role, known>>
    BY <1>6 DEF Navigate
  <2>2. at \in Nat /\ 0 \in Nat
    BY DEF ScreenInv, ScreensTypeOK
  <2>3. ShowMain \/ ShowLevels(0) \/ ShowLevels(at)
    BY <1>6, Zenon DEF Navigate, MyLevels, GoBack, Leave
  <2>4. QED
    BY <2>1, <2>2, <2>3, ShowMainKeeps, ShowLevelsKeeps
<1>7. ASSUME NEW u \in UUIDs, AddLevel(u) PROVE ScreenInv'
  BY <1>7, PropagateKeeps DEF AddLevel, OnLevels
<1>8. ASSUME NEW row, DeleteRow(row) PROVE ScreenInv'
  BY <1>8, DeleteShows
<1>9. ASSUME NEW row \in 0 .. Len(entities) - 1, SelectRow(row) PROVE ScreenInv'
  BY <1>9, SelectShows
<1>10. CASE \/ (\E tile : Touch(tile)) \/ (\E size \in Sizes : Resize(size))
            \/ SetName \/ SetOptions
  BY <1>10, EditingShows
<1>11. CASE Play
  BY <1>11, OpenShows DEF Play, Opening
<1>12. ASSUME NEW section, NEW row, TapCell(section, row) PROVE ScreenInv'
  <2>1. role' = role
    BY <1>12 DEF TapCell, Opening
  <2>2. \/ Open(GetAt(entities, Tapped(section, row)),
                cells[section].items[row], made = {})
        \/ Crash
    BY <1>12, Zenon DEF TapCell
  <2>3. QED
    BY <2>1, <2>2, OpenShows, CrashShows
<1>13. ASSUME NEW game, Done(game) PROVE ScreenInv'
  <2>1. UNCHANGED <<repository, role, screens>>
    BY <1>13 DEF Done
  <2>2. UNCHANGED <<entities, load, made, role, known, screen>> /\ running' = running
    BY <2>1 DEF screens, repository
  <2>3. running \in BOOLEAN
    BY DEF ScreenInv, ScreensTypeOK
  <2>4. QED
    BY <2>2, <2>3, ScreenStays
<1>14. ASSUME NEW game, Trap(game) PROVE ScreenInv'
  BY <1>14, CrashShows DEF Trap
<1>15. QED
  BY <1>1, <1>2, <1>3, <1>4, <1>5, <1>6, <1>7, <1>8, <1>9, <1>10, <1>11, <1>12,
     <1>13, <1>14, Zenon DEF Next

-----------------------------------------------------------------------------
(* The games.                                                              *)

\* A game that is opened is on the level the screen shows, if that is sure.
LEMMA OpenGame ==
  ASSUME RepInv, GamesOK, NEW index, NEW seen, NEW sure, Open(index, seen, sure),
         InList(entities, index) /\ sure => Get(entities, index).UUID = seen
  PROVE  GamesOK'
<1>1. entities \in Seq(Level)
  BY DEF RepInv, RepositoryTypeOK
<1>2. CASE InList(entities, index)
  <2> DEFINE level == Get(entities, index).UUID
             opened == [at |-> index, level |-> level, seen |-> seen, sure |-> sure,
                        resized |-> FALSE]
  <2>1. playing' = playing \cup {opened}
    BY <1>2, Zenon DEF Open
  <2>2. level \in UUIDs /\ index \in Nat
    <3>1. index \in 0 .. Len(entities) - 1 /\ Len(entities) \in Nat
      BY <1>1, <1>2 DEF InList
    <3>2. QED
      BY <1>1, <1>2, <3>1, InTheList
  <2>3. sure => level = seen
    BY <1>2
  <2> HIDE DEF level
  <2>4. IsGame(opened)
    BY <2>2, <2>3 DEF IsGame
  <2> HIDE DEF opened
  <2>5. QED
    BY <2>1, <2>4 DEF GamesOK
<1>3. CASE ~InList(entities, index)
  BY <1>3 DEF Open, GamesOK
<1>4. QED
  BY <1>2, <1>3

LEMMA PlayGame == ASSUME RepInv, ScreenInv, GamesOK, Play PROVE GamesOK'
<1> DEFINE seen == IF shown = None THEN None ELSE shown.UUID
           sure == ~stale /\ shown # None
<1>1. Open(at, seen, sure) /\ menu = "levels"
  BY Zenon DEF Play, OnLevels
<1>2. ASSUME InList(entities, at), sure PROVE Get(entities, at).UUID = seen
  <2>1. shown = Get(entities, levelAt) /\ shown # None
    BY <1>2 DEF ScreenInv, BuilderShowsItsLevel
  <2>2. levelAt # -1
    BY <2>1 DEF Get, InList
  <2>3. levelAt = at
    BY <1>1, <2>2 DEF ScreenInv, LevelOpened
  <2>4. QED
    BY <2>1, <2>3
<1> HIDE DEF seen, sure
<1>3. QED
  BY <1>1, <1>2, OpenGame

\* As long as nothing was added, the cells are the ones getLevel looks in.
LEMMA TapGame ==
  ASSUME RepInv, ScreenInv, GamesOK, NEW section, NEW row, TapCell(section, row)
  PROVE  GamesOK'
<1> DEFINE tapped == Tapped(section, row)
           seen   == cells[section].items[row]
           sure   == made = {}
           index  == GetAt(entities, tapped)
<1>1. menu = "main" /\ cells # None
  BY Zenon DEF TapCell, OnMain
<1>2. Open(index, seen, sure) \/ (Crash /\ UNCHANGED playing)
  BY Zenon DEF TapCell
<1>3. ASSUME InList(entities, index), sure PROVE Get(entities, index).UUID = seen
  <2>1. cells = Cells(entities)
    BY <1>1, <1>3 DEF ScreenInv, CellsFresh
  <2>2. tapped = seen
    BY <2>1, Zenon DEF Tapped
  <2>3. entities \in Seq(Level)
    BY DEF RepInv, RepositoryTypeOK
  <2> HIDE DEF tapped
  <2>4. tapped \in UUIDsOf(entities)
    BY <1>3, <2>3, GetAtRight
  <2>5. Get(entities, index).UUID = tapped
    BY <2>3, <2>4, GetAtFinds
  <2>6. QED
    BY <2>2, <2>5
<1>4. CASE Open(index, seen, sure)
  <2> HIDE DEF index, seen, sure
  <2>1. QED
    BY <1>3, <1>4, OpenGame
<1>5. CASE UNCHANGED playing
  BY <1>5 DEF GamesOK
<1>6. QED
  BY <1>2, <1>4, <1>5

LEMMA ResizeGames ==
  ASSUME GamesOK, NEW size, Resize(size) PROVE GamesOK'
<1> DEFINE lvl == Get(entities, levelAt)
           resized(game) == [game EXCEPT !.resized = @ \/ game.level = lvl.UUID]
<1>1. playing' = {resized(game) : game \in playing} \/ playing' = playing
  BY Zenon DEF Resize
<1>2. ASSUME NEW game \in playing PROVE IsGame(resized(game))
  <2> DEFINE now == game.resized \/ game.level = lvl.UUID
  <2>1. IsGame(game)
    BY DEF GamesOK
  <2>2. resized(game) = [game EXCEPT !.resized = now]
    OBVIOUS
  <2> HIDE DEF now
  <2>3. [game EXCEPT !.resized = now]
          = [at |-> game.at, level |-> game.level, seen |-> game.seen,
             sure |-> game.sure, resized |-> now]
    BY <2>1 DEF IsGame
  <2>4. IsGame([at |-> game.at, level |-> game.level, seen |-> game.seen,
                sure |-> game.sure, resized |-> now])
    BY <2>1 DEF IsGame
  <2>5. QED
    BY <2>2, <2>3, <2>4, Zenon
<1> HIDE DEF resized
<1>3. QED
  BY <1>1, <1>2 DEF GamesOK

LEMMA GamesKeep ==
  ASSUME RepInv, ScreenInv, GamesOK, [Next]_vars PROVE GamesOK'
<1>1. ASSUME playing' \subseteq playing PROVE GamesOK'
  BY <1>1 DEF GamesOK
<1>2. CASE UNCHANGED vars
  BY <1>1, <1>2 DEF vars, played
<1>3. CASE Deliver \/ Answer \/ DeliverProperties \/ Navigate
  BY <1>1, <1>3 DEF Deliver, Answer, DeliverProperties, Navigate, played
<1>4. CASE Launch
  BY <1>1, <1>4 DEF Launch
<1>5. ASSUME NEW u, AddLevel(u) PROVE GamesOK'
  BY <1>1, <1>5 DEF AddLevel, played
<1>6. ASSUME NEW row, DeleteRow(row) \/ SelectRow(row) PROVE GamesOK'
  BY <1>1, <1>6 DEF DeleteRow, SelectRow, played
<1>7. ASSUME NEW tile, Touch(tile) PROVE GamesOK'
  BY <1>1, <1>7 DEF Touch
<1>8. ASSUME NEW size, Resize(size) PROVE GamesOK'
  BY <1>8, ResizeGames
<1>9. CASE SetName \/ SetOptions
  BY <1>1, <1>9 DEF SetName, SetOptions
<1>10. CASE Play
  BY <1>10, PlayGame
<1>11. ASSUME NEW section, NEW row, TapCell(section, row) PROVE GamesOK'
  BY <1>11, TapGame
<1>12. ASSUME NEW game, Done(game) PROVE GamesOK'
  BY <1>1, <1>12 DEF Done
<1>13. ASSUME NEW game, Trap(game) PROVE GamesOK'
  BY <1>1, <1>13 DEF Trap, played
<1>14. QED
  BY <1>2, <1>3, <1>4, <1>5, <1>6, <1>7, <1>8, <1>9, <1>10, <1>11, <1>12, <1>13,
     Zenon DEF Next

IInv == RepInv /\ ScreenInv /\ GamesOK

LEMMA InitInv == Init => IInv
<1> SUFFICES ASSUME Init PROVE IInv
  OBVIOUS
<1>1. RepInv
  BY InitKeeps DEF Init
<1>2. entities = <<>>
  BY DEF Init, RepositoryInit
<1>3. ScreensTypeOK
  BY <1>2 DEF Init, ScreensTypeOK
<1>4. QED
  BY <1>1, <1>2, <1>3 DEF Init, IInv, ScreenInv, OptionsKept, AdministratorSeesAll,
     BuilderShowsItsLevel, LevelOpened, CellsFresh, GamesOK

LEMMA NextInv == IInv /\ [Next]_vars => IInv'
<1> SUFFICES ASSUME IInv, [Next]_vars PROVE IInv'
  OBVIOUS
<1>1. RepInv'
  BY NextKeeps DEF IInv
<1>2. ScreenInv'
  BY <1>1, ScreenKeeps DEF IInv
<1>3. GamesOK'
  BY GamesKeep DEF IInv
<1>4. QED
  BY <1>1, <1>2, <1>3 DEF IInv

\* On every device the screens go together with the list (TypeOK), the builder
\* shows the level its gestures change until a level is deleted, an administrator
\* has a row for every level, and a game is on the level its screen showed: for
\* all levels, sizes, chapters and any number of edits, games and launches.
THEOREM EditorScreens ==
  Spec => [](TypeOK /\ BuilderShowsItsLevel /\ AdministratorSeesAll /\ PlaysWhatIsShown)
<1>1. Init => IInv
  BY InitInv
<1>2. IInv /\ [Next]_vars => IInv'
  BY NextInv
<1>3. IInv => TypeOK /\ BuilderShowsItsLevel /\ AdministratorSeesAll /\ PlaysWhatIsShown
  BY DEF IInv, RepInv, ScreenInv, ScreensTypeOK, GamesOK, IsGame, TypeOK,
     PlaysWhatIsShown
<1>4. QED
  BY <1>1, <1>2, <1>3, PTL DEF Spec

-----------------------------------------------------------------------------
(* The tiles.                                                              *)

\* Swipes to the two sides undo each other on every tile of every level there is.
THEOREM EditorSwipes == Spec => []SwipesUndo
<1>1. Init => RepInv
  BY InitKeeps DEF Init
<1>2. RepInv /\ [Next]_vars => RepInv'
  BY NextKeeps
<1>3. ASSUME NEW type \in TypeOfTile
      PROVE  CycleLeft(CycleRight(type)) = type /\ CycleRight(CycleLeft(type)) = type
  BY DEF TypeOfTile, CycleLeft, CycleRight, Coloured, Free, Used, UsedA, UsedE
<1>4. RepInv => SwipesUndo
  <2> SUFFICES ASSUME RepInv, NEW k \in DOMAIN entities,
                      NEW tile \in DOMAIN entities[k].Tiles
               PROVE  entities[k].Tiles[tile] \in TypeOfTile
    BY <1>3 DEF SwipesUndo
  <2>1. entities[k] \in Level
    BY DEF RepInv, RepositoryTypeOK
  <2>2. QED
    BY <2>1, LevelFields
<1>5. QED
  BY <1>1, <1>2, <1>4, PTL DEF Spec
-----------------------------------------------------------------------------
(* The cells of the public levels.  The folds are unrolled first: r[k] is   *)
(* what they have made of the first k levels.                               *)

SortsInto(r, list) ==
  /\ r \in [0 .. Len(list) -> Seq(Level)] /\ r[0] = <<>>
  /\ \A k \in 1 .. Len(list) : r[k] = Inserted(r[k - 1], list[k])
  /\ InsertionSorted(list) = r[Len(list)]

\* A level is inserted behind those of its chapter, and before those of later
\* ones, into a list sorted by chapter.
ByChapter(list) ==
  \A i, j \in DOMAIN list : i < j => list[i].Chapter <= list[j].Chapter

LEMMA ChapterOf == ASSUME NEW lvl \in Level PROVE lvl.Chapter \in Nat
BY LevelFields, RepositoryAssumption

\* u is v with e at p, and what was there behind it.
IsSplice(u, v, p, e) ==
  /\ Len(u) = Len(v) + 1
  /\ \A i \in 1 .. Len(v) + 1 :
       u[i] = IF i < p THEN v[i] ELSE IF i = p THEN e ELSE v[i - 1]

LEMMA Spliced ==
  ASSUME NEW S, NEW v \in Seq(S), NEW e \in S, NEW p \in 1 .. Len(v) + 1
  PROVE  InsertAt(v, p, e) \in Seq(S) /\ IsSplice(InsertAt(v, p, e), v, p, e)
<1> DEFINE a == SubSeq(v, 1, p - 1)
           b == SubSeq(v, p, Len(v))
           ae == a \o <<e>>
<1>1. /\ a \in Seq(S) /\ Len(a) = p - 1
      /\ \A k \in 1 .. p - 1 : a[k] = v[k]
  OBVIOUS
<1>2. /\ b \in Seq(S) /\ Len(b) = Len(v) - (p - 1)
      /\ \A k \in 1 .. Len(v) - (p - 1) : b[k] = v[(p - 1) + k]
  OBVIOUS
<1>3. InsertAt(v, p, e) = ae \o b
  BY DEF InsertAt
<1>4. <<e>> \in Seq(S) /\ Len(<<e>>) = 1 /\ <<e>>[1] = e
  OBVIOUS
<1> HIDE DEF a, b
<1>5. /\ ae \in Seq(S) /\ Len(ae) = p
      /\ \A k \in 1 .. p - 1 : ae[k] = v[k]
      /\ ae[p] = e
  <2>1. ae \in Seq(S) /\ Len(ae) = Len(a) + 1
    BY <1>1, <1>4, Concatenated
  <2>2. \A k \in 1 .. Len(a) : ae[k] = a[k]
    BY <1>1, <1>4, Concatenated
  <2>3. ae[Len(a) + 1] = <<e>>[1]
    BY <1>1, <1>4, Concatenated
  <2> HIDE DEF ae
  <2>4. QED
    BY <1>1, <1>4, <2>1, <2>2, <2>3
<1> HIDE DEF ae
<1>6. /\ ae \o b \in Seq(S) /\ Len(ae \o b) = Len(ae) + Len(b)
      /\ \A k \in 1 .. Len(ae) : (ae \o b)[k] = ae[k]
      /\ \A k \in 1 .. Len(b) : (ae \o b)[Len(ae) + k] = b[k]
  BY <1>2, <1>5, Concatenated
<1> DEFINE c == ae \o b
<1> HIDE DEF c
<1>7. /\ c \in Seq(S) /\ Len(c) = Len(v) + 1
  BY <1>2, <1>5, <1>6 DEF c
<1>8. ASSUME NEW i \in 1 .. Len(v) + 1
      PROVE  c[i] = IF i < p THEN v[i] ELSE IF i = p THEN e ELSE v[i - 1]
  <2>1. CASE i < p
    <3>1. i \in 1 .. Len(ae) /\ i \in 1 .. p - 1
      BY <1>5, <2>1
    <3>2. QED
      BY <1>5, <1>6, <2>1, <3>1 DEF c
  <2>2. CASE i = p
    <3>1. i \in 1 .. Len(ae)
      BY <1>5, <2>2
    <3>2. c[i] = ae[i]
      BY <1>6, <3>1 DEF c
    <3>3. QED
      BY <1>5, <2>2, <3>2
  <2>3. CASE i > p
    <3>1. i - p \in 1 .. Len(b) /\ Len(ae) + (i - p) = i /\ (p - 1) + (i - p) = i - 1
          /\ i - p \in 1 .. Len(v) - (p - 1)
      BY <1>2, <1>5, <2>3
    <3>2. c[i] = b[i - p]
      BY <1>6, <3>1 DEF c
    <3>3. b[i - p] = v[i - 1]
      BY <1>2, <3>1
    <3>4. QED
      BY <2>3, <3>2, <3>3
  <2>4. QED
    BY <2>1, <2>2, <2>3
<1>9. QED
  BY <1>3, <1>7, <1>8 DEF c, IsSplice

LEMMA InsertedType ==
  ASSUME NEW v \in Seq(Level), NEW lvl \in Level
  PROVE  Inserted(v, lvl) \in Seq(Level)
<1> DEFINE before == {k \in DOMAIN v : v[k].Chapter <= lvl.Chapter}
           m == Len(v)
<1>1. m \in Nat /\ DOMAIN v = 1 .. m
  OBVIOUS
<1>2. IsFiniteSet(1 .. m) /\ Cardinality(1 .. m) = m
  <2>1. 1 \in Int /\ m \in Int
    BY <1>1
  <2>2. IsFiniteSet(1 .. m) /\ Cardinality(1 .. m) = IF 1 > m THEN 0 ELSE m - 1 + 1
    BY <2>1, FS_Interval
  <2>3. QED
    BY <1>1, <2>2
<1>3. before \subseteq 1 .. m
  BY <1>1
<1>4. Cardinality(before) \in Nat /\ Cardinality(before) <= m
  BY <1>2, <1>3, FS_Subset, FS_CardinalityType
<1> DEFINE p == Cardinality(before) + 1
<1>5. Inserted(v, lvl) = InsertAt(v, p, lvl)
  BY DEF Inserted
<1> HIDE DEF before
<1>6. p \in 1 .. Len(v) + 1
  BY <1>1, <1>4
<1> HIDE DEF p
<1>7. QED
  BY <1>5, <1>6, Spliced

LEMMA InsertedPlace ==
  ASSUME NEW v \in Seq(Level), ByChapter(v), NEW lvl \in Level
  PROVE  \E p \in 1 .. Len(v) + 1 :
           /\ Inserted(v, lvl) = InsertAt(v, p, lvl)
           /\ \A i \in 1 .. p - 1 : v[i].Chapter <= lvl.Chapter
           /\ \A i \in p .. Len(v) : v[i].Chapter > lvl.Chapter
<1> DEFINE before == {k \in DOMAIN v : v[k].Chapter <= lvl.Chapter}
           m == Len(v)
           S == {i \in 1 .. m + 1 : i = m + 1 \/ v[i].Chapter > lvl.Chapter}
<1>1. m \in Nat /\ DOMAIN v = 1 .. m
  OBVIOUS
<1>a. lvl.Chapter \in Nat /\ \A i \in 1 .. m : v[i].Chapter \in Nat
  <2>1. \A i \in 1 .. m : v[i] \in Level
    BY <1>1
  <2>2. QED
    BY <2>1, ChapterOf
<1>2. S \in SUBSET Nat /\ m + 1 \in S
  BY <1>1
<1>3. PICK p \in S : \A j \in S : ~(j < p)
  <2> HIDE DEF S
  <2> QED BY <1>2, LeastIndex
<1>4. p \in 1 .. m + 1
  OBVIOUS
<1>5. ASSUME NEW i \in 1 .. p - 1 PROVE i \in 1 .. m /\ v[i].Chapter <= lvl.Chapter
  <2>1. i \in 1 .. m /\ i < p /\ i \in 1 .. m + 1
    BY <1>1, <1>4
  <2>2. i \notin S
    BY <1>3, <2>1
  <2>3. ~(v[i].Chapter > lvl.Chapter)
    BY <2>1, <2>2
  <2>4. QED
    BY <1>a, <2>1, <2>3
<1>6. ASSUME NEW i \in p .. m PROVE v[i].Chapter > lvl.Chapter
  <2>1. p \in 1 .. m /\ i \in 1 .. m /\ p # m + 1
    BY <1>1, <1>4
  <2>2. v[p].Chapter > lvl.Chapter
    BY <1>3, <2>1
  <2>3. p = i \/ v[p].Chapter <= v[i].Chapter
    BY <1>1, <2>1 DEF ByChapter
  <2>4. QED
    BY <1>a, <2>1, <2>2, <2>3
<1>7. before = 1 .. p - 1
  <2>1. ASSUME NEW i \in before PROVE i \in 1 .. p - 1
    <3>1. i \in 1 .. m /\ v[i].Chapter <= lvl.Chapter
      BY <1>1
    <3>2. i \notin p .. m
      BY <1>6, <1>a, <3>1
    <3>3. QED
      BY <1>1, <1>4, <3>1, <3>2
  <2>2. ASSUME NEW i \in 1 .. p - 1 PROVE i \in before
    BY <1>1, <1>5
  <2>3. QED
    BY <2>1, <2>2
<1>8. Cardinality(1 .. p - 1) + 1 = p
  <2>1. 1 \in Int /\ p - 1 \in Int
    BY <1>4
  <2>2. Cardinality(1 .. p - 1) = IF 1 > p - 1 THEN 0 ELSE (p - 1) - 1 + 1
    BY <2>1, FS_Interval
  <2>3. QED
    BY <1>4, <2>2
<1>9. Inserted(v, lvl) = InsertAt(v, p, lvl)
  BY <1>7, <1>8 DEF Inserted
<1> HIDE DEF S
<1>10. QED
  BY <1>4, <1>5, <1>6, <1>9

LEMMA SortUnrolls ==
  ASSUME NEW list \in Seq(Level)
  PROVE  \E r : SortsInto(r, list)
<1> DEFINE n == Len(list)
           V == Seq(Level)
           step == [q \in V \X (1 .. n) |-> Inserted(q[1], list[q[2]])]
           Folds(g) == g = [s \in SUBSET DOMAIN list |->
                               IF s = {} THEN <<>>
                               ELSE Inserted(g[s \ {Max(s)}], list[Max(s)])]
           h == CHOOSE g : Folds(g)
<1>1. n \in Nat /\ DOMAIN list = 1 .. n /\ <<>> \in V /\ \A k \in 1 .. n : list[k] \in Level
  OBVIOUS
<1>2. step \in [V \X (1 .. n) -> V]
  BY <1>1, InsertedType
<1>3. PICK g : IsFold(g, V, <<>>, n, step)
  <2> HIDE DEF step, V, n
  <2>1. QED
    BY <1>1, <1>2, FoldExists
<1>4. Folds(g)
  <2>1. ASSUME NEW s \in SUBSET (1 .. n), s # {}
        PROVE  step[<<g[s \ {Max(s)}], Max(s)>>] = Inserted(g[s \ {Max(s)}], list[Max(s)])
    <3>1. Max(s) \in s
      BY <1>1, <2>1, GreatestOf
    <3>2. g[s \ {Max(s)}] \in V /\ Max(s) \in 1 .. n
      BY <1>3, <3>1 DEF IsFold
    <3>3. <<g[s \ {Max(s)}], Max(s)>> \in V \X (1 .. n)
      BY <3>2
    <3>4. QED
      BY <3>3
  <2> HIDE DEF step, V, n
  <2>2. g = [s \in SUBSET (1 .. n) |-> IF s = {} THEN <<>>
                                      ELSE Inserted(g[s \ {Max(s)}], list[Max(s)])]
    BY <1>3, <2>1 DEF IsFold
  <2>3. QED
    BY <1>1, <2>2, Zenon
<1>5. Folds(h)
  <2> HIDE DEF Folds
  <2>1. QED
    BY <1>4, Zenon
<1>6. InsertionSorted(list) = h[DOMAIN list]
  BY Zenon DEF InsertionSorted, FoldLeft, MapThenFoldSet
<1> DEFINE r == [k \in 0 .. n |-> h[1 .. k]]
<1>7. \A s \in SUBSET (1 .. n) :
        h[s] = IF s = {} THEN <<>> ELSE Inserted(h[s \ {Max(s)}], list[Max(s)])
  <2>1. h = [s \in SUBSET DOMAIN list |->
               IF s = {} THEN <<>> ELSE Inserted(h[s \ {Max(s)}], list[Max(s)])]
    BY <1>5, Zenon
  <2> HIDE DEF h, n, Folds
  <2>2. QED
    BY <1>1, <2>1, Zenon
<1> HIDE DEF h, step, Folds
<1>8. r[0] = <<>>
  <2>1. 1 .. 0 = {} /\ 0 \in 0 .. n
    BY <1>1
  <2>2. h[1 .. 0] = <<>>
    BY <1>7, <2>1
  <2>3. QED
    BY <2>1, <2>2
<1>9. ASSUME NEW k \in 0 .. n - 1 PROVE h[1 .. k + 1] = Inserted(h[1 .. k], list[k + 1])
  <2>1. 1 .. k + 1 \in SUBSET (1 .. n) /\ k \in Nat
    BY <1>1
  <2>2. /\ Max(1 .. k + 1) = k + 1 /\ (1 .. k + 1) \ {k + 1} = 1 .. k
        /\ 1 .. k + 1 # {}
    BY <2>1, Prefix
  <2>3. QED
    BY <1>7, <2>1, <2>2
<1>10. \A k \in 0 .. n : h[1 .. k] \in V
  <2> DEFINE T == {k \in 0 .. n : h[1 .. k] \in V}
  <2>1. 0 \in T
    <3>1. 0 \in 0 .. n
      BY <1>1
    <3>2. QED
      BY <1>1, <1>8, <3>1
  <2>2. ASSUME NEW k \in 0 .. n - 1, k \in T PROVE k + 1 \in T
    <3>1. h[1 .. k] \in V /\ k + 1 \in 1 .. n /\ k + 1 \in 0 .. n
      BY <1>1, <2>2
    <3>2. Inserted(h[1 .. k], list[k + 1]) \in V
      BY <1>1, <3>1, InsertedType
    <3>3. QED
      BY <1>9, <3>1, <3>2
  <2> HIDE DEF T
  <2>3. \A k \in 0 .. n : k \in T
    BY <1>1, <2>1, <2>2, BoundedInduction
  <2>4. QED
    BY <2>3 DEF T
<1>11. \A k \in 1 .. n : r[k] = Inserted(r[k - 1], list[k])
  <2> SUFFICES ASSUME NEW k \in 1 .. n PROVE r[k] = Inserted(r[k - 1], list[k])
    OBVIOUS
  <2>1. k - 1 \in 0 .. n - 1 /\ (k - 1) + 1 = k /\ k \in 0 .. n /\ k - 1 \in 0 .. n
    BY <1>1
  <2>2. h[1 .. (k - 1) + 1] = Inserted(h[1 .. k - 1], list[(k - 1) + 1])
    BY <1>9, <2>1
  <2>3. QED
    BY <2>1, <2>2
<1>12. r \in [0 .. n -> V] /\ r[n] = h[DOMAIN list]
  BY <1>1, <1>10
<1> HIDE DEF r
<1>13. SortsInto(r, list)
  BY <1>6, <1>8, <1>11, <1>12 DEF SortsInto
<1>14. QED
  BY <1>13

\* v is the first k levels of the list, sorted by chapter; p says where each of
\* them was, and those of a chapter stay in their order.
StableSort(v, list, k, p) ==
  /\ v \in Seq(Level) /\ Len(v) = k /\ p \in [1 .. k -> 1 .. k]
  /\ \A i \in 1 .. k : v[i] = list[p[i]]
  /\ \A x \in 1 .. k : \E i \in 1 .. k : p[i] = x
  /\ \A i, j \in 1 .. k :
       i < j => \/ v[i].Chapter < v[j].Chapter
                \/ v[i].Chapter = v[j].Chapter /\ p[i] < p[j]

LEMMA StableByChapter ==
  ASSUME NEW v, NEW list, NEW k \in Nat, NEW p, StableSort(v, list, k, p)
  PROVE  ByChapter(v)
<1>1. v \in Seq(Level) /\ DOMAIN v = 1 .. k
  BY DEF StableSort
<1>2. \A i \in 1 .. k : v[i].Chapter \in Nat
  BY <1>1, ChapterOf
<1>3. ASSUME NEW i \in 1 .. k, NEW j \in 1 .. k, i < j
      PROVE  v[i].Chapter <= v[j].Chapter
  <2>1. v[i].Chapter < v[j].Chapter \/ v[i].Chapter = v[j].Chapter
    BY <1>3 DEF StableSort
  <2>2. v[i].Chapter \in Nat /\ v[j].Chapter \in Nat
    BY <1>2
  <2>3. QED
    BY <2>1, <2>2
<1>4. QED
  BY <1>1, <1>3 DEF ByChapter

LEMMA StableInsert ==
  ASSUME NEW list \in Seq(Level), NEW k \in 0 .. Len(list) - 1, NEW v, NEW p,
         StableSort(v, list, k, p)
  PROVE  \E q : StableSort(Inserted(v, list[k + 1]), list, k + 1, q)
<1> DEFINE lvl == list[k + 1]
           w == Inserted(v, lvl)
<1>1. k \in Nat /\ k + 1 \in 1 .. Len(list) /\ lvl \in Level
  OBVIOUS
<1>2. v \in Seq(Level) /\ Len(v) = k /\ DOMAIN v = 1 .. k
  BY DEF StableSort
<1>3. ByChapter(v)
  BY <1>1, StableByChapter
<1>4. lvl.Chapter \in Nat /\ \A i \in 1 .. k : v[i].Chapter \in Nat
  BY <1>1, <1>2, ChapterOf
<1> HIDE DEF lvl
<1>5. PICK m \in 1 .. k + 1 :
           /\ w = InsertAt(v, m, lvl)
           /\ \A i \in 1 .. m - 1 : v[i].Chapter <= lvl.Chapter
           /\ \A i \in m .. k : v[i].Chapter > lvl.Chapter
  BY <1>1, <1>2, <1>3, InsertedPlace
<1>6. /\ w \in Seq(Level) /\ Len(w) = k + 1
      /\ \A i \in 1 .. k + 1 :
           w[i] = IF i < m THEN v[i] ELSE IF i = m THEN lvl ELSE v[i - 1]
  <2> HIDE DEF w
  <2>1. m \in 1 .. Len(v) + 1 /\ Len(v) = k
    BY <1>2
  <2>2. InsertAt(v, m, lvl) \in Seq(Level) /\ IsSplice(InsertAt(v, m, lvl), v, m, lvl)
    BY <1>1, <1>2, <2>1, Spliced
  <2>3. w \in Seq(Level) /\ IsSplice(w, v, m, lvl)
    BY <1>5, <2>2, Zenon
  <2>4. QED
    BY <1>2, <2>3 DEF IsSplice
<1> HIDE DEF w
<1> DEFINE q == [i \in 1 .. k + 1 |-> IF i < m THEN p[i]
                                      ELSE IF i = m THEN k + 1 ELSE p[i - 1]]
<1>7. /\ p \in [1 .. k -> 1 .. k]
      /\ \A i \in 1 .. k : v[i] = list[p[i]]
      /\ \A x \in 1 .. k : \E i \in 1 .. k : p[i] = x
      /\ \A i, j \in 1 .. k :
           i < j => \/ v[i].Chapter < v[j].Chapter
                    \/ v[i].Chapter = v[j].Chapter /\ p[i] < p[j]
  BY DEF StableSort
<1>8. \A i \in 1 .. k + 1 : /\ i < m => i \in 1 .. k
                            /\ i > m => i - 1 \in m .. k /\ i - 1 \in 1 .. k
                            /\ i < m \/ i = m \/ i > m
  BY <1>1
<1>9. q \in [1 .. k + 1 -> 1 .. k + 1]
  <2>1. ASSUME NEW i \in 1 .. k + 1
        PROVE  (IF i < m THEN p[i] ELSE IF i = m THEN k + 1 ELSE p[i - 1]) \in 1 .. k + 1
    <3>1. CASE i < m
      <4>1. p[i] \in 1 .. k
        BY <1>7, <1>8, <3>1
      <4>2. QED
        BY <1>1, <3>1, <4>1
    <3>2. CASE i = m
      BY <1>1, <3>2
    <3>3. CASE i > m
      <4>1. p[i - 1] \in 1 .. k
        BY <1>7, <1>8, <3>3
      <4>2. QED
        BY <1>1, <3>3, <4>1
    <3>4. QED
      BY <1>8, <3>1, <3>2, <3>3
  <2>2. QED
    BY <2>1
<1>10. \A i \in 1 .. k + 1 : q[i] = IF i < m THEN p[i]
                                   ELSE IF i = m THEN k + 1 ELSE p[i - 1]
  OBVIOUS
<1> HIDE DEF q
<1>11. ASSUME NEW i \in 1 .. k + 1 PROVE w[i] = list[q[i]]
  <2>1. CASE i < m
    BY <1>6, <1>7, <1>8, <1>10, <2>1
  <2>2. CASE i = m
    <3>1. w[i] = lvl /\ q[i] = k + 1
      BY <1>6, <1>10, <2>2
    <3>2. QED
      BY <3>1 DEF lvl
  <2>3. CASE i > m
    <3>1. w[i] = v[i - 1] /\ q[i] = p[i - 1] /\ i - 1 \in 1 .. k
      BY <1>6, <1>8, <1>10, <2>3
    <3>2. QED
      BY <1>7, <3>1
  <2>4. QED
    BY <1>8, <2>1, <2>2, <2>3
<1>12. ASSUME NEW x \in 1 .. k + 1 PROVE \E i \in 1 .. k + 1 : q[i] = x
  <2>1. CASE x = k + 1
    <3>1. q[m] = k + 1
      BY <1>1, <1>10
    <3>2. QED
      BY <2>1, <3>1
  <2>2. CASE x # k + 1
    <3>1. PICK i \in 1 .. k : p[i] = x
      BY <1>1, <1>7, <2>2
    <3>2. CASE i < m
      <4>1. i \in 1 .. k + 1 /\ q[i] = x
        BY <1>1, <1>10, <3>1, <3>2
      <4>2. QED
        BY <4>1
    <3>3. CASE i >= m
      <4>1. i + 1 \in 1 .. k + 1 /\ ~(i + 1 < m) /\ i + 1 # m /\ (i + 1) - 1 = i
        BY <1>1, <3>3
      <4>2. q[i + 1] = p[(i + 1) - 1]
        BY <1>10, <4>1
      <4>3. QED
        BY <3>1, <4>1, <4>2
    <3>4. QED
      BY <1>1, <3>2, <3>3
  <2>3. QED
    BY <2>1, <2>2
<1>13. ASSUME NEW i \in 1 .. k + 1, NEW j \in 1 .. k + 1, i < j
       PROVE  \/ w[i].Chapter < w[j].Chapter
              \/ w[i].Chapter = w[j].Chapter /\ q[i] < q[j]
  <2>1. CASE j < m
    <3>1. i \in 1 .. k /\ j \in 1 .. k /\ i < m
      BY <1>1, <1>13, <2>1
    <3>2. w[i] = v[i] /\ w[j] = v[j] /\ q[i] = p[i] /\ q[j] = p[j]
      BY <1>6, <1>10, <2>1, <3>1
    <3>3. \/ v[i].Chapter < v[j].Chapter
          \/ v[i].Chapter = v[j].Chapter /\ p[i] < p[j]
      BY <1>7, <1>13, <3>1
    <3>4. QED
      BY <3>2, <3>3, Zenon
  <2>2. CASE j = m
    <3>1. i \in 1 .. k /\ i \in 1 .. m - 1 /\ i < m
      BY <1>1, <1>13, <2>2
    <3>2. w[i] = v[i] /\ w[j] = lvl /\ q[i] = p[i] /\ q[j] = k + 1
      BY <1>6, <1>10, <2>2, <3>1
    <3>3. p[i] \in 1 .. k /\ v[i].Chapter <= lvl.Chapter
      BY <1>5, <1>7, <3>1
    <3>4. QED
      BY <1>1, <1>4, <3>1, <3>2, <3>3
  <2>3. CASE j > m /\ i < m
    <3>1. i \in 1 .. k /\ j - 1 \in 1 .. k /\ i < j - 1
      BY <1>1, <2>3
    <3>2. w[i] = v[i] /\ w[j] = v[j - 1] /\ q[i] = p[i] /\ q[j] = p[j - 1]
      BY <1>6, <1>8, <1>10, <2>3
    <3>3. QED
      BY <1>7, <3>1, <3>2
  <2>4. CASE j > m /\ i = m
    <3>1. j - 1 \in m .. k
      BY <1>8, <2>4
    <3>2. w[i] = lvl /\ w[j] = v[j - 1]
      BY <1>6, <1>8, <2>4
    <3>3. v[j - 1].Chapter > lvl.Chapter /\ v[j - 1].Chapter \in Nat
      BY <1>4, <1>5, <1>8, <2>4, <3>1
    <3>4. QED
      BY <1>4, <3>2, <3>3
  <2>5. CASE j > m /\ i > m
    <3>1. i - 1 \in 1 .. k /\ j - 1 \in 1 .. k /\ i - 1 < j - 1
      BY <1>8, <1>13, <2>5
    <3>2. w[i] = v[i - 1] /\ w[j] = v[j - 1] /\ q[i] = p[i - 1] /\ q[j] = p[j - 1]
      BY <1>6, <1>8, <1>10, <2>5
    <3>3. QED
      BY <1>7, <3>1, <3>2
  <2>6. QED
    BY <1>8, <2>1, <2>2, <2>3, <2>4, <2>5
<1>14. StableSort(w, list, k + 1, q)
  BY <1>6, <1>9, <1>11, <1>12, <1>13 DEF StableSort
<1>15. QED
  BY <1>14 DEF w, lvl

\* Insertion sorts by chapter, and leaves the levels of a chapter in their order.
LEMMA InsertionIsStable ==
  ASSUME NEW list \in Seq(Level)
  PROVE  \E p : StableSort(InsertionSorted(list), list, Len(list), p)
<1> DEFINE n == Len(list)
<1>1. PICK r : SortsInto(r, list)
  BY SortUnrolls
<1> DEFINE T == {k \in 0 .. n : \E p : StableSort(r[k], list, k, p)}
<1>2. n \in Nat
  OBVIOUS
<1>3. 0 \in T
  <2> DEFINE p == [i \in 1 .. 0 |-> i]
  <2>1. r[0] = <<>> /\ <<>> \in Seq(Level) /\ Len(<<>>) = 0 /\ 0 \in 0 .. n
    BY <1>1, <1>2 DEF SortsInto
  <2>2. p \in [1 .. 0 -> 1 .. 0] /\ \A i \in 1 .. 0 : FALSE
    OBVIOUS
  <2> HIDE DEF p
  <2>3. StableSort(r[0], list, 0, p)
    BY <2>1, <2>2 DEF StableSort
  <2>4. QED
    BY <2>1, <2>3
<1>4. ASSUME NEW k \in 0 .. n - 1, k \in T PROVE k + 1 \in T
  <2>1. PICK p : StableSort(r[k], list, k, p)
    BY <1>4
  <2>2. k + 1 \in 1 .. n /\ k + 1 \in 0 .. n /\ (k + 1) - 1 = k
    BY <1>2
  <2>3. r[k + 1] = Inserted(r[k], list[k + 1])
    BY <1>1, <2>2 DEF SortsInto
  <2>4. \E q : StableSort(Inserted(r[k], list[k + 1]), list, k + 1, q)
    BY <2>1, StableInsert
  <2>5. QED
    BY <2>2, <2>3, <2>4
<1>5. n \in T
  <2> HIDE DEF T
  <2>1. \A k \in 0 .. n : k \in T
    BY <1>2, <1>3, <1>4, BoundedInduction
  <2>2. QED
    BY <1>2, <2>1
<1>6. InsertionSorted(list) = r[n]
  BY <1>1 DEF SortsInto
<1>7. QED
  BY <1>5, <1>6

Cell == [chapter: Chapters, items: Seq(UUIDs)]

\* What AddCell makes of the cells.
IsAdded(new, old, lvl) ==
  LET begins == old = <<>> \/ old[Len(old)].chapter # lvl.Chapter
      n      == IF begins THEN Len(old) + 1 ELSE Len(old)
      items  == IF begins THEN <<>> ELSE old[n].items
  IN  /\ Len(new) = n /\ n # 0
      /\ \A k \in 1 .. n - 1 : new[k] = old[k]
      /\ new[n].chapter = lvl.Chapter
      /\ new[n].items = IF lvl.Public THEN Append(items, lvl.UUID) ELSE items

LEMMA AddCellIs ==
  ASSUME NEW old \in Seq(Cell), NEW lvl \in Level
  PROVE  AddCell(old, lvl) \in Seq(Cell) /\ IsAdded(AddCell(old, lvl), old, lvl)
<1> DEFINE begins == old = <<>> \/ Last(old).chapter # lvl.Chapter
           fresh  == [chapter |-> lvl.Chapter, items |-> <<>>]
           sections == IF begins THEN Append(old, fresh) ELSE old
           n == Len(sections)
           base == IF begins THEN <<>> ELSE old[n].items
           c == [sections[n] EXCEPT !.items = Append(@, lvl.UUID)]
           new == AddCell(old, lvl)
<1>1. lvl.Chapter \in Chapters /\ lvl.UUID \in UUIDs /\ lvl.Public \in BOOLEAN
  BY LevelFields
<1>2. fresh \in Cell
  BY <1>1 DEF Cell
<1>3. /\ sections \in Seq(Cell) /\ n \in Nat \ {0}
      /\ n = IF begins THEN Len(old) + 1 ELSE Len(old)
      /\ \A k \in 1 .. n - 1 : sections[k] = old[k]
      /\ sections[n] = IF begins THEN fresh ELSE old[n]
  <2>1. CASE begins
    <3>1. sections = Append(old, fresh)
      BY <2>1
    <3> HIDE DEF begins, fresh
    <3>2. Append(old, fresh) \in Seq(Cell) /\ Len(Append(old, fresh)) = Len(old) + 1
          /\ Append(old, fresh)[Len(old) + 1] = fresh
          /\ \A k \in 1 .. Len(old) : Append(old, fresh)[k] = old[k]
      BY <1>2
    <3>3. Len(old) \in Nat
      OBVIOUS
    <3> HIDE DEF sections
    <3>4. QED
      BY <2>1, <3>1, <3>2, <3>3
  <2>2. CASE ~begins
    <3>1. sections = old /\ old # <<>>
      BY <2>2
    <3>2. Len(old) \in Nat \ {0}
      BY <3>1
    <3> HIDE DEF begins, fresh, sections
    <3>3. QED
      BY <2>2, <3>1, <3>2
  <2>3. QED
    BY <2>1, <2>2
<1>4. sections[n] \in Cell /\ sections[n].chapter = lvl.Chapter /\ sections[n].items = base
  <2>1. sections[n] \in Cell
    <3> HIDE DEF sections
    <3>1. n \in 1 .. n
      BY <1>3
    <3>2. QED
      BY <1>3, <3>1
  <2>2. CASE begins
    BY <1>3, <2>1, <2>2
  <2>3. CASE ~begins
    <3>1. Last(old).chapter = lvl.Chapter /\ n = Len(old) /\ sections[n] = old[n]
      BY <1>3, <2>3
    <3>2. QED
      BY <2>1, <2>3, <3>1 DEF Last
  <2>4. QED
    BY <2>2, <2>3
<1>5. new = IF lvl.Public THEN [sections EXCEPT ![n] = c] ELSE sections
  BY Zenon DEF AddCell
<1>6. begins <=> (old = <<>> \/ old[Len(old)].chapter # lvl.Chapter)
  BY DEF Last
<1> HIDE DEF sections, begins, fresh, new
<1>7. /\ base \in Seq(UUIDs) /\ c \in Cell /\ c.chapter = lvl.Chapter
      /\ c.items = Append(base, lvl.UUID)
  <2> DEFINE s == sections[n]
  <2>1. s \in Cell /\ s.items = base /\ s.chapter = lvl.Chapter
    BY <1>4
  <2>2. s.items \in Seq(UUIDs)
    BY <2>1 DEF Cell
  <2>3. c = [s EXCEPT !.items = Append(s.items, lvl.UUID)]
    OBVIOUS
  <2> HIDE DEF s, base, c
  <2>4. Append(s.items, lvl.UUID) \in Seq(UUIDs)
    BY <1>1, <2>2
  <2>5. QED
    BY <2>1, <2>2, <2>3, <2>4 DEF Cell
<1> HIDE DEF c
<1>8. /\ new \in Seq(Cell) /\ Len(new) = n
      /\ \A k \in 1 .. n - 1 : new[k] = sections[k]
      /\ new[n] = IF lvl.Public THEN c ELSE sections[n]
  <2> DEFINE m == n
  <2>1. m = n /\ m \in Nat \ {0} /\ m \in 1 .. Len(sections)
    BY <1>3
  <2>2. CASE lvl.Public
    <3>1. new = [sections EXCEPT ![m] = c]
      BY <1>5, <2>2
    <3> HIDE DEF m
    <3>2. QED
      BY <1>3, <1>7, <2>1, <2>2, <3>1
  <2>3. CASE ~lvl.Public
    <3>1. new = sections
      BY <1>5, <2>3
    <3>2. QED
      BY <1>3, <2>3, <3>1
  <2>4. QED
    BY <2>2, <2>3
<1>9. new[n].chapter = lvl.Chapter
      /\ new[n].items = IF lvl.Public THEN Append(base, lvl.UUID) ELSE base
  BY <1>4, <1>7, <1>8
<1> DEFINE m == n
<1>10. m = n
  OBVIOUS
<1> HIDE DEF m
<1>11. /\ Len(new) = m /\ m # 0 /\ m = IF begins THEN Len(old) + 1 ELSE Len(old)
       /\ \A k \in 1 .. m - 1 : new[k] = old[k]
       /\ new[m].chapter = lvl.Chapter
       /\ new[m].items = IF lvl.Public
                         THEN Append(IF begins THEN <<>> ELSE old[m].items, lvl.UUID)
                         ELSE IF begins THEN <<>> ELSE old[m].items
  BY <1>3, <1>8, <1>9, <1>10
<1>12. IsAdded(new, old, lvl)
  BY <1>6, <1>11, Zenon DEF IsAdded
<1>13. QED
  BY <1>8, <1>12 DEF new

\* The cells of a list that is sorted already.
CellsOf(list) == FoldLeft(AddCell, <<>>, list)

CellsInto(r, list) ==
  /\ r \in [0 .. Len(list) -> Seq(Cell)] /\ r[0] = <<>>
  /\ \A k \in 1 .. Len(list) : r[k] = AddCell(r[k - 1], list[k])
  /\ CellsOf(list) = r[Len(list)]

LEMMA CellsUnroll ==
  ASSUME NEW list \in Seq(Level)
  PROVE  \E r : CellsInto(r, list)
<1> DEFINE n == Len(list)
           V == Seq(Cell)
           step == [q \in V \X (1 .. n) |-> AddCell(q[1], list[q[2]])]
           Folds(g) == g = [s \in SUBSET DOMAIN list |->
                               IF s = {} THEN <<>>
                               ELSE AddCell(g[s \ {Max(s)}], list[Max(s)])]
           h == CHOOSE g : Folds(g)
<1>1. n \in Nat /\ DOMAIN list = 1 .. n /\ <<>> \in V /\ \A k \in 1 .. n : list[k] \in Level
  OBVIOUS
<1>2. step \in [V \X (1 .. n) -> V]
  BY <1>1, AddCellIs
<1>3. PICK g : IsFold(g, V, <<>>, n, step)
  <2> HIDE DEF step, V, n
  <2>1. QED
    BY <1>1, <1>2, FoldExists
<1>4. Folds(g)
  <2>1. ASSUME NEW s \in SUBSET (1 .. n), s # {}
        PROVE  step[<<g[s \ {Max(s)}], Max(s)>>] = AddCell(g[s \ {Max(s)}], list[Max(s)])
    <3>1. Max(s) \in s
      BY <1>1, <2>1, GreatestOf
    <3>2. g[s \ {Max(s)}] \in V /\ Max(s) \in 1 .. n
      BY <1>3, <3>1 DEF IsFold
    <3>3. <<g[s \ {Max(s)}], Max(s)>> \in V \X (1 .. n)
      BY <3>2
    <3>4. QED
      BY <3>3
  <2> HIDE DEF step, V, n
  <2>2. g = [s \in SUBSET (1 .. n) |-> IF s = {} THEN <<>>
                                      ELSE AddCell(g[s \ {Max(s)}], list[Max(s)])]
    BY <1>3, <2>1 DEF IsFold
  <2>3. QED
    BY <1>1, <2>2, Zenon
<1>5. Folds(h)
  <2> HIDE DEF Folds
  <2>1. QED
    BY <1>4, Zenon
<1>6. CellsOf(list) = h[DOMAIN list]
  BY Zenon DEF CellsOf, FoldLeft, MapThenFoldSet
<1> DEFINE r == [k \in 0 .. n |-> h[1 .. k]]
<1>7. \A s \in SUBSET (1 .. n) :
        h[s] = IF s = {} THEN <<>> ELSE AddCell(h[s \ {Max(s)}], list[Max(s)])
  <2>1. h = [s \in SUBSET DOMAIN list |->
               IF s = {} THEN <<>> ELSE AddCell(h[s \ {Max(s)}], list[Max(s)])]
    BY <1>5, Zenon
  <2> HIDE DEF h, n, Folds
  <2>2. QED
    BY <1>1, <2>1, Zenon
<1> HIDE DEF h, step, Folds
<1>8. r[0] = <<>>
  <2>1. 1 .. 0 = {} /\ 0 \in 0 .. n
    BY <1>1
  <2>2. h[1 .. 0] = <<>>
    BY <1>7, <2>1
  <2>3. QED
    BY <2>1, <2>2
<1>9. ASSUME NEW k \in 0 .. n - 1 PROVE h[1 .. k + 1] = AddCell(h[1 .. k], list[k + 1])
  <2>1. 1 .. k + 1 \in SUBSET (1 .. n) /\ k \in Nat
    BY <1>1
  <2>2. /\ Max(1 .. k + 1) = k + 1 /\ (1 .. k + 1) \ {k + 1} = 1 .. k
        /\ 1 .. k + 1 # {}
    BY <2>1, Prefix
  <2>3. QED
    BY <1>7, <2>1, <2>2
<1>10. \A k \in 0 .. n : h[1 .. k] \in V
  <2> DEFINE T == {k \in 0 .. n : h[1 .. k] \in V}
  <2>1. 0 \in T
    <3>1. 0 \in 0 .. n
      BY <1>1
    <3>2. QED
      BY <1>1, <1>8, <3>1
  <2>2. ASSUME NEW k \in 0 .. n - 1, k \in T PROVE k + 1 \in T
    <3>1. h[1 .. k] \in V /\ k + 1 \in 1 .. n /\ k + 1 \in 0 .. n
      BY <1>1, <2>2
    <3>2. AddCell(h[1 .. k], list[k + 1]) \in V
      BY <1>1, <3>1, AddCellIs
    <3>3. QED
      BY <1>9, <3>1, <3>2
  <2> HIDE DEF T
  <2>3. \A k \in 0 .. n : k \in T
    BY <1>1, <2>1, <2>2, BoundedInduction
  <2>4. QED
    BY <2>3 DEF T
<1>11. \A k \in 1 .. n : r[k] = AddCell(r[k - 1], list[k])
  <2> SUFFICES ASSUME NEW k \in 1 .. n PROVE r[k] = AddCell(r[k - 1], list[k])
    OBVIOUS
  <2>1. k - 1 \in 0 .. n - 1 /\ (k - 1) + 1 = k /\ k \in 0 .. n /\ k - 1 \in 0 .. n
    BY <1>1
  <2>2. h[1 .. (k - 1) + 1] = AddCell(h[1 .. k - 1], list[(k - 1) + 1])
    BY <1>9, <2>1
  <2>3. QED
    BY <2>1, <2>2
<1>12. r \in [0 .. n -> V] /\ r[n] = h[DOMAIN list]
  BY <1>1, <1>10
<1> HIDE DEF r
<1>13. CellsInto(r, list)
  BY <1>6, <1>8, <1>11, <1>12 DEF CellsInto
<1>14. QED
  BY <1>13

\* The places among the first k levels of the ones that are shown in a chapter,
\* and the items that are these levels, one after the other.
ShownIn(list, k, chapter) ==
  {i \in 1 .. k : list[i].Public /\ list[i].Chapter = chapter}
Place(S, i) == Cardinality({j \in S : j <= i})
Lists(items, list, k, chapter) ==
  /\ Len(items) = Cardinality(ShownIn(list, k, chapter))
  /\ \A i \in ShownIn(list, k, chapter) :
       items[Place(ShownIn(list, k, chapter), i)] = list[i].UUID

LEMMA ShownFacts ==
  ASSUME NEW list, NEW k \in Nat, NEW chapter
  PROVE  /\ IsFiniteSet(ShownIn(list, k, chapter))
         /\ Cardinality(ShownIn(list, k, chapter)) \in Nat
<1>1. IsFiniteSet(1 .. k)
  BY FS_Interval
<1>2. ShownIn(list, k, chapter) \subseteq 1 .. k
  BY DEF ShownIn
<1>3. QED
  BY <1>1, <1>2, FS_Subset, FS_CardinalityType

\* A level that is shown has a place in the items.
LEMMA PlaceIn ==
  ASSUME NEW k \in Nat, NEW S \in SUBSET (1 .. k), NEW i \in S
  PROVE  Place(S, i) \in 1 .. Cardinality(S)
<1> DEFINE B == {j \in S : j <= i}
<1>1. IsFiniteSet(S)
  <2>1. IsFiniteSet(1 .. k)
    BY FS_Interval
  <2>2. QED
    BY <2>1, FS_Subset
<1>2. B \subseteq S /\ i \in B
  OBVIOUS
<1>3. IsFiniteSet(B) /\ Cardinality(B) <= Cardinality(S) /\ Cardinality(B) \in Nat
  BY <1>1, <1>2, FS_Subset, FS_CardinalityType
<1>4. Cardinality(B) # 0
  BY <1>2, <1>3, FS_EmptySet
<1>5. Cardinality(S) \in Nat
  BY <1>1, FS_CardinalityType
<1> HIDE DEF B
<1>6. Cardinality(B) \in 1 .. Cardinality(S)
  BY <1>3, <1>4, <1>5
<1>7. QED
  BY <1>6 DEF Place, B

\* The levels that are shown have all the places there are, each its own.
LEMMA PlaceBijection ==
  ASSUME NEW k \in Nat, NEW S \in SUBSET (1 .. k)
  PROVE  [i \in S |-> Place(S, i)] \in Bijection(S, 1 .. Cardinality(S))
<1> DEFINE f == [i \in S |-> Place(S, i)]
           R == 1 .. Cardinality(S)
<1>1. IsFiniteSet(S) /\ Cardinality(S) \in Nat
  <2>1. IsFiniteSet(1 .. k)
    BY FS_Interval
  <2>2. QED
    BY <2>1, FS_Subset, FS_CardinalityType
<1>2. f \in [S -> R]
  BY PlaceIn
<1>3. ASSUME NEW i \in S, NEW j \in S, i < j PROVE Place(S, i) # Place(S, j)
  <2> DEFINE A == {x \in S : x <= i}
             B == {x \in S : x <= j}
  <2>1. i \in Nat /\ j \in Nat /\ \A x \in S : x \in Nat
    OBVIOUS
  <2>2. A \subseteq B /\ j \in B /\ j \notin A
    <3>1. \A x \in Nat : (x <= i => x <= j) /\ j <= j /\ ~(j <= i)
      BY <1>3, <2>1
    <3>2. A \subseteq B
      BY <2>1, <3>1
    <3>3. j \in B
      BY <2>1, <3>1
    <3>4. j \notin A
      BY <2>1, <3>1
    <3>5. QED
      BY <3>2, <3>3, <3>4
  <2>3. IsFiniteSet(B) /\ IsFiniteSet(A)
    BY <1>1, FS_Subset
  <2> HIDE DEF A, B
  <2>4. Cardinality(A) = Cardinality(B) => A = B
    BY <2>2, <2>3, FS_Subset
  <2>5. QED
    BY <2>2, <2>4 DEF Place, A, B
<1>4. \A i, j \in S : f[i] = f[j] => i = j
  <2> SUFFICES ASSUME NEW i \in S, NEW j \in S, f[i] = f[j], i # j PROVE FALSE
    OBVIOUS
  <2>1. i \in Nat /\ j \in Nat
    OBVIOUS
  <2>2. i < j \/ j < i
    BY <2>1
  <2>3. QED
    BY <1>3, <2>2
<1> HIDE DEF f
<1>5. f \in Injection(S, R)
  BY <1>2, <1>4, Zenon DEF Injection, IsInjective
<1>6. IsFiniteSet(R) /\ Cardinality(R) = Cardinality(S)
  <2>1. 1 \in Int /\ Cardinality(S) \in Int
    BY <1>1
  <2>2. IsFiniteSet(R) /\ Cardinality(R) = IF 1 > Cardinality(S) THEN 0
                                          ELSE Cardinality(S) - 1 + 1
    BY <2>1, FS_Interval
  <2> HIDE DEF R
  <2>3. QED
    BY <1>1, <2>2
<1>7. f \in Surjection(S, R)
  BY <1>5, <1>6, FS_Injection
<1>8. f \in Bijection(S, R)
  BY <1>5, <1>7, Zenon DEF Bijection
<1>9. QED
  BY <1>8 DEF f

\* The next level goes behind the others of its chapter.
LEMMA ListsNext ==
  ASSUME NEW list, NEW k \in Nat, NEW items \in Seq(UUIDs), NEW chapter,
         Lists(items, list, k, chapter), list[k + 1].UUID \in UUIDs
  PROVE  Lists(IF list[k + 1].Public /\ list[k + 1].Chapter = chapter
               THEN Append(items, list[k + 1].UUID) ELSE items,
               list, k + 1, chapter)
<1> DEFINE lvl == list[k + 1]
           S == ShownIn(list, k, chapter)
           T == ShownIn(list, k + 1, chapter)
<1>1. IsFiniteSet(S) /\ Cardinality(S) \in Nat /\ S \subseteq 1 .. k
      /\ k + 1 \in Nat /\ k + 1 \notin S
  <2>1. IsFiniteSet(S) /\ Cardinality(S) \in Nat
    BY ShownFacts
  <2>2. S \subseteq 1 .. k
    BY DEF ShownIn
  <2>3. k + 1 \in Nat /\ k + 1 \notin 1 .. k
    OBVIOUS
  <2>4. QED
    BY <2>1, <2>2, <2>3
<1>2. Len(items) = Cardinality(S) /\ \A i \in S : items[Place(S, i)] = list[i].UUID
  BY DEF Lists
<1>3. CASE lvl.Public /\ lvl.Chapter = chapter
  <2> DEFINE new == Append(items, lvl.UUID)
  <2>1. T = S \cup {k + 1}
    BY <1>3 DEF ShownIn
  <2>2. Cardinality(T) = Cardinality(S) + 1
    BY <1>1, <2>1, FS_AddElement
  <2>3. /\ Len(new) = Cardinality(S) + 1 /\ new[Cardinality(S) + 1] = lvl.UUID
        /\ \A j \in 1 .. Cardinality(S) : new[j] = items[j]
    BY <1>1, <1>2
  <2> HIDE DEF S, T, new, lvl
  <2>4. ASSUME NEW i \in T PROVE new[Place(T, i)] = list[i].UUID
    <3>1. CASE i = k + 1
      <4>0. \A j \in T : j \in 1 .. k + 1 /\ j <= k + 1
        BY <1>1, <2>1
      <4>1. {j \in T : j <= i} = T
        BY <3>1, <4>0
      <4>2. Place(T, i) = Cardinality(S) + 1
        BY <2>2, <4>1 DEF Place
      <4>3. QED
        BY <2>3, <3>1, <4>2 DEF lvl
    <3>2. CASE i # k + 1
      <4>1. i \in S
        BY <2>1, <3>2
      <4>2. {j \in T : j <= i} = {j \in S : j <= i}
        BY <1>1, <2>1, <4>1
      <4>3. Place(T, i) = Place(S, i) /\ Place(S, i) \in 1 .. Cardinality(S)
        BY <1>1, <4>1, <4>2, PlaceIn DEF Place
      <4>4. QED
        BY <1>2, <2>3, <4>1, <4>3
    <3>3. QED
      BY <3>1, <3>2
  <2>5. Lists(new, list, k + 1, chapter)
    BY <2>2, <2>3, <2>4 DEF Lists, T
  <2>6. QED
    BY <1>3, <2>5 DEF lvl, new
<1>4. CASE ~(lvl.Public /\ lvl.Chapter = chapter)
  <2>1. T = S
    BY <1>4 DEF ShownIn
  <2>2. Lists(items, list, k + 1, chapter)
    BY <1>2, <2>1 DEF Lists
  <2>3. QED
    BY <1>4, <2>2
<1>5. QED
  BY <1>3, <1>4

\* The cells of the first k levels of a sorted list.
CellsInv(cs, list, k) ==
  /\ cs \in Seq(Cell)
  /\ (cs = <<>>) <=> (k = 0)
  /\ k # 0 => cs[Len(cs)].chapter = list[k].Chapter
  /\ \A i \in 1 .. k : \E c \in DOMAIN cs : cs[c].chapter = list[i].Chapter
  /\ \A c \in DOMAIN cs : \E i \in 1 .. k : list[i].Chapter = cs[c].chapter
  /\ \A b, c \in DOMAIN cs : b < c => cs[b].chapter < cs[c].chapter
  /\ \A c \in DOMAIN cs : Lists(cs[c].items, list, k, cs[c].chapter)

LEMMA CellsStep ==
  ASSUME NEW list \in Seq(Level), ByChapter(list), NEW k \in 0 .. Len(list) - 1,
         NEW cs, CellsInv(cs, list, k)
  PROVE  CellsInv(AddCell(cs, list[k + 1]), list, k + 1)
<1> DEFINE lvl == list[k + 1]
           new == AddCell(cs, lvl)
           m == Len(cs)
           begins == cs = <<>> \/ cs[m].chapter # lvl.Chapter
           n == IF begins THEN m + 1 ELSE m
           base == IF begins THEN <<>> ELSE cs[n].items
<1>1. k \in Nat /\ k + 1 \in 1 .. Len(list) /\ lvl \in Level
      /\ \A i \in 1 .. k : i \in 1 .. Len(list) /\ i \in DOMAIN list
      /\ k + 1 \in DOMAIN list
  OBVIOUS
<1>2. lvl.Chapter \in Nat /\ lvl.Chapter \in Chapters /\ lvl.UUID \in UUIDs
  BY <1>1, ChapterOf, LevelFields
<1>3. \A i \in 1 .. k : list[i].Chapter \in Nat /\ list[i].Chapter <= lvl.Chapter
  <2>1. ASSUME NEW i \in 1 .. k PROVE list[i].Chapter \in Nat /\ list[i].Chapter <= lvl.Chapter
    <3>1. list[i] \in Level /\ i < k + 1
      BY <1>1
    <3>2. QED
      BY <1>1, <3>1, ChapterOf DEF ByChapter
  <2>2. QED
    BY <2>1
<1>4. /\ cs \in Seq(Cell) /\ m \in Nat /\ DOMAIN cs = 1 .. m
      /\ (cs = <<>>) <=> (k = 0)
      /\ k # 0 => cs[m].chapter = list[k].Chapter
  BY DEF CellsInv
<1>a. \A i \in 1 .. k : \E c \in 1 .. m : cs[c].chapter = list[i].Chapter
  BY <1>4, Zenon DEF CellsInv
<1>b. \A c \in 1 .. m : \E i \in 1 .. k : list[i].Chapter = cs[c].chapter
  BY <1>4, Zenon DEF CellsInv
<1>c. \A b, c \in 1 .. m : b < c => cs[b].chapter < cs[c].chapter
  BY <1>4, Zenon DEF CellsInv
<1>d. \A c \in 1 .. m : Lists(cs[c].items, list, k, cs[c].chapter)
  BY <1>4, Zenon DEF CellsInv
<1>8. m = 0 <=> cs = <<>>
  BY <1>4
<1>e. \A c \in 1 .. m : cs[c] \in Cell
  BY <1>4
<1>5. \A c \in 1 .. m : cs[c].chapter \in Nat /\ cs[c].items \in Seq(UUIDs)
                        /\ cs[c].chapter <= lvl.Chapter
  <2>1. ASSUME NEW c \in 1 .. m
        PROVE  cs[c].chapter \in Nat /\ cs[c].items \in Seq(UUIDs)
               /\ cs[c].chapter <= lvl.Chapter
    <3>1. cs[c] \in Cell
      BY <1>e
    <3>2. PICK i \in 1 .. k : list[i].Chapter = cs[c].chapter
      BY <1>b
    <3>3. QED
      BY <1>3, <3>1, <3>2 DEF Cell
  <2>2. QED
    BY <2>1
<1>6. new \in Seq(Cell) /\ IsAdded(new, cs, lvl)
  BY <1>1, <1>4, AddCellIs
<1>7. /\ Len(new) = n /\ n # 0
      /\ \A c \in 1 .. n - 1 : new[c] = cs[c]
      /\ new[n].chapter = lvl.Chapter
      /\ new[n].items = IF lvl.Public THEN Append(base, lvl.UUID) ELSE base
  <2> HIDE DEF new, lvl
  <2> QED BY <1>6, Zenon DEF IsAdded
<1> HIDE DEF new, m
<1>9. begins => \A c \in 1 .. m : cs[c].chapter < lvl.Chapter
  <2> SUFFICES ASSUME begins, NEW c \in 1 .. m PROVE cs[c].chapter < lvl.Chapter
    OBVIOUS
  <2>1. m \in 1 .. m /\ cs[m].chapter # lvl.Chapter
    BY <1>4, <1>8
  <2>2. cs[m].chapter < lvl.Chapter
    BY <1>2, <1>5, <2>1
  <2>3. c = m \/ c < m
    BY <1>4
  <2>4. CASE c < m
    <3>1. cs[c].chapter < cs[m].chapter
      BY <1>c, <2>1, <2>4
    <3>2. cs[c].chapter \in Nat /\ cs[m].chapter \in Nat
      BY <1>5, <2>1
    <3>3. \A x, y, z \in Nat : x < y /\ y < z => x < z
      OBVIOUS
    <3>4. QED
      BY <1>2, <2>2, <3>1, <3>2, <3>3, Zenon
  <2>5. QED
    BY <2>2, <2>3, <2>4
<1>10. ~begins => n = m /\ m \in 1 .. m /\ cs[m].chapter = lvl.Chapter
  BY <1>4, <1>8
<1>11. n \in Nat \ {0} /\ \A c \in 1 .. n - 1 : c \in 1 .. m /\ cs[c].chapter < lvl.Chapter
  <2>1. CASE begins
    BY <1>4, <1>9, <2>1
  <2>2. CASE ~begins
    <3>1. n = m /\ m \in 1 .. m /\ cs[m].chapter = lvl.Chapter
      BY <1>10, <2>2
    <3>2. \A c \in 1 .. n - 1 : c \in 1 .. m /\ c < m
      BY <1>4, <3>1
    <3>3. m \in Nat \ {0} /\ n = m
      BY <1>4, <3>1
    <3>4. ASSUME NEW c \in 1 .. n - 1 PROVE c \in 1 .. m /\ cs[c].chapter < lvl.Chapter
      BY <1>c, <3>1, <3>2
    <3> HIDE DEF n, m, lvl
    <3>5. QED
      BY <3>3, <3>4
  <2>3. QED
    BY <2>1, <2>2
<1>12. base \in Seq(UUIDs) /\ Lists(base, list, k, lvl.Chapter)
  <2>1. CASE begins
    <3>1. ASSUME NEW i \in 1 .. k PROVE list[i].Chapter # lvl.Chapter
      <4>1. PICK c \in 1 .. m : cs[c].chapter = list[i].Chapter
        BY <1>a
      <4>2. cs[c].chapter < lvl.Chapter /\ cs[c].chapter \in Nat
        BY <1>5, <1>9, <2>1
      <4>3. QED
        BY <1>2, <4>1, <4>2
    <3>2. ShownIn(list, k, lvl.Chapter) = {}
      BY <3>1 DEF ShownIn
    <3>3. base = <<>> /\ Len(base) = 0 /\ base \in Seq(UUIDs)
      BY <2>1
    <3>4. Cardinality(ShownIn(list, k, lvl.Chapter)) = 0
      BY <3>2, FS_EmptySet
    <3> HIDE DEF base, lvl
    <3>5. QED
      BY <3>2, <3>3, <3>4 DEF Lists
  <2>2. CASE ~begins
    <3>1. base = cs[m].items /\ m \in 1 .. m /\ cs[m].chapter = lvl.Chapter
      BY <1>10, <2>2
    <3> HIDE DEF base, lvl, m
    <3>2. QED
      BY <1>5, <1>d, <3>1
  <2>3. QED
    BY <2>1, <2>2
<1> HIDE DEF base, begins, n, m
<1>13. Lists(new[n].items, list, k + 1, lvl.Chapter)
  <2>1. Lists(IF list[k + 1].Public /\ list[k + 1].Chapter = lvl.Chapter
              THEN Append(base, list[k + 1].UUID) ELSE base, list, k + 1, lvl.Chapter)
    BY <1>1, <1>2, <1>12, ListsNext
  <2>2. new[n].items = IF list[k + 1].Public /\ list[k + 1].Chapter = lvl.Chapter
                       THEN Append(base, list[k + 1].UUID) ELSE base
    BY <1>7
  <2>3. QED
    BY <2>1, <2>2, Zenon
<1>14. ASSUME NEW c \in 1 .. n - 1 PROVE Lists(new[c].items, list, k + 1, new[c].chapter)
  <2>0. c \in 1 .. m /\ cs[c].chapter < lvl.Chapter /\ new[c] = cs[c]
    BY <1>7, <1>11
  <2>1. /\ c \in 1 .. m /\ new[c] = cs[c] /\ cs[c].items \in Seq(UUIDs)
        /\ cs[c].chapter # lvl.Chapter /\ Lists(cs[c].items, list, k, cs[c].chapter)
    BY <1>2, <1>5, <1>d, <2>0
  <2> DEFINE items == cs[c].items
             chapter == cs[c].chapter
  <2> HIDE DEF items, chapter
  <2>2. items \in Seq(UUIDs) /\ chapter # lvl.Chapter /\ Lists(items, list, k, chapter)
    BY <2>1 DEF items, chapter
  <2>3. Lists(IF list[k + 1].Public /\ list[k + 1].Chapter = chapter
              THEN Append(items, list[k + 1].UUID) ELSE items, list, k + 1, chapter)
    BY <1>1, <1>2, <2>2, ListsNext
  <2>4. Lists(items, list, k + 1, chapter)
    BY <2>2, <2>3
  <2>5. QED
    BY <2>1, <2>4 DEF items, chapter
<1>15. DOMAIN new = 1 .. n /\ \A c \in 1 .. n : c = n \/ c \in 1 .. n - 1
  BY <1>6, <1>7, <1>11
<1>16. \A c \in 1 .. n : Lists(new[c].items, list, k + 1, new[c].chapter)
  BY <1>7, <1>13, <1>14, <1>15
<1>17. \A b, c \in 1 .. n : b < c => new[b].chapter < new[c].chapter
  <2> SUFFICES ASSUME NEW b \in 1 .. n, NEW c \in 1 .. n, b < c
               PROVE  new[b].chapter < new[c].chapter
    OBVIOUS
  <2>1. b \in 1 .. n - 1
    BY <1>11
  <2>2. CASE c = n
    BY <1>7, <1>11, <2>1, <2>2
  <2>3. CASE c \in 1 .. n - 1
    BY <1>c, <1>7, <1>11, <2>1, <2>3
  <2>4. QED
    BY <1>15, <2>2, <2>3
<1>18. ASSUME NEW i \in 1 .. k + 1 PROVE \E c \in 1 .. n : new[c].chapter = list[i].Chapter
  <2>1. CASE i = k + 1
    BY <1>7, <1>11, <2>1
  <2>2. CASE i # k + 1
    <3>1. i \in 1 .. k
      BY <1>1, <2>2
    <3>2. PICK c \in 1 .. m : cs[c].chapter = list[i].Chapter
      BY <1>a, <3>1
    <3>3. CASE c \in 1 .. n - 1
      BY <1>7, <1>11, <3>2, <3>3
    <3>4. CASE c \notin 1 .. n - 1
      <4>1. ~begins /\ c = n
        BY <1>4, <1>10, <1>11, <3>4 DEF n
      <4>2. cs[c].chapter = lvl.Chapter
        BY <1>10, <4>1
      <4>3. QED
        BY <1>7, <1>11, <3>2, <4>2
    <3>5. QED
      BY <3>3, <3>4
  <2>3. QED
    BY <2>1, <2>2
<1>19. ASSUME NEW c \in 1 .. n PROVE \E i \in 1 .. k + 1 : list[i].Chapter = new[c].chapter
  <2>1. CASE c = n
    <3>1. k + 1 \in 1 .. k + 1
      BY <1>1
    <3>2. QED
      BY <1>7, <2>1, <3>1
  <2>2. CASE c \in 1 .. n - 1
    <3>1. c \in 1 .. m /\ new[c] = cs[c]
      BY <1>7, <1>11, <2>2
    <3>2. PICK i \in 1 .. k : list[i].Chapter = cs[c].chapter
      BY <1>b, <3>1
    <3>3. i \in 1 .. k + 1
      BY <1>1
    <3>4. QED
      BY <3>1, <3>2, <3>3
  <2>3. QED
    BY <1>15, <2>1, <2>2
<1>20. new # <<>> /\ k + 1 # 0
  BY <1>1, <1>6, <1>7
<1>21. CellsInv(new, list, k + 1)
  BY <1>6, <1>7, <1>15, <1>16, <1>17, <1>18, <1>19, <1>20 DEF CellsInv
<1>22. QED
  BY <1>21 DEF new

\* A stable sort leaves the items of a chapter in the order of the list as it came.
LEMMA ListsUnsorted ==
  ASSUME NEW list \in Seq(Level), NEW v, NEW p, NEW items, NEW chapter,
         StableSort(v, list, Len(list), p), Lists(items, v, Len(list), chapter)
  PROVE  Lists(items, list, Len(list), chapter)
<1> DEFINE n == Len(list)
           S == ShownIn(v, n, chapter)
           T == ShownIn(list, n, chapter)
<1>1. n \in Nat
  OBVIOUS
<1>2. /\ p \in [1 .. n -> 1 .. n]
      /\ \A i \in 1 .. n : v[i] = list[p[i]]
      /\ \A x \in 1 .. n : \E i \in 1 .. n : p[i] = x
      /\ \A i, j \in 1 .. n :
           i < j => \/ v[i].Chapter < v[j].Chapter
                    \/ v[i].Chapter = v[j].Chapter /\ p[i] < p[j]
  BY DEF StableSort
<1>3. v \in Seq(Level) /\ Len(v) = n
  BY DEF StableSort
<1>4. \A i \in 1 .. n : v[i].Chapter \in Nat
  BY <1>3, ChapterOf
<1> HIDE DEF n
<1>5. S \subseteq 1 .. n /\ T \subseteq 1 .. n /\ IsFiniteSet(S) /\ IsFiniteSet(T)
  <2>1. IsFiniteSet(S) /\ IsFiniteSet(T)
    BY <1>1, ShownFacts
  <2>2. S \subseteq 1 .. n /\ T \subseteq 1 .. n
    BY DEF ShownIn
  <2>3. QED
    BY <2>1, <2>2
<1>6. \A i \in 1 .. n : i \in S <=> p[i] \in T
  BY <1>2 DEF ShownIn
<1>7. ASSUME NEW i \in S, NEW j \in S PROVE i < j <=> p[i] < p[j]
  <2>1. i \in 1 .. n /\ j \in 1 .. n /\ v[i].Chapter = chapter /\ v[j].Chapter = chapter
        /\ chapter \in Nat
    BY <1>4 DEF ShownIn
  <2>2. i < j => p[i] < p[j]
    BY <1>2, <2>1
  <2>3. j < i => p[j] < p[i]
    BY <1>2, <2>1
  <2>4. p[i] \in 1 .. n /\ p[j] \in 1 .. n
    BY <1>2, <2>1
  <2>5. QED
    BY <1>1, <2>1, <2>2, <2>3, <2>4
<1> DEFINE q == [i \in S |-> p[i]]
<1>8. q \in [S -> T] /\ \A i \in S : q[i] = p[i] /\ q[i] \in 1 .. n
  BY <1>2, <1>5, <1>6
<1> HIDE DEF q, S, T
<1>9. ASSUME NEW i \in S, NEW j \in S, q[i] = q[j] PROVE i = j
  <2>1. ~(i < j) /\ ~(j < i)
    BY <1>1, <1>7, <1>8, <1>9
  <2>2. i \in 1 .. n /\ j \in 1 .. n
    BY <1>5
  <2>3. QED
    BY <1>1, <2>1, <2>2
<1>10. \A y \in T : \E i \in S : q[i] = y
  <2> SUFFICES ASSUME NEW y \in T PROVE \E i \in S : q[i] = y
    OBVIOUS
  <2>1. PICK i \in 1 .. n : p[i] = y
    BY <1>2, <1>5
  <2>2. i \in S
    BY <1>6, <2>1
  <2>3. QED
    BY <1>8, <2>1, <2>2
<1>11. ASSUME NEW A \in SUBSET S
       PROVE  Cardinality({q[a] : a \in A}) = Cardinality(A)
  <2> DEFINE B == {q[a] : a \in A}
             f == [a \in A |-> q[a]]
  <2>1. f \in [A -> B]
    OBVIOUS
  <2>2. \A a, b \in A : f[a] = f[b] => a = b
    BY <1>9
  <2>3. \A y \in B : \E a \in A : f[a] = y
    OBVIOUS
  <2>4. f \in Bijection(A, B)
    <3> HIDE DEF f, B
    <3>1. f \in Injection(A, B)
      BY <2>1, <2>2, Zenon DEF Injection, IsInjective
    <3>2. f \in Surjection(A, B)
      BY <2>1, <2>3, Zenon DEF Surjection
    <3>3. QED
      BY <3>1, <3>2, Zenon DEF Bijection
  <2>5. IsFiniteSet(A)
    BY <1>5, FS_Subset
  <2>6. ExistsBijection(A, B)
    BY <2>4 DEF ExistsBijection
  <2> HIDE DEF B
  <2>7. Cardinality(B) = Cardinality(A)
    BY <2>5, <2>6, FS_Bijection
  <2>8. QED
    BY <2>7 DEF B
<1>12. Cardinality(T) = Cardinality(S)
  <2>1. {q[a] : a \in S} = T
    BY <1>8, <1>10
  <2>2. QED
    BY <1>11, <2>1
<1>13. ASSUME NEW y \in T PROVE items[Place(T, y)] = list[y].UUID
  <2>1. PICK i \in S : q[i] = y
    BY <1>10
  <2> DEFINE A == {j \in S : j <= i}
  <2>2. {q[a] : a \in A} = {x \in T : x <= y}
    <3>1. ASSUME NEW a \in A PROVE q[a] \in T /\ q[a] <= y
      <4>1. a \in S /\ a \in 1 .. n /\ i \in 1 .. n /\ a <= i
        BY <1>5
      <4>2. ~(q[i] < q[a])
        BY <1>1, <1>7, <1>8, <4>1
      <4>3. q[a] \in 1 .. n /\ q[i] \in 1 .. n /\ q[a] \in T
        BY <1>8, <4>1
      <4>4. QED
        BY <1>1, <2>1, <4>2, <4>3
    <3>2. ASSUME NEW x \in T, x <= y PROVE \E a \in A : q[a] = x
      <4>1. PICK a \in S : q[a] = x
        BY <1>10
      <4>2. q[a] \in 1 .. n /\ q[i] \in 1 .. n /\ q[a] <= q[i]
        BY <1>8, <2>1, <3>2, <4>1
      <4>3. ~(i < a)
        BY <1>1, <1>7, <1>8, <4>2
      <4>4. a \in 1 .. n /\ i \in 1 .. n
        BY <1>5
      <4>5. a <= i
        BY <1>1, <4>3, <4>4
      <4>6. QED
        BY <4>1, <4>5
    <3>3. QED
      BY <3>1, <3>2
  <2>3. Place(T, y) = Place(S, i)
    <3>1. A \in SUBSET S
      OBVIOUS
    <3>2. Cardinality({q[a] : a \in A}) = Cardinality(A)
      BY <1>11, <3>1
    <3>3. QED
      BY <2>2, <3>2 DEF Place
  <2>4. items[Place(S, i)] = v[i].UUID
    BY DEF Lists, S, n
  <2>5. v[i] = list[y]
    BY <1>2, <1>5, <1>8, <2>1
  <2>6. QED
    BY <2>3, <2>4, <2>5
<1>14. Len(items) = Cardinality(S)
  BY DEF Lists, S, n
<1>15. QED
  BY <1>12, <1>13, <1>14 DEF Lists, T, n

\* v is the list in an order by chapter; p says where each level of it was.
Sorting(v, list, p) ==
  /\ v \in Seq(Level) /\ Len(v) = Len(list) /\ ByChapter(v)
  /\ p \in [1 .. Len(list) -> 1 .. Len(list)]
  /\ \A i \in 1 .. Len(list) : v[i] = list[p[i]]
  /\ \A i, j \in 1 .. Len(list) : p[i] = p[j] => i = j
  /\ \A x \in 1 .. Len(list) : \E i \in 1 .. Len(list) : p[i] = x

LEMMA StableIsSorting ==
  ASSUME NEW list \in Seq(Level), NEW v, NEW p, StableSort(v, list, Len(list), p)
  PROVE  Sorting(v, list, p)
<1> DEFINE n == Len(list)
<1>1. n \in Nat
  OBVIOUS
<1>2. /\ v \in Seq(Level) /\ Len(v) = n /\ p \in [1 .. n -> 1 .. n]
      /\ \A i \in 1 .. n : v[i] = list[p[i]]
      /\ \A x \in 1 .. n : \E i \in 1 .. n : p[i] = x
      /\ \A i, j \in 1 .. n :
           i < j => \/ v[i].Chapter < v[j].Chapter
                    \/ v[i].Chapter = v[j].Chapter /\ p[i] < p[j]
  BY DEF StableSort
<1>3. ByChapter(v)
  BY <1>1, StableByChapter
<1>4. ASSUME NEW i \in 1 .. n, NEW j \in 1 .. n, i < j PROVE p[i] # p[j]
  <2>1. CASE v[i].Chapter < v[j].Chapter
    <3>1. v[i] \in Level /\ v[j] \in Level
      BY <1>2
    <3>2. v[i].Chapter \in Nat /\ v[j].Chapter \in Nat
      BY <3>1, ChapterOf
    <3>3. v[i] = list[p[i]] /\ v[j] = list[p[j]]
      BY <1>2
    <3>4. \A x, y \in Nat : x < y => x # y
      OBVIOUS
    <3>5. v[i].Chapter # v[j].Chapter
      BY <2>1, <3>2, <3>4, Zenon
    <3>6. QED
      BY <3>3, <3>5, Zenon
  <2>2. CASE p[i] < p[j]
    <3>1. p[i] \in 1 .. n /\ p[j] \in 1 .. n
      BY <1>2
    <3> HIDE DEF n
    <3>2. QED
      BY <1>1, <2>2, <3>1
  <2>3. QED
    BY <1>2, <1>4, <2>1, <2>2
<1>5. ASSUME NEW i \in 1 .. n, NEW j \in 1 .. n, p[i] = p[j] PROVE i = j
  <2>1. ~(i < j) /\ ~(j < i)
    BY <1>4, <1>5
  <2>2. QED
    BY <1>1, <2>1
<1>6. QED
  BY <1>2, <1>3, <1>5 DEF Sorting

\* Sorted is an order by chapter of whatever list, and the stable one of a short list.
LEMMA SortedIsSorting ==
  ASSUME NEW list \in Seq(Level)
  PROVE  \E p : /\ Sorting(Sorted(list), list, p)
                /\ Len(list) < ManyLevels =>
                     StableSort(Sorted(list), list, Len(list), p)
<1> DEFINE n == Len(list)
           u == InsertionSorted(list)
<1>1. n \in Nat /\ DOMAIN list = 1 .. n
  OBVIOUS
<1>2. PICK p : StableSort(u, list, n, p)
  BY InsertionIsStable
<1>3. Sorting(u, list, p)
  BY <1>2, StableIsSorting
<1>4. CASE n < ManyLevels
  <2>1. Sorted(list) = u
    BY <1>4 DEF Sorted
  <2>2. QED
    BY <1>2, <1>3, <2>1
<1>5. CASE ~(n < ManyLevels)
  <2> DEFINE q == CHOOSE o \in ByChapterOrders(list) : TRUE
             w == [i \in DOMAIN list |-> list[q[i]]]
  <2>1. p \in ByChapterOrders(list)
    <3>1. /\ p \in [1 .. n -> 1 .. n]
          /\ \A i, j \in 1 .. n : p[i] = p[j] => i = j
          /\ \A x \in 1 .. n : \E i \in 1 .. n : p[i] = x
          /\ u \in Seq(Level) /\ Len(u) = n /\ ByChapter(u)
          /\ \A i \in 1 .. n : u[i] = list[p[i]]
      BY <1>3 DEF Sorting
    <3> HIDE DEF u, n
    <3>2. p \in Bijection(1 .. n, 1 .. n)
      <4>1. p \in Injection(1 .. n, 1 .. n)
        BY <3>1, Zenon DEF Injection, IsInjective
      <4>2. p \in Surjection(1 .. n, 1 .. n)
        BY <3>1, Zenon DEF Surjection
      <4>3. QED
        BY <4>1, <4>2, Zenon DEF Bijection
    <3>3. DOMAIN u = 1 .. n
      BY <1>1, <3>1
    <3>4. ASSUME NEW i \in 1 .. n, NEW j \in 1 .. n, i < j
          PROVE  list[p[i]].Chapter <= list[p[j]].Chapter
      <4>1. u[i].Chapter <= u[j].Chapter
        BY <3>1, <3>3, <3>4, Zenon DEF ByChapter
      <4>2. u[i] = list[p[i]] /\ u[j] = list[p[j]]
        BY <3>1, Zenon
      <4>3. QED
        BY <4>1, <4>2, Zenon
    <3>5. QED
      BY <1>1, <3>2, <3>4, Zenon DEF ByChapterOrders
  <2>2. q \in ByChapterOrders(list)
    BY <2>1, Zenon
  <2> HIDE DEF q, n
  <2>3. q \in Bijection(1 .. n, 1 .. n)
        /\ \A i, j \in 1 .. n : i < j => list[q[i]].Chapter <= list[q[j]].Chapter
    BY <1>1, <2>2, Zenon DEF ByChapterOrders
  <2>4. q \in Injection(1 .. n, 1 .. n) /\ q \in Surjection(1 .. n, 1 .. n)
    BY <2>3, Zenon DEF Bijection
  <2>5. q \in [1 .. n -> 1 .. n] /\ \A i, j \in 1 .. n : q[i] = q[j] => i = j
    BY <2>4, Zenon DEF Injection, IsInjective
  <2>6. \A x \in 1 .. n : \E i \in 1 .. n : q[i] = x
    BY <2>4, Zenon DEF Surjection
  <2>7. \A i \in 1 .. n : list[q[i]] \in Level
    BY <1>1, <2>5
  <2>8. w \in Seq(Level) /\ Len(w) = n /\ DOMAIN w = 1 .. n
        /\ \A i \in 1 .. n : w[i] = list[q[i]]
    BY <1>1, <2>7
  <2>9. ByChapter(w)
    BY <2>3, <2>8 DEF ByChapter
  <2>10. Sorted(list) = w
    BY <1>5, Zenon DEF Sorted, q, n
  <2> HIDE DEF w
  <2>11. Sorting(w, list, q)
    BY <2>5, <2>6, <2>8, <2>9 DEF Sorting, n
  <2>12. QED
    BY <1>5, <2>10, <2>11 DEF n
<1>6. QED
  BY <1>4, <1>5

\* The items of a chapter are the levels of the list as it came, each as often as it
\* is there.
LEMMA ItemsUnsorted ==
  ASSUME NEW list \in Seq(Level), NEW v, NEW p, NEW items \in Seq(UUIDs), NEW chapter,
         Sorting(v, list, p), Lists(items, v, Len(list), chapter)
  PROVE  \E spot \in Bijection(ShownIn(list, Len(list), chapter), DOMAIN items) :
           \A y \in ShownIn(list, Len(list), chapter) : items[spot[y]] = list[y].UUID
<1> DEFINE n == Len(list)
           S == ShownIn(v, n, chapter)
           T == ShownIn(list, n, chapter)
           place == [i \in S |-> Place(S, i)]
           from(y) == CHOOSE i \in S : p[i] = y
           spot == [y \in T |-> place[from(y)]]
<1>1. /\ n \in Nat /\ p \in [1 .. n -> 1 .. n]
      /\ \A i \in 1 .. n : v[i] = list[p[i]]
      /\ \A i, j \in 1 .. n : p[i] = p[j] => i = j
      /\ \A x \in 1 .. n : \E i \in 1 .. n : p[i] = x
  BY DEF Sorting
<1>2. Len(items) = Cardinality(S) /\ \A i \in S : items[Place(S, i)] = v[i].UUID
  BY DEF Lists
<1> HIDE DEF n
<1>3. S \in SUBSET (1 .. n) /\ T \in SUBSET (1 .. n)
  BY DEF ShownIn
<1>4. \A i \in 1 .. n : i \in S <=> p[i] \in T
  BY <1>1 DEF ShownIn
<1>5. place \in Bijection(S, DOMAIN items)
  <2>1. DOMAIN items = 1 .. Cardinality(S)
    BY <1>2
  <2> HIDE DEF S
  <2>2. QED
    BY <1>1, <1>3, <2>1, PlaceBijection
<1>6. \A i \in S : place[i] = Place(S, i)
  OBVIOUS
<1> HIDE DEF S, T, place
<1>7. place \in Injection(S, DOMAIN items) /\ place \in Surjection(S, DOMAIN items)
  BY <1>5, Zenon DEF Bijection
<1>8. place \in [S -> DOMAIN items] /\ \A i, j \in S : place[i] = place[j] => i = j
  BY <1>7, Zenon DEF Injection, IsInjective
<1>9. \A row \in DOMAIN items : \E i \in S : place[i] = row
  BY <1>7, Zenon DEF Surjection
<1>10. ASSUME NEW y \in T PROVE from(y) \in S /\ p[from(y)] = y
  <2>1. PICK i \in 1 .. n : p[i] = y
    BY <1>1, <1>3
  <2>2. i \in S
    BY <1>4, <2>1
  <2>3. QED
    BY <2>1, <2>2
<1>11. ASSUME NEW i \in S PROVE p[i] \in T /\ from(p[i]) = i
  <2>1. i \in 1 .. n /\ p[i] \in T
    BY <1>3, <1>4
  <2>2. from(p[i]) \in S /\ p[from(p[i])] = p[i]
    BY <1>10, <2>1
  <2>3. from(p[i]) \in 1 .. n
    BY <1>3, <2>2
  <2> HIDE DEF from
  <2>4. QED
    BY <1>1, <2>1, <2>2, <2>3
<1>12. /\ \A y \in T : from(y) \in S /\ p[from(y)] = y
       /\ \A i \in S : p[i] \in T /\ from(p[i]) = i
  BY <1>10, <1>11
<1> HIDE DEF from
<1>13. spot \in [T -> DOMAIN items] /\ \A y \in T : spot[y] = place[from(y)]
  BY <1>8, <1>12
<1> HIDE DEF spot
<1>14. spot \in Bijection(T, DOMAIN items)
  <2>1. \A y, z \in T : spot[y] = spot[z] => y = z
    <3> SUFFICES ASSUME NEW y \in T, NEW z \in T, spot[y] = spot[z] PROVE y = z
      OBVIOUS
    <3>1. from(y) = from(z)
      BY <1>8, <1>12, <1>13
    <3>2. QED
      BY <1>12, <3>1
  <2>2. \A row \in DOMAIN items : \E y \in T : spot[y] = row
    <3> SUFFICES ASSUME NEW row \in DOMAIN items PROVE \E y \in T : spot[y] = row
      OBVIOUS
    <3>1. PICK i \in S : place[i] = row
      BY <1>9
    <3>2. p[i] \in T /\ spot[p[i]] = row
      BY <1>12, <1>13, <3>1
    <3>3. QED
      BY <3>2
  <2>3. spot \in Injection(T, DOMAIN items)
    BY <1>13, <2>1, Zenon DEF Injection, IsInjective
  <2>4. spot \in Surjection(T, DOMAIN items)
    BY <1>13, <2>2, Zenon DEF Surjection
  <2>5. QED
    BY <2>3, <2>4, Zenon DEF Bijection
<1>15. \A y \in T : items[spot[y]] = list[y].UUID
  <2> SUFFICES ASSUME NEW y \in T PROVE items[spot[y]] = list[y].UUID
    OBVIOUS
  <2>1. from(y) \in S /\ p[from(y)] = y /\ from(y) \in 1 .. n
    BY <1>3, <1>12
  <2>2. spot[y] = Place(S, from(y))
    BY <1>6, <1>13, <2>1
  <2>3. v[from(y)] = list[y]
    BY <1>1, <2>1
  <2>4. items[Place(S, from(y))] = v[from(y)].UUID
    BY <1>2, <2>1
  <2>5. QED
    BY <2>2, <2>3, <2>4
<1>16. QED
  BY <1>14, <1>15 DEF T, n

\* The cells are the public levels by chapter, whatever the list is.
LEMMA CellsOfList ==
  ASSUME NEW list \in Seq(Level)
  PROVE  Cells(list) \in Seq(Cell) /\ AreChapters(Cells(list), list)
<1> DEFINE v == Sorted(list)
           n == Len(list)
           cs == Cells(list)
<1>1. PICK p : Sorting(v, list, p) /\ (n < ManyLevels => StableSort(v, list, n, p))
  BY SortedIsSorting
<1>2. n \in Nat /\ DOMAIN list = 1 .. n
  OBVIOUS
<1>3. v \in Seq(Level) /\ Len(v) = n /\ ByChapter(v)
  BY <1>1 DEF Sorting
<1> HIDE DEF v, n
<1>4. PICK r : CellsInto(r, v)
  BY <1>3, CellsUnroll
<1> DEFINE T == {k \in 0 .. n : CellsInv(r[k], v, k)}
<1>5. 0 \in T
  <2>1. r[0] = <<>> /\ <<>> \in Seq(Cell) /\ DOMAIN <<>> = {} /\ 0 \in 0 .. n
        /\ 1 .. 0 = {}
    BY <1>2, <1>4 DEF CellsInto
  <2>2. CellsInv(r[0], v, 0)
    BY <2>1 DEF CellsInv
  <2>3. QED
    BY <2>1, <2>2
<1>6. ASSUME NEW k \in 0 .. n - 1, k \in T PROVE k + 1 \in T
  <2>1. k + 1 \in 1 .. n /\ k + 1 \in 0 .. n /\ (k + 1) - 1 = k
    BY <1>2
  <2>2. r[k + 1] = AddCell(r[k], v[k + 1])
    BY <1>3, <1>4, <2>1 DEF CellsInto
  <2>3. CellsInv(AddCell(r[k], v[k + 1]), v, k + 1)
    BY <1>3, <1>6, CellsStep
  <2>4. QED
    BY <2>1, <2>2, <2>3
<1>7. n \in T
  <2> HIDE DEF T
  <2>1. \A k \in 0 .. n : k \in T
    BY <1>2, <1>5, <1>6, BoundedInduction
  <2>2. QED
    BY <1>2, <2>1
<1>8. cs = r[n]
  BY <1>3, <1>4, Zenon DEF CellsInto, CellsOf, Cells, v
<1> HIDE DEF cs
<1>9. CellsInv(cs, v, n)
  BY <1>7, <1>8
<1>10. cs \in Seq(Cell)
  BY <1>9 DEF CellsInv
<1>11. /\ p \in [1 .. n -> 1 .. n]
       /\ \A i \in 1 .. n : v[i] = list[p[i]]
       /\ \A x \in 1 .. n : \E i \in 1 .. n : p[i] = x
  BY <1>1 DEF Sorting, n
<1>12. {cs[k].chapter : k \in DOMAIN cs} = {list[k].Chapter : k \in DOMAIN list}
  <2>1. ASSUME NEW k \in DOMAIN cs PROVE \E i \in DOMAIN list : list[i].Chapter = cs[k].chapter
    <3>1. PICK i \in 1 .. n : v[i].Chapter = cs[k].chapter
      BY <1>9 DEF CellsInv
    <3>2. p[i] \in 1 .. n /\ list[p[i]].Chapter = cs[k].chapter
      BY <1>11, <3>1
    <3>3. QED
      BY <1>2, <3>2
  <2>2. ASSUME NEW i \in DOMAIN list PROVE \E k \in DOMAIN cs : cs[k].chapter = list[i].Chapter
    <3>1. PICK x \in 1 .. n : p[x] = i
      BY <1>2, <1>11
    <3>2. PICK k \in DOMAIN cs : cs[k].chapter = v[x].Chapter
      BY <1>9 DEF CellsInv
    <3>3. QED
      BY <1>11, <3>1, <3>2
  <2>3. QED
    BY <2>1, <2>2
<1>13. \A j, k \in DOMAIN cs : j < k => cs[j].chapter < cs[k].chapter
  BY <1>9 DEF CellsInv
<1>14. ASSUME NEW k \in DOMAIN cs
       PROVE  /\ \E spot \in Bijection(ShownIn(list, n, cs[k].chapter),
                                       DOMAIN cs[k].items) :
                   \A i \in ShownIn(list, n, cs[k].chapter) :
                     cs[k].items[spot[i]] = list[i].UUID
              /\ n < ManyLevels => Lists(cs[k].items, list, n, cs[k].chapter)
  <2>1. Lists(cs[k].items, v, n, cs[k].chapter)
    BY <1>9 DEF CellsInv
  <2>2. cs[k].items \in Seq(UUIDs)
    <3>1. cs[k] \in Cell
      BY <1>10
    <3>2. QED
      BY <3>1 DEF Cell
  <2> DEFINE items == cs[k].items
             chapter == cs[k].chapter
  <2> HIDE DEF items, chapter
  <2>3. items \in Seq(UUIDs) /\ Lists(items, v, n, chapter)
    BY <2>1, <2>2 DEF items, chapter
  <2>4. \E spot \in Bijection(ShownIn(list, n, chapter), DOMAIN items) :
          \A i \in ShownIn(list, n, chapter) : items[spot[i]] = list[i].UUID
    BY <1>1, <2>3, ItemsUnsorted DEF n
  <2>5. n < ManyLevels => Lists(items, list, n, chapter)
    BY <1>1, <2>3, ListsUnsorted DEF n
  <2>6. QED
    BY <2>4, <2>5, Zenon DEF items, chapter
<1>15. ASSUME NEW k \in DOMAIN cs
       PROVE  LET items    == cs[k].items
                  mine     == {i \in DOMAIN list : /\ list[i].Public
                                                   /\ list[i].Chapter = cs[k].chapter}
                  place(i) == Cardinality({j \in mine : j <= i})
              IN  /\ \E spot \in Bijection(mine, DOMAIN items) :
                       \A i \in mine : items[spot[i]] = list[i].UUID
                  /\ Len(list) < ManyLevels =>
                       \A i \in mine : items[place(i)] = list[i].UUID
  <2>1. ShownIn(list, n, cs[k].chapter)
          = {i \in DOMAIN list : list[i].Public /\ list[i].Chapter = cs[k].chapter}
    BY <1>2 DEF ShownIn
  <2> DEFINE S == ShownIn(list, n, cs[k].chapter)
  <2>2. n < ManyLevels => \A i \in S : cs[k].items[Place(S, i)] = list[i].UUID
    BY <1>14, Zenon DEF Lists
  <2>3. \E spot \in Bijection(S, DOMAIN cs[k].items) :
          \A i \in S : cs[k].items[spot[i]] = list[i].UUID
    BY <1>14, Zenon
  <2>4. S = {i \in DOMAIN list : list[i].Public /\ list[i].Chapter = cs[k].chapter}
    BY <2>1
  <2> HIDE DEF S
  <2>5. QED
    BY <2>2, <2>3, <2>4, Zenon DEF Place, n
<1>16. AreChapters(cs, list)
  BY <1>12, <1>13, <1>15, Zenon DEF AreChapters
<1>17. QED
  BY <1>10, <1>16 DEF cs

LEMMA ItemsAreLevels ==
  ASSUME NEW list \in Seq(Level), NEW section \in DOMAIN Cells(list),
         NEW row \in DOMAIN Cells(list)[section].items
  PROVE  Cells(list)[section].items[row] \in UUIDsOf(list)
<1> DEFINE cell == Cells(list)[section]
           S == ShownIn(list, Len(list), cell.chapter)
<1>1. Cells(list) \in Seq(Cell) /\ AreChapters(Cells(list), list)
  BY CellsOfList
<1>2. cell.items \in Seq(UUIDs)
  <2>1. cell \in Cell
    BY <1>1
  <2>2. QED
    BY <2>1 DEF Cell
<1>3. Len(list) \in Nat /\ DOMAIN list = 1 .. Len(list) /\ S \in SUBSET (1 .. Len(list))
  BY DEF ShownIn
<1>4. S = {i \in DOMAIN list : list[i].Public /\ list[i].Chapter = cell.chapter}
  BY <1>3 DEF ShownIn
<1>5. PICK spot \in Bijection(S, DOMAIN cell.items) :
        \A i \in S : cell.items[spot[i]] = list[i].UUID
  BY <1>1, <1>4, Zenon DEF AreChapters
<1> HIDE DEF S, cell
<1>6. PICK i \in S : spot[i] = row
  <2>1. row \in DOMAIN cell.items
    BY DEF cell
  <2>2. spot \in Surjection(S, DOMAIN cell.items)
    BY <1>5, Zenon DEF Bijection
  <2>3. QED
    BY <2>1, <2>2, Zenon DEF Surjection
<1>7. cell.items[row] = list[i].UUID /\ i \in DOMAIN list
  BY <1>3, <1>5, <1>6
<1>8. QED
  BY <1>7 DEF UUIDsOf, cell

\* The public levels screen shows the public levels by chapter, each as often as the
\* list has it and nothing else, whatever additions, edits, deletions and readings the
\* list comes from and whatever order the sort gives to the levels of one chapter; a
\* list the sort treats as short keeps its order within the chapter.
THEOREM EditorCells == Spec => []CellsAreChapters
<1>1. Init => RepInv
  BY InitKeeps DEF Init
<1>2. RepInv /\ [Next]_vars => RepInv'
  BY NextKeeps
<1>3. RepInv => CellsAreChapters
  BY CellsOfList DEF RepInv, RepositoryTypeOK, CellsAreChapters
<1>4. QED
  BY <1>1, <1>2, <1>3, PTL DEF Spec

-----------------------------------------------------------------------------
(* Crashes.                                                                *)

\* What explains a crash, before it and after it.
Explained ==
  \/ \E game \in playing : game.resized
  \/ menu = "levels" /\ (stale \/ ~InList(entities, at))
  \/ menu = "main" /\ made # {}

LEMMA CrashStays ==
  ASSUME Crash, playing' = playing, Explained PROVE CrashesExplained'
<1>1. /\ entities' = entities /\ made' = made /\ menu' = menu /\ stale' = stale
      /\ at' = at
  BY DEF Crash, repository, screen, builder
<1>2. QED
  BY <1>1 DEF Explained, CrashesExplained

\* A tile that is shown is there, unless a level was deleted.
LEMMA TouchExplained ==
  ASSUME ScreenInv, NEW tile, Touch(tile) PROVE CrashesExplained'
<1> DEFINE lvl == Get(entities, levelAt)
<1>1. /\ running /\ menu = "levels" /\ shown # None /\ tile \in DOMAIN shown.Tiles
      /\ playing' = playing
  BY Zenon DEF Touch, Editing, OnLevels
<1>2. CASE lvl # None /\ tile \in DOMAIN lvl.Tiles
  <2>1. PICK type : Edit(SetTile(lvl, tile, type))
    BY <1>2, Zenon DEF Touch
  <2>2. running' = running
    BY <2>1 DEF Edit
  <2>3. QED
    BY <1>1, <2>2 DEF CrashesExplained
<1>3. CASE ~(lvl # None /\ tile \in DOMAIN lvl.Tiles)
  <2>1. Crash
    BY <1>3, Zenon DEF Touch
  <2>2. stale
    BY <1>1, <1>3 DEF ScreenInv, BuilderShowsItsLevel
  <2>3. Explained
    BY <1>1, <2>2 DEF Explained
  <2>4. QED
    BY <1>1, <2>1, <2>3, CrashStays
<1>4. QED
  BY <1>2, <1>3

LEMMA OpenExplained ==
  ASSUME running, NEW index, NEW seen, NEW sure, Open(index, seen, sure),
         InList(entities, index) \/ Explained
  PROVE  CrashesExplained'
<1>1. CASE InList(entities, index)
  <2>1. running' = running
    BY <1>1 DEF Open
  <2>2. QED
    BY <2>1 DEF CrashesExplained
<1>2. CASE ~InList(entities, index)
  <2>1. Crash /\ playing' = playing
    BY <1>2 DEF Open
  <2>2. QED
    BY <1>2, <2>1, CrashStays
<1>3. QED
  BY <1>1, <1>2

\* A cell that is tapped has its level, unless one was added since launch.
LEMMA TapExplained ==
  ASSUME RepInv, ScreenInv, NEW section, NEW row, TapCell(section, row)
  PROVE  CrashesExplained'
<1> DEFINE now == Cells(entities)
           tapped == Tapped(section, row)
           index == GetAt(entities, tapped)
           seen == cells[section].items[row]
           sure == made = {}
<1>1. /\ running /\ menu = "main" /\ cells # None
      /\ section \in DOMAIN cells /\ row \in DOMAIN cells[section].items
  BY Zenon DEF TapCell, OnMain
<1>2. Open(index, seen, sure) \/ (Crash /\ playing' = playing)
  BY Zenon DEF TapCell
<1>3. CASE made # {}
  <2>1. Explained
    BY <1>1, <1>3 DEF Explained
  <2> HIDE DEF index, seen, sure
  <2>2. QED
    BY <1>1, <1>2, <2>1, CrashStays, OpenExplained
<1>4. CASE made = {}
  <2>1. cells = now
    BY <1>1, <1>4 DEF ScreenInv, CellsFresh
  <2>2. entities \in Seq(Level)
    BY DEF RepInv, RepositoryTypeOK
  <2>3. section \in DOMAIN now /\ row \in DOMAIN now[section].items
    BY <1>1, <2>1
  <2>4. Open(index, seen, sure)
    BY <2>3, Zenon DEF TapCell
  <2>5. tapped \in UUIDsOf(entities)
    BY <2>2, <2>3, ItemsAreLevels DEF Tapped
  <2> HIDE DEF tapped
  <2>6. InList(entities, index)
    BY <2>2, <2>5, GetAtFinds
  <2> HIDE DEF index, seen, sure
  <2>7. QED
    BY <1>1, <2>4, <2>6, OpenExplained
<1>5. QED
  BY <1>3, <1>4

LEMMA CrashesKeep ==
  ASSUME RepInv, ScreenInv, CrashesExplained, [Next]_vars PROVE CrashesExplained'
<1>1. ASSUME running, running' = running PROVE CrashesExplained'
  BY <1>1 DEF CrashesExplained
<1>2. CASE UNCHANGED vars
  BY <1>2 DEF vars, repository, screens, screen, builder, played, CrashesExplained
<1>3. CASE Launch
  BY <1>3 DEF Launch, CrashesExplained
<1>4. CASE Deliver \/ Answer \/ DeliverProperties
  BY <1>1, <1>4 DEF Deliver, Propagate, Answer, DeliverProperties, screens
<1>5. CASE Navigate
  BY <1>1, <1>5 DEF Navigate, MyLevels, GoBack, Leave, OnMain, OnLevels
<1>6. ASSUME NEW u, AddLevel(u) PROVE CrashesExplained'
  BY <1>1, <1>6 DEF AddLevel, Propagate, OnLevels
<1>7. ASSUME NEW row, DeleteRow(row) \/ SelectRow(row) PROVE CrashesExplained'
  BY <1>1, <1>7 DEF DeleteRow, SelectRow, IsRow, OnLevels
<1>8. ASSUME NEW tile, Touch(tile) PROVE CrashesExplained'
  BY <1>8, TouchExplained
<1>9. ASSUME NEW size, Resize(size) PROVE CrashesExplained'
  BY <1>1, <1>9 DEF Resize, Editing, OnLevels, Edit, EditNone
<1>10. CASE SetName \/ SetOptions
  BY <1>1, <1>10 DEF SetName, SetOptions, Editing, OnLevels, Edit, EditNone
<1>11. CASE Play
  <2>1. running /\ menu = "levels"
    BY <1>11, Zenon DEF Play, OnLevels
  <2>2. PICK seen, sure : Open(at, seen, sure)
    BY <1>11, Zenon DEF Play
  <2>3. InList(entities, at) \/ Explained
    BY <2>1 DEF Explained
  <2>4. QED
    BY <2>1, <2>2, <2>3, OpenExplained
<1>12. ASSUME NEW section, NEW row, TapCell(section, row) PROVE CrashesExplained'
  BY <1>12, TapExplained
<1>13. ASSUME NEW game, Done(game) PROVE CrashesExplained'
  BY <1>1, <1>13 DEF Done, screens
<1>14. ASSUME NEW game \in playing, Trap(game) PROVE CrashesExplained'
  <2>1. Crash /\ playing' = playing /\ Explained
    BY <1>14 DEF Trap, played, Explained
  <2>2. QED
    BY <2>1, CrashStays
<1>15. QED
  BY <1>2, <1>3, <1>4, <1>5, <1>6, <1>7, <1>8, <1>9, <1>10, <1>11, <1>12, <1>13,
     <1>14, Zenon DEF Next

\* Nothing but a deletion under the builder, a level that is gone, a board that
\* got another size under a game, or cells older than the collection ends the
\* process, for all levels and any number of gestures.
THEOREM EditorCrashes == Spec => []CrashesExplained
<1>1. Init => IInv /\ CrashesExplained
  BY InitInv DEF Init, CrashesExplained
<1>2. IInv /\ CrashesExplained /\ [Next]_vars => IInv' /\ CrashesExplained'
  BY NextInv, CrashesKeep DEF IInv
<1>3. QED
  BY <1>1, <1>2, PTL DEF Spec

====
