--------------------------- MODULE LevelsRepository ---------------------------
(***************************************************************************)
(* The levels of one device: the list LevelsRepository keeps in memory,    *)
(* its one read of the collection "levels" of Firestore at launch, and the *)
(* writes it leaves to Firestore, which shows them to the device at once,  *)
(* keeps them over a restart and sees to it that they reach the server.    *)
(* This module has the state and the operations; LevelEditor has the       *)
(* screens that call them.                                                 *)
(*                                                                         *)
(* A level is identified by its UUID, but the screens name it by its index *)
(* in the list, 0-based.  Two objects of one level may be in the list,     *)
(* each a member of its own.                                               *)
(***************************************************************************)
EXTENDS LevelData, Sequences, FiniteSets, SequencesExt

CONSTANTS
  UUIDs,              \* a set of numbers: Firestore lists documents in order
  Users,
  Me,                 \* the user of this device
  Sizes,              \* what may be typed as a width or a height
  Chapters,           \* the names of chapters, numbered in their order
  NoChapter,          \* the empty name
  NewSize,            \* the width and the height of a new level: 5
  Stored,             \* the levels of the server before this device is used
  None                \* a document that is not there, the DataLevel() of get(at)

Level ==
  {lvl \in [UUID: UUIDs, ByUserID: Users, Public: BOOLEAN, Chapter: Chapters,
            Width: Sizes, Height: Sizes,
            Tiles: UNION {[TileIndices(w, h) -> TypeOfTile] : w, h \in Sizes}] :
     IsLevel(lvl)}

ASSUME RepositoryAssumption ==
  /\ UUIDs \subseteq Nat /\ IsFiniteSet(UUIDs)
  /\ Me \in Users /\ None \notin Level
  /\ Sizes \subseteq Nat \ {0} /\ NewSize \in Sizes
  /\ Chapters \subseteq Nat /\ NoChapter \in Chapters
  /\ Stored \subseteq Level
  /\ \A x, y \in Stored : x.UUID = y.UUID => x = y

VARIABLES
  entities,   \* the list
  load,       \* the read of the collection: "asked", "answered", "failed",
              \* "delivered", or "overtaken": delivered with a level in it that
              \* had been added here since it was asked for
  answer,     \* what it read
  made,       \* the levels added since launch
  used,       \* the UUIDs there ever were
  documents   \* the collection, as Firestore shows it to the device

repository == <<entities, load, answer, made, used, documents>>

RepositoryInit ==
  /\ entities = <<>> /\ load = "asked" /\ answer = <<>> /\ made = {}
  /\ used = {lvl.UUID : lvl \in Stored}
  /\ documents = [u \in UUIDs |-> IF u \in used
                                  THEN CHOOSE lvl \in Stored : lvl.UUID = u
                                  ELSE None]

-----------------------------------------------------------------------------
(* Firestore: setData makes a document, updateData needs one, delete       *)
(* removes it.                                                             *)

SetData(lvl) == documents' = [documents EXCEPT ![lvl.UUID] = lvl]

UpdateData(lvl) ==
  documents' = [documents EXCEPT ![lvl.UUID] = IF @ = None THEN None ELSE lvl]

DeleteData(lvl) == documents' = [documents EXCEPT ![lvl.UUID] = None]

\* The documents there are, in the order of their names.
Listings(docs) ==
  LET present == {u \in UUIDs : docs[u] # None}
  IN  {names \in [1 .. Cardinality(present) -> present] :
         /\ \A u \in present : \E k \in DOMAIN names : names[k] = u
         /\ \A j, k \in DOMAIN names : j < k => names[j] < names[k]}

AnswerLoad ==
  /\ load = "asked"
  /\ \E names \in Listings(documents) :
       answer' = [k \in DOMAIN names |-> documents[names[k]]]
  /\ load' = "answered"
  /\ UNCHANGED <<entities, made, used, documents>>

FailLoad ==
  /\ load = "asked"
  /\ load' = "failed"
  /\ UNCHANGED <<entities, answer, made, used, documents>>

-----------------------------------------------------------------------------
(* The operations of the repository.                                       *)

UUIDsOf(list) == {list[k].UUID : k \in DOMAIN list}

InList(list, at) == at \in 0 .. Len(list) - 1

\* get(at): an index out of the list gives a new, empty level.
Get(list, at) == IF InList(list, at) THEN list[at + 1] ELSE None

\* Mutant: the index is the place in the list, counted from 1.
GetAtFromOne(list, u) ==
  IF u \notin UUIDsOf(list) THEN -1
  ELSE CHOOSE k \in DOMAIN list :
         list[k].UUID = u /\ \A j \in 1 .. k - 1 : list[j].UUID # u

\* getAt(ID).
GetAt(list, u) ==
  IF u \notin UUIDsOf(list) THEN -1
  ELSE (CHOOSE k \in DOMAIN list :
          /\ list[k].UUID = u
          /\ \A j \in 1 .. k - 1 : list[j].UUID # u) - 1

\* The completion handler of syncFromServer: the levels of the server come
\* behind the ones that were added before it.
SyncFromServer ==
  /\ load = "answered"
  /\ entities' = entities \o answer
  /\ load' = IF UUIDsOf(answer) \cap made = {} THEN "delivered" ELSE "overtaken"
  /\ answer' = <<>>
  /\ UNCHANGED <<made, used, documents>>

NewLevel(u) ==
  ReAssignTiles([UUID |-> u, ByUserID |-> Me, Public |-> FALSE,
                 Chapter |-> NoChapter, Width |-> NewSize, Height |-> NewSize,
                 Tiles |-> <<>>])

\* Mutant: a new level comes first in the list.
AddInFront(u) ==
  /\ u \notin used
  /\ entities' = <<NewLevel(u)>> \o entities
  /\ made' = made \cup {u} /\ used' = used \cup {u}
  /\ SetData(NewLevel(u))
  /\ UNCHANGED <<load, answer>>

Add(u) ==
  /\ u \notin used
  /\ entities' = Append(entities, NewLevel(u))
  /\ made' = made \cup {u} /\ used' = used \cup {u}
  /\ SetData(NewLevel(u))
  /\ UNCHANGED <<load, answer>>

\* A change made to the object get(at) returns, and triggerUpdate(at).
Update(at, lvl) ==
  /\ InList(entities, at)
  /\ entities' = [entities EXCEPT ![at + 1] = lvl]
  /\ UpdateData(lvl)
  /\ UNCHANGED <<load, answer, made, used>>

\* Mutant: the UUID is read after the level has been removed.
DeleteNext(at) ==
  /\ InList(entities, at)
  /\ entities' = RemoveAt(entities, at + 1)
  /\ IF InList(entities', at) THEN DeleteData(Get(entities', at))
     ELSE UNCHANGED documents
  /\ UNCHANGED <<load, answer, made, used>>

Delete(at) ==
  /\ InList(entities, at)
  /\ entities' = RemoveAt(entities, at + 1)
  /\ DeleteData(Get(entities, at))
  /\ UNCHANGED <<load, answer, made, used>>

\* The process starts again; nothing that was written is lost.
Relaunch ==
  /\ entities' = <<>> /\ load' = "asked" /\ answer' = <<>> /\ made' = {}
  /\ UNCHANGED <<used, documents>>

-----------------------------------------------------------------------------
(* What the operations keep.                                               *)

RepositoryTypeOK ==
  /\ entities \in Seq(Level) /\ answer \in Seq(Level)
  /\ load \in {"asked", "answered", "failed", "delivered", "overtaken"}
  /\ made \subseteq used /\ used \subseteq UUIDs
  /\ documents \in [UUIDs -> Level \cup {None}]
  /\ \A u \in UUIDs : documents[u] # None => documents[u].UUID = u

Distinct(list) ==
  \A j, k \in DOMAIN list : list[j].UUID = list[k].UUID => j = k

\* The list and the collection are the same levels once the collection has been
\* read, however the reading, the additions, the edits and the deletions mix,
\* unless a level was added between the question and the answer.
MirrorsServer ==
  load = "delivered" =>
    /\ Distinct(entities)
    /\ \A k \in DOMAIN entities : documents[entities[k].UUID] = entities[k]
    /\ \A u \in UUIDs : documents[u] # None => u \in UUIDsOf(entities)

=============================================================================
