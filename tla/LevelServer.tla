----------------------------- MODULE LevelServer -----------------------------
(***************************************************************************)
(* The level server: the HTTP API over a Couchbase bucket that maps the    *)
(* name of a level to the level.  Every request is served by a goroutine   *)
(* of its own and nothing is locked, so that requests interleave between   *)
(* the operations of the bucket, each of which is atomic.  An operation    *)
(* may also fail, and then nobody knows whether it took effect.            *)
(***************************************************************************)
EXTENDS Integers, FiniteSets

CONSTANTS
  Requests,           \* what one life of the server serves
  Names, Widths,      \* Width stands for all that an update may change
  Seeds,              \* the levels main adds
  None,               \* no level, no request
  MaxFailures,        \* bound on the failures of the bucket
  MaxRestarts         \* bound on the restarts of the server

Level == [Name: Names, Width: Widths]

ASSUME ServerAssumption ==
  /\ IsFiniteSet(Requests)
  /\ Seeds \subseteq Level
  /\ \A x, y \in Seeds : x.Name = y.Name => x = y
  /\ None \notin Level \cup {"OK", "error", "dropped"}
  /\ MaxFailures \in Nat /\ MaxRestarts \in Nat

\* What the routes accept.
Calls ==
  [op: {"list"}] \cup [op: {"get", "delete"}, name: Names]
    \cup [op: {"add"}, level: Level]
    \cup [op: {"put"}, name: Names, level: Level]

ASSUME CallAssumption == None \notin Calls

VARIABLES
  bucket,    \* [Names -> Level \cup {None}], in Couchbase
  call,      \* per request: what was asked for, None before it arrives
  pc,        \* per request: the operation of the bucket it is at
  result,    \* per request: what the handler has to answer
  failures, restarts,
  \* What the properties remember of this life of the server.
  base,      \* the names that had a level when it started
  removed    \* the renames that have taken away the old level

server == <<call, pc, result, base, removed>>
vars   == <<bucket, server, failures, restarts>>

\* AddLevel ignores a level whose name is taken, and main ignores its error.
Seeded(b) ==
  [n \in Names |->
     IF b[n] = None /\ \E lvl \in Seeds : lvl.Name = n
     THEN CHOOSE lvl \in Seeds : lvl.Name = n
     ELSE b[n]]

Present(b) == {n \in Names : b[n] # None}

Init ==
  /\ bucket = Seeded([n \in Names |-> None])
  /\ call = [r \in Requests |-> None]
  /\ pc = [r \in Requests |-> "idle"]
  /\ result = [r \in Requests |-> None]
  /\ failures = 0 /\ restarts = 0
  /\ base = Present(bucket) /\ removed = {}

-----------------------------------------------------------------------------
(* Requests.                                                               *)

\* Mutant: the name in the level is not compared with the name in the path.
FirstStepReplacing(c) ==
  CASE c.op \in {"list", "get"} -> "read"
    [] c.op = "add"             -> "insert"
    [] c.op = "delete"          -> "delete"
    [] c.op = "put"             -> "replace"

\* The operation of the bucket a handler starts with.
FirstStep(c) ==
  CASE c.op \in {"list", "get"}                   -> "read"
    [] c.op = "add"                               -> "insert"
    [] c.op = "delete"                            -> "delete"
    [] c.op = "put" /\ c.name = c.level.Name      -> "replace"
    [] c.op = "put" /\ c.name # c.level.Name      -> "getOld"

Arrive(r, c) ==
  /\ call[r] = None
  /\ call' = [call EXCEPT ![r] = c]
  /\ pc' = [pc EXCEPT ![r] = FirstStep(c)]
  /\ UNCHANGED <<bucket, result, failures, restarts, base, removed>>

Goto(r, step) ==
  /\ pc' = [pc EXCEPT ![r] = step]
  /\ UNCHANGED result

Answer(r, text) ==
  /\ pc' = [pc EXCEPT ![r] = "done"]
  /\ result' = [result EXCEPT ![r] = text]

\* An operation that changes the bucket: it succeeds when the bucket allows it
\* and is refused otherwise; or it fails, having taken effect or not.
Change(possible, newBucket, onSuccess, onError) ==
  \/ /\ possible /\ bucket' = newBucket
     /\ onSuccess /\ UNCHANGED failures
  \/ /\ ~possible /\ onError /\ UNCHANGED <<bucket, failures>>
  \/ /\ failures < MaxFailures /\ failures' = failures + 1
     /\ \/ UNCHANGED bucket
        \/ possible /\ bucket' = newBucket
     /\ onError

\* An operation that reads it.
Look(onSuccess, onFailure) ==
  /\ \/ onSuccess /\ UNCHANGED failures
     \/ failures < MaxFailures /\ failures' = failures + 1 /\ onFailure
  /\ UNCHANGED bucket

-----------------------------------------------------------------------------
(* The handlers.                                                           *)

\* GetLevelByName, and GetLevels: a failed query has no rows to go through, the
\* handler panics on them, and the connection is closed without an answer.
Read(r) ==
  /\ pc[r] = "read"
  /\ IF call[r].op = "list"
     THEN Look(Answer(r, "OK"), Answer(r, "dropped"))
     ELSE Look(Answer(r, IF bucket[call[r].name] # None THEN "OK" ELSE "error"),
               Answer(r, "error"))
  /\ UNCHANGED <<call, restarts, base, removed>>

\* Mutant: a level of that name is overwritten.
InsertOver(r) ==
  LET lvl == call[r].level
  IN  /\ pc[r] = "insert"
      /\ Change(TRUE, [bucket EXCEPT ![lvl.Name] = lvl],
                Answer(r, "OK"), Answer(r, "error"))
      /\ UNCHANGED <<call, restarts, base, removed>>

\* Mutant: a refused level is tried again.
InsertAgain(r) ==
  LET lvl == call[r].level
  IN  /\ pc[r] = "insert"
      /\ Change(bucket[lvl.Name] = None, [bucket EXCEPT ![lvl.Name] = lvl],
                Answer(r, "OK"), Goto(r, "insert"))
      /\ UNCHANGED <<call, restarts, base, removed>>

\* AddLevel, of a POST or of the end of a rename.
Insert(r) ==
  LET lvl == call[r].level
  IN  /\ pc[r] = "insert"
      /\ Change(bucket[lvl.Name] = None, [bucket EXCEPT ![lvl.Name] = lvl],
                Answer(r, "OK"), Answer(r, "error"))
      /\ UNCHANGED <<call, restarts, base, removed>>

\* UpdateLevel of a level that keeps its name.
Replace(r) ==
  LET n == call[r].name
  IN  /\ pc[r] = "replace"
      /\ Change(bucket[n] # None, [bucket EXCEPT ![n] = call[r].level],
                Answer(r, "OK"), Answer(r, "error"))
      /\ UNCHANGED <<call, restarts, base, removed>>

\* UpdateLevel of a level that changes its name looks for both names first.
\* Without the old level it fails, whatever the second look finds.
GetOld(r) ==
  /\ pc[r] = "getOld"
  /\ Look(IF bucket[call[r].name] # None THEN Goto(r, "getNew")
                                         ELSE Answer(r, "error"),
          Answer(r, "error"))
  /\ UNCHANGED <<call, restarts, base, removed>>

\* A look that fails is taken for a name that is free.
GetNew(r) ==
  /\ pc[r] = "getNew"
  /\ Look(IF bucket[call[r].level.Name] = None THEN Goto(r, "remove")
                                               ELSE Answer(r, "error"),
          Goto(r, "remove"))
  /\ UNCHANGED <<call, restarts, base, removed>>

Remove(r) ==
  LET n == call[r].name
  IN  /\ pc[r] = "remove"
      /\ Change(bucket[n] # None, [bucket EXCEPT ![n] = None],
                Goto(r, "insert"), Answer(r, "error"))
      /\ removed' = IF bucket[n] # bucket'[n] THEN removed \cup {r} ELSE removed
      /\ UNCHANGED <<call, restarts, base>>

\* Mutant: a level that is not there is deleted as well.
DeleteMissing(r) ==
  LET n == call[r].name
  IN  /\ pc[r] = "delete"
      /\ Change(TRUE, [bucket EXCEPT ![n] = None],
                Answer(r, "OK"), Answer(r, "error"))
      /\ UNCHANGED <<call, restarts, base, removed>>

Delete(r) ==
  LET n == call[r].name
  IN  /\ pc[r] = "delete"
      /\ Change(bucket[n] # None, [bucket EXCEPT ![n] = None],
                Answer(r, "OK"), Answer(r, "error"))
      /\ UNCHANGED <<call, restarts, base, removed>>

\* The server goes down and starts again: the requests it was serving are gone
\* and main adds its levels.
Restart ==
  /\ restarts < MaxRestarts
  /\ restarts' = restarts + 1
  /\ bucket' = Seeded(bucket)
  /\ call' = [r \in Requests |-> None]
  /\ pc' = [r \in Requests |-> "idle"]
  /\ result' = [r \in Requests |-> None]
  /\ base' = Present(bucket') /\ removed' = {}
  /\ UNCHANGED failures

Serve(r) ==
  \/ Read(r) \/ Insert(r) \/ Replace(r) \/ Delete(r)
  \/ GetOld(r) \/ GetNew(r) \/ Remove(r)

Next ==
  \/ \E r \in Requests : Serve(r) \/ \E c \in Calls : Arrive(r, c)
  \/ Restart

\* A goroutine that can go on does.
Fairness == \A r \in Requests : WF_vars(Serve(r))

Spec == Init /\ [][Next]_vars /\ Fairness

-----------------------------------------------------------------------------
(* Properties.                                                             *)

Steps == {"idle", "read", "insert", "replace", "getOld", "getNew", "remove",
          "delete", "done"}

\* What a request is at tells what it was asked for.
Fits(c, step) ==
  /\ step = "idle" <=> c = None
  /\ step = "read" => c.op \in {"list", "get"}
  /\ step = "insert" => c.op = "add" \/ (c.op = "put" /\ c.name # c.level.Name)
  /\ step = "replace" => c.op = "put" /\ c.name = c.level.Name
  /\ step \in {"getOld", "getNew", "remove"} =>
       c.op = "put" /\ c.name # c.level.Name
  /\ step = "delete" => c.op = "delete"

TypeOK ==
  /\ bucket \in [Names -> Level \cup {None}]
  /\ call \in [Requests -> Calls \cup {None}]
  /\ pc \in [Requests -> Steps]
  /\ \A r \in Requests : Fits(call[r], pc[r])
  /\ result \in [Requests -> {None, "OK", "error", "dropped"}]
  /\ \A r \in Requests : result[r] # None <=> pc[r] = "done"
  /\ failures \in Nat /\ restarts \in Nat
  /\ base \subseteq Names /\ removed \subseteq Requests
  /\ \A r \in removed :
       /\ pc[r] \in {"insert", "done"}
       /\ call[r].op = "put" /\ call[r].name # call[r].level.Name

\* The bucket keeps a level under the name that is in the level, through
\* updates that change the name and the failures in the middle of them.
KeyIsName == \A n \in Names : bucket[n] # None => bucket[n].Name = n

\* A level that is in the bucket is only ever changed by an update of that very
\* level: neither an addition nor a rename whose look for the new name is stale
\* writes over a level, and neither does main.
OnlyUpdatesOverwrite ==
  [][\A n \in Names :
       bucket[n] # None /\ bucket'[n] # None /\ bucket'[n] # bucket[n]
       => \E r \in Requests :
            pc[r] = "replace" /\ call[r].name = n /\ bucket'[n] = call[r].level]_vars

Succeeded(op) == {r \in Requests : result[r] = "OK" /\ call[r].op = op}

AddedTo(n) ==
  {r \in Succeeded("add") : call[r].level.Name = n}
    \cup {r \in Succeeded("put") : call[r].level.Name = n /\ call[r].name # n}

TakenFrom(n) ==
  {r \in Succeeded("delete") : call[r].name = n} \cup {r \in removed : call[r].name = n}

\* While the bucket does not fail, the answers account for the levels: of two
\* additions of a name, or two deletions, only one succeeds unless the other
\* kind comes between, however the requests interleave.
LevelsAccounted ==
  failures = 0 =>
    \A n \in Names :
      Cardinality({n} \cap Present(bucket))
        = Cardinality({n} \cap base) + Cardinality(AddedTo(n))
          - Cardinality(TakenFrom(n))

\* A handler always comes to an end, unless the server goes down.
RequestsEnd == \A r \in Requests : pc[r] # "idle" ~> pc[r] \in {"done", "idle"}

-----------------------------------------------------------------------------
(* What the code says, and what does not happen.                           *)

\* CouchBaseRepository.go:123: UpdateLevel checks the two names so that an
\* update of a name it cannot give is refused.  A refused update is not to have
\* taken the level away.
RefusedUpdateKeepsLevel == \A r \in removed : result[r] # "error"

=============================================================================
