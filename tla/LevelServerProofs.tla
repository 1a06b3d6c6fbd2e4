-------------------------- MODULE LevelServerProofs --------------------------
(***************************************************************************)
(* Theorems about LevelServer, for any finite set of requests in a life of *)
(* the server, any names and widths, and any number of failures and        *)
(* restarts.                                                               *)
(***************************************************************************)
EXTENDS LevelServer, FiniteSetTheorems, TLAPS

LEMMA CallFields ==
  ASSUME NEW c \in Calls
  PROVE  /\ c # None
         /\ c.op \in {"list", "get", "delete", "add", "put"}
         /\ c.op \in {"get", "delete", "put"} => c.name \in Names
         /\ c.op \in {"add", "put"} => c.level \in Level /\ c.level.Name \in Names
BY CallAssumption DEF Calls, Level

\* A request that has not been answered, and what it asks for.
LEMMA Underway ==
  ASSUME TypeOK, NEW r \in Requests, pc[r] \notin {"idle", "done"}
  PROVE  call[r] \in Calls /\ result[r] = None
BY DEF TypeOK, Fits

LEMMA SeededFacts ==
  ASSUME NEW b \in [Names -> Level \cup {None}]
  PROVE  /\ Seeded(b) \in [Names -> Level \cup {None}]
         /\ \A n \in Names : /\ b[n] # None => Seeded(b)[n] = b[n]
                             /\ b[n] = None /\ Seeded(b)[n] # None
                                  => Seeded(b)[n].Name = n
<1>1. ASSUME NEW n \in Names, \E lvl \in Seeds : lvl.Name = n
      PROVE  /\ (CHOOSE lvl \in Seeds : lvl.Name = n) \in Level
             /\ (CHOOSE lvl \in Seeds : lvl.Name = n).Name = n
  BY <1>1, ServerAssumption
<1>2. QED
  BY <1>1 DEF Seeded

-----------------------------------------------------------------------------
(* What one step of one request does to everything but the bucket.         *)

\* The request r moves on to step, with res to answer.
Moved(r, step, res) ==
  /\ pc' = [pc EXCEPT ![r] = step]
  /\ result' = [result EXCEPT ![r] = res]

LEMMA AnswerMoves ==
  ASSUME TypeOK, NEW r \in Requests, NEW text, Answer(r, text)
  PROVE  Moved(r, "done", text)
BY DEF Answer, Moved

LEMMA GotoMoves ==
  ASSUME TypeOK, NEW r \in Requests, NEW step, Goto(r, step), result[r] = None
  PROVE  Moved(r, step, None)
BY DEF Goto, Moved, TypeOK

LEMMA StepTypes ==
  ASSUME TypeOK, NEW r \in Requests, NEW step \in Steps,
         NEW res \in {None, "OK", "error", "dropped"}, Moved(r, step, res),
         UNCHANGED <<call, restarts, base>>,
         bucket' \in [Names -> Level \cup {None}], failures' \in Nat,
         removed' = removed \/ removed' = removed \cup {r},
         Fits(call[r], step), res # None <=> step = "done",
         r \in removed' => /\ step \in {"insert", "done"} /\ call[r].op = "put"
                           /\ call[r].name # call[r].level.Name
  PROVE  TypeOK'
<1>1. /\ pc' \in [Requests -> Steps]
      /\ result' \in [Requests -> {None, "OK", "error", "dropped"}]
      /\ call' \in [Requests -> Calls \cup {None}]
  BY DEF TypeOK, Moved
<1>2. /\ pc'[r] = step /\ result'[r] = res
      /\ \A q \in Requests \ {r} : pc'[q] = pc[q] /\ result'[q] = result[q]
  BY DEF TypeOK, Moved
<1>3. \A q \in Requests : Fits(call[q], pc'[q])
  BY <1>2 DEF TypeOK
<1>4. \A q \in Requests : result'[q] # None <=> pc'[q] = "done"
  BY <1>2 DEF TypeOK
<1>5. /\ removed' \subseteq Requests
      /\ \A q \in removed' : /\ pc'[q] \in {"insert", "done"} /\ call[q].op = "put"
                             /\ call[q].name # call[q].level.Name
  BY <1>2 DEF TypeOK
<1>6. restarts' \in Nat /\ base' \subseteq Names
  BY DEF TypeOK
<1>7. \A q \in Requests : Fits(call'[q], pc'[q])
  BY <1>3
<1>8. \A q \in removed' : /\ pc'[q] \in {"insert", "done"} /\ call'[q].op = "put"
                          /\ call'[q].name # call'[q].level.Name
  BY <1>5
<1>9. QED
  BY <1>1, <1>4, <1>5, <1>6, <1>7, <1>8 DEF TypeOK

-----------------------------------------------------------------------------
(* The operations of the bucket.                                           *)

\* An operation that ends its request changes the bucket when it may, or not at
\* all; without a failure the answer tells which.
LEMMA ChangeAnswers ==
  ASSUME TypeOK, NEW r \in Requests, NEW possible \in BOOLEAN, NEW newBucket,
         Change(possible, newBucket, Answer(r, "OK"), Answer(r, "error"))
  PROVE  \E t \in {"OK", "error"} :
           /\ Moved(r, "done", t)
           /\ bucket' = bucket \/ (possible /\ bucket' = newBucket)
           /\ failures' \in Nat
           /\ failures' = 0 =>
                /\ failures = 0
                /\ t = "OK" => possible /\ bucket' = newBucket
                /\ t = "error" => bucket' = bucket
<1>1. failures \in Nat
  BY DEF TypeOK
<1>2. CASE possible /\ bucket' = newBucket /\ Answer(r, "OK") /\ UNCHANGED failures
  BY <1>1, <1>2, AnswerMoves
<1>3. CASE ~possible /\ Answer(r, "error") /\ UNCHANGED <<bucket, failures>>
  BY <1>1, <1>3, AnswerMoves
<1>4. CASE /\ failures' = failures + 1 /\ Answer(r, "error")
           /\ bucket' = bucket \/ (possible /\ bucket' = newBucket)
  <2>1. failures' # 0 /\ failures' \in Nat
    BY <1>1, <1>4
  <2>2. QED
    BY <1>4, <2>1, AnswerMoves
<1>5. QED
  BY <1>2, <1>3, <1>4 DEF Change

LEMMA InsertStep ==
  ASSUME TypeOK, NEW r \in Requests, Insert(r)
  PROVE  LET lvl == call[r].level
         IN  \E t \in {"OK", "error"} :
               /\ Moved(r, "done", t)
               /\ \/ bucket' = bucket
                  \/ /\ bucket[lvl.Name] = None
                     /\ bucket' = [bucket EXCEPT ![lvl.Name] = lvl]
               /\ failures' \in Nat
               /\ failures' = 0 =>
                    /\ failures = 0
                    /\ t = "OK" => /\ bucket[lvl.Name] = None
                                   /\ bucket' = [bucket EXCEPT ![lvl.Name] = lvl]
                    /\ t = "error" => bucket' = bucket
BY ChangeAnswers DEF Insert

LEMMA ReplaceStep ==
  ASSUME TypeOK, NEW r \in Requests, Replace(r)
  PROVE  LET n == call[r].name
         IN  \E t \in {"OK", "error"} :
               /\ Moved(r, "done", t)
               /\ \/ bucket' = bucket
                  \/ /\ bucket[n] # None
                     /\ bucket' = [bucket EXCEPT ![n] = call[r].level]
               /\ failures' \in Nat
               /\ failures' = 0 => failures = 0
BY ChangeAnswers DEF Replace

LEMMA DeleteStep ==
  ASSUME TypeOK, NEW r \in Requests, Delete(r)
  PROVE  LET n == call[r].name
         IN  \E t \in {"OK", "error"} :
               /\ Moved(r, "done", t)
               /\ \/ bucket' = bucket
                  \/ bucket[n] # None /\ bucket' = [bucket EXCEPT ![n] = None]
               /\ failures' \in Nat
               /\ failures' = 0 =>
                    /\ failures = 0
                    /\ t = "OK" => /\ bucket[n] # None
                                   /\ bucket' = [bucket EXCEPT ![n] = None]
                    /\ t = "error" => bucket' = bucket
<1> DEFINE possible == bucket[call[r].name] # None
           newBucket == [bucket EXCEPT ![call[r].name] = None]
<1>1. Change(possible, newBucket, Answer(r, "OK"), Answer(r, "error"))
  BY DEF Delete
<1>2. possible \in BOOLEAN
  OBVIOUS
<1>3. \E t \in {"OK", "error"} :
        /\ Moved(r, "done", t)
        /\ bucket' = bucket \/ (possible /\ bucket' = newBucket)
        /\ failures' \in Nat
        /\ failures' = 0 =>
             /\ failures = 0
             /\ t = "OK" => possible /\ bucket' = newBucket
             /\ t = "error" => bucket' = bucket
  <2> HIDE DEF possible, newBucket
  <2>1. QED
    BY <1>1, <1>2, ChangeAnswers
<1>4. QED
  BY <1>3

\* The old level of a rename is taken away; it may be although Couchbase fails.
LEMMA RemoveStep ==
  ASSUME TypeOK, NEW r \in Requests, Remove(r)
  PROVE  \/ /\ Moved(r, "insert", None) /\ UNCHANGED failures
            /\ bucket[call[r].name] # None
            /\ bucket' = [bucket EXCEPT ![call[r].name] = None]
            /\ removed' = removed \cup {r}
         \/ /\ Moved(r, "done", "error") /\ UNCHANGED <<bucket, removed>>
            /\ failures' \in Nat /\ (failures' = 0 => failures = 0)
         \/ /\ Moved(r, "done", "error") /\ failures' \in Nat /\ failures' # 0
            /\ bucket[call[r].name] # None
            /\ bucket' = [bucket EXCEPT ![call[r].name] = None]
            /\ removed' = removed \cup {r}
<1> DEFINE n == call[r].name
           newBucket == [bucket EXCEPT ![n] = None]
<1>1. /\ failures \in Nat /\ n \in Names /\ result[r] = None
      /\ bucket \in [Names -> Level \cup {None}]
  BY Underway, CallFields DEF TypeOK, Fits, Remove
<1>2. /\ Change(bucket[n] # None, newBucket, Goto(r, "insert"), Answer(r, "error"))
      /\ removed' = IF bucket[n] # bucket'[n] THEN removed \cup {r} ELSE removed
  BY DEF Remove
<1>3. bucket' = newBucket => bucket'[n] = None
  BY <1>1
<1>4. /\ Goto(r, "insert") => Moved(r, "insert", None)
      /\ Answer(r, "error") => Moved(r, "done", "error")
  BY <1>1, AnswerMoves, GotoMoves
<1> HIDE DEF n, newBucket
<1>5. CASE /\ bucket[n] # None /\ bucket' = newBucket
           /\ Goto(r, "insert") /\ UNCHANGED failures
  BY <1>2, <1>3, <1>4, <1>5 DEF n, newBucket
<1>6. CASE Answer(r, "error") /\ UNCHANGED <<bucket, failures>>
  BY <1>1, <1>2, <1>4, <1>6
<1>7. CASE failures' = failures + 1 /\ Answer(r, "error") /\ UNCHANGED bucket
  BY <1>1, <1>2, <1>4, <1>7
<1>8. CASE /\ failures' = failures + 1 /\ Answer(r, "error")
           /\ bucket[n] # None /\ bucket' = newBucket
  <2>1. failures' \in Nat /\ failures' # 0
    BY <1>1, <1>8
  <2>2. QED
    BY <1>2, <1>3, <1>4, <1>8, <2>1 DEF n, newBucket
<1>9. QED
  BY <1>2, <1>5, <1>6, <1>7, <1>8 DEF Change

\* The looks leave the bucket alone.
LEMMA LookStep ==
  ASSUME TypeOK, NEW r \in Requests, Read(r) \/ GetOld(r) \/ GetNew(r)
  PROVE  /\ UNCHANGED <<bucket, removed>> /\ failures' \in Nat
         /\ failures' = 0 => failures = 0
         /\ \/ Read(r) /\ \E t \in {"OK", "error", "dropped"} : Moved(r, "done", t)
            \/ GetOld(r) /\ (Moved(r, "getNew", None) \/ Moved(r, "done", "error"))
            \/ GetNew(r) /\ (Moved(r, "remove", None) \/ Moved(r, "done", "error"))
<1>1. failures \in Nat /\ result[r] = None
  BY Underway DEF TypeOK, Read, GetOld, GetNew
<1>2. /\ UNCHANGED <<bucket, removed>>
      /\ failures' = failures \/ failures' = failures + 1
  BY DEF Read, GetOld, GetNew, Look
<1>3. CASE Read(r)
  <2>1. Answer(r, "OK") \/ Answer(r, "error") \/ Answer(r, "dropped")
    BY <1>3, Zenon DEF Read, Look
  <2>2. QED
    BY <1>1, <1>2, <1>3, <2>1, AnswerMoves
<1>4. CASE GetOld(r)
  <2>1. Goto(r, "getNew") \/ Answer(r, "error")
    BY <1>4, Zenon DEF GetOld, Look
  <2>2. QED
    BY <1>1, <1>2, <1>4, <2>1, AnswerMoves, GotoMoves
<1>5. CASE GetNew(r)
  <2>1. Goto(r, "remove") \/ Answer(r, "error")
    BY <1>5, Zenon DEF GetNew, Look
  <2>2. QED
    BY <1>1, <1>2, <1>5, <2>1, AnswerMoves, GotoMoves
<1>6. QED
  BY <1>3, <1>4, <1>5

-----------------------------------------------------------------------------
(* The type invariant, the keys of the bucket and the updates.             *)

\* What the bucket becomes by one change.
LEMMA BucketPut ==
  ASSUME TypeOK, KeyIsName, NEW n \in Names, NEW lvl \in Level, lvl.Name = n,
         bucket' = [bucket EXCEPT ![n] = lvl]
  PROVE  bucket' \in [Names -> Level \cup {None}] /\ KeyIsName'
         /\ bucket'[n] = lvl /\ \A k \in Names \ {n} : bucket'[k] = bucket[k]
BY DEF TypeOK, KeyIsName

LEMMA BucketTaken ==
  ASSUME TypeOK, KeyIsName, NEW n \in Names, bucket' = [bucket EXCEPT ![n] = None]
  PROVE  bucket' \in [Names -> Level \cup {None}] /\ KeyIsName'
         /\ bucket'[n] = None /\ \A k \in Names \ {n} : bucket'[k] = bucket[k]
BY DEF TypeOK, KeyIsName

Overwritten(n) ==
  bucket[n] # None /\ bucket'[n] # None /\ bucket'[n] # bucket[n]

LEMMA ServeSafe ==
  ASSUME TypeOK, KeyIsName, NEW r \in Requests, Serve(r)
  PROVE  /\ TypeOK' /\ KeyIsName'
         /\ \A n \in Names : Overwritten(n) =>
              pc[r] = "replace" /\ call[r].name = n /\ bucket'[n] = call[r].level
<1> DEFINE c == call[r]
           Kept == bucket' = bucket
<1>0. /\ pc[r] \in Steps \ {"idle", "done"} /\ Fits(c, pc[r])
      /\ UNCHANGED <<call, restarts, base>>
  BY DEF Serve, Read, Insert, Replace, Delete, GetOld, GetNew, Remove, TypeOK
<1>1. c \in Calls /\ result[r] = None /\ (r \in removed => pc[r] = "insert")
  BY <1>0, Underway DEF TypeOK
<1>2. c # None /\ bucket \in [Names -> Level \cup {None}]
  BY <1>1, CallFields DEF TypeOK
<1>3. Kept => /\ bucket' \in [Names -> Level \cup {None}] /\ KeyIsName'
              /\ \A n \in Names : ~Overwritten(n)
  BY <1>2 DEF KeyIsName, Overwritten
<1>4. Fits(c, "done")
  BY <1>2 DEF Fits
<1>5. CASE Insert(r)
  <2>1. /\ c.level \in Level /\ c.level.Name \in Names
        /\ removed' = removed
        /\ r \in removed => c.op = "put" /\ c.name # c.level.Name
    BY <1>0, <1>1, <1>5, CallFields DEF Insert, Fits, TypeOK
  <2>2. PICK t \in {"OK", "error"} :
          /\ Moved(r, "done", t) /\ failures' \in Nat
          /\ Kept \/ (/\ bucket[c.level.Name] = None
                      /\ bucket' = [bucket EXCEPT ![c.level.Name] = c.level])
    BY <1>5, InsertStep
  <2>3. /\ bucket' \in [Names -> Level \cup {None}] /\ KeyIsName'
        /\ \A n \in Names : ~Overwritten(n)
    BY <1>3, <2>1, <2>2, BucketPut DEF Overwritten
  <2>4. TypeOK'
    BY <1>0, <1>1, <1>4, <2>1, <2>2, <2>3, StepTypes, ServerAssumption DEF Steps
  <2>5. QED
    BY <2>3, <2>4
<1>6. CASE Replace(r)
  <2>1. /\ c.name \in Names /\ c.level \in Level /\ c.level.Name = c.name
        /\ pc[r] = "replace" /\ removed' = removed
    BY <1>0, <1>1, <1>6, CallFields DEF Replace, Fits
  <2>2. PICK t \in {"OK", "error"} :
          /\ Moved(r, "done", t) /\ failures' \in Nat
          /\ Kept \/ bucket' = [bucket EXCEPT ![c.name] = c.level]
    BY <1>6, ReplaceStep
  <2>3. /\ bucket' \in [Names -> Level \cup {None}] /\ KeyIsName'
        /\ \A n \in Names : Overwritten(n) => c.name = n /\ bucket'[n] = c.level
    BY <1>3, <2>1, <2>2, BucketPut DEF Overwritten
  <2>4. TypeOK'
    BY <1>0, <1>1, <1>4, <2>1, <2>2, <2>3, StepTypes, ServerAssumption DEF Steps
  <2>5. QED
    BY <2>1, <2>3, <2>4
<1>7. CASE Delete(r)
  <2>1. c.name \in Names /\ pc[r] = "delete" /\ removed' = removed
    BY <1>0, <1>1, <1>7, CallFields DEF Delete, Fits
  <2>2. PICK t \in {"OK", "error"} :
          /\ Moved(r, "done", t) /\ failures' \in Nat
          /\ Kept \/ bucket' = [bucket EXCEPT ![c.name] = None]
    BY <1>7, DeleteStep
  <2>3. /\ bucket' \in [Names -> Level \cup {None}] /\ KeyIsName'
        /\ \A n \in Names : ~Overwritten(n)
    BY <1>3, <2>1, <2>2, BucketTaken DEF Overwritten
  <2>4. TypeOK'
    BY <1>0, <1>1, <1>4, <2>1, <2>2, <2>3, StepTypes, ServerAssumption DEF Steps
  <2>5. QED
    BY <2>3, <2>4
<1>8. CASE Remove(r)
  <2>1. /\ c.name \in Names /\ pc[r] = "remove"
        /\ c.op = "put" /\ c.name # c.level.Name /\ Fits(c, "insert")
    BY <1>0, <1>1, <1>2, <1>8, CallFields DEF Remove, Fits
  <2>2. /\ Moved(r, "insert", None) \/ Moved(r, "done", "error")
        /\ failures' \in Nat
        /\ Kept \/ bucket' = [bucket EXCEPT ![c.name] = None]
        /\ removed' = removed \/ removed' = removed \cup {r}
    BY <1>8, RemoveStep DEF TypeOK
  <2>3. /\ bucket' \in [Names -> Level \cup {None}] /\ KeyIsName'
        /\ \A n \in Names : ~Overwritten(n)
    BY <1>3, <2>1, <2>2, BucketTaken DEF Overwritten
  <2>4. CASE Moved(r, "insert", None)
    BY <1>0, <2>1, <2>2, <2>3, <2>4, StepTypes, ServerAssumption DEF Steps
  <2>5. CASE Moved(r, "done", "error")
    BY <1>0, <1>4, <2>1, <2>2, <2>3, <2>5, StepTypes, ServerAssumption DEF Steps
  <2>6. QED
    BY <2>2, <2>3, <2>4, <2>5
<1>9. CASE Read(r) \/ GetOld(r) \/ GetNew(r)
  <2>1. Kept /\ removed' = removed /\ failures' \in Nat /\ r \notin removed
    BY <1>1, <1>9, LookStep DEF Read, GetOld, GetNew
  <2>2. \/ \E t \in {"OK", "error", "dropped"} : Moved(r, "done", t)
        \/ Moved(r, "getNew", None) /\ Fits(c, "getNew")
        \/ Moved(r, "remove", None) /\ Fits(c, "remove")
    BY <1>0, <1>2, <1>9, LookStep DEF Fits, GetOld, GetNew
  <2>3. TypeOK'
    <3>1. CASE \E t \in {"OK", "error", "dropped"} : Moved(r, "done", t)
      BY <1>0, <1>3, <1>4, <2>1, <3>1, StepTypes, ServerAssumption DEF Steps
    <3>2. CASE Moved(r, "getNew", None) /\ Fits(c, "getNew")
      BY <1>0, <1>3, <2>1, <3>2, StepTypes DEF Steps
    <3>3. CASE Moved(r, "remove", None) /\ Fits(c, "remove")
      BY <1>0, <1>3, <2>1, <3>3, StepTypes DEF Steps
    <3>4. QED
      BY <2>2, <3>1, <3>2, <3>3
  <2>4. QED
    BY <1>3, <2>1, <2>3
<1>10. QED
  BY <1>5, <1>6, <1>7, <1>8, <1>9 DEF Serve

LEMMA ArriveSafe ==
  ASSUME TypeOK, KeyIsName, NEW r \in Requests, NEW c \in Calls, Arrive(r, c)
  PROVE  /\ TypeOK' /\ KeyIsName' /\ UNCHANGED bucket
         /\ result[r] = None /\ r \notin removed
<1>1. /\ pc[r] = "idle" /\ result[r] = None /\ r \notin removed
      /\ UNCHANGED <<bucket, result, failures, restarts, base, removed>>
  BY CallFields DEF Arrive, TypeOK, Fits
<1>2. /\ call' \in [Requests -> Calls \cup {None}] /\ pc' \in [Requests -> Steps]
      /\ call'[r] = c /\ pc'[r] = FirstStep(c)
      /\ \A q \in Requests \ {r} : call'[q] = call[q] /\ pc'[q] = pc[q]
  <2>1. FirstStep(c) \in Steps
    BY CallFields DEF FirstStep, Steps
  <2>2. QED
    BY <2>1 DEF Arrive, TypeOK
<1>3. Fits(c, FirstStep(c)) /\ FirstStep(c) # "done"
  BY CallFields DEF FirstStep, Fits
<1>4. \A q \in Requests : Fits(call'[q], pc'[q])
  BY <1>2, <1>3 DEF TypeOK
<1>5. \A q \in Requests : result'[q] # None <=> pc'[q] = "done"
  BY <1>1, <1>2, <1>3 DEF TypeOK
<1>6. \A q \in removed' : /\ pc'[q] \in {"insert", "done"} /\ call'[q].op = "put"
                          /\ call'[q].name # call'[q].level.Name
  BY <1>1, <1>2 DEF TypeOK
<1>7. TypeOK'
  BY <1>1, <1>2, <1>4, <1>5, <1>6 DEF TypeOK
<1>8. QED
  BY <1>1, <1>7 DEF KeyIsName

LEMMA RestartSafe ==
  ASSUME TypeOK, KeyIsName, Restart
  PROVE  /\ TypeOK' /\ KeyIsName' /\ \A n \in Names : ~Overwritten(n)
<1>1. /\ bucket' \in [Names -> Level \cup {None}] /\ KeyIsName'
      /\ \A n \in Names : ~Overwritten(n)
  BY SeededFacts DEF Restart, TypeOK, KeyIsName, Overwritten
<1>2. /\ base' \subseteq Names /\ removed' = {} /\ removed' \subseteq Requests
      /\ failures' \in Nat /\ restarts' \in Nat
  BY DEF Restart, TypeOK, Present
<1>3. /\ call' \in [Requests -> Calls \cup {None}] /\ pc' \in [Requests -> Steps]
      /\ result' \in [Requests -> {None, "OK", "error", "dropped"}]
      /\ \A r \in Requests : call'[r] = None /\ pc'[r] = "idle" /\ result'[r] = None
  BY DEF Restart, Steps
<1>4. \A r \in Requests : Fits(call'[r], pc'[r])
  BY <1>3 DEF Fits
<1>5. \A r \in Requests : result'[r] # None <=> pc'[r] = "done"
  BY <1>3
<1>6. QED
  BY <1>1, <1>2, <1>3, <1>4, <1>5 DEF TypeOK

LEMMA InitSafe ==
  ASSUME Init
  PROVE  TypeOK /\ KeyIsName /\ removed = {}
<1>1. bucket \in [Names -> Level \cup {None}] /\ KeyIsName
  BY SeededFacts DEF Init, KeyIsName
<1>2. /\ call \in [Requests -> Calls \cup {None}] /\ pc \in [Requests -> Steps]
      /\ result \in [Requests -> {None, "OK", "error", "dropped"}]
      /\ \A r \in Requests : call[r] = None /\ pc[r] = "idle" /\ result[r] = None
  BY DEF Init, Steps
<1>3. \A r \in Requests : Fits(call[r], pc[r])
  BY <1>2 DEF Fits
<1>4. QED
  BY <1>1, <1>2, <1>3 DEF TypeOK, Init, Present

LEMMA NextSafe ==
  ASSUME TypeOK, KeyIsName, [Next]_vars
  PROVE  /\ TypeOK' /\ KeyIsName'
         /\ \A n \in Names : Overwritten(n) =>
              \E r \in Requests : pc[r] = "replace" /\ call[r].name = n
                                   /\ bucket'[n] = call[r].level
<1>1. CASE UNCHANGED vars
  BY <1>1 DEF vars, server, TypeOK, KeyIsName, Fits, Overwritten
<1>2. CASE \E r \in Requests : Serve(r)
  BY <1>2, ServeSafe
<1>3. CASE \E r \in Requests, c \in Calls : Arrive(r, c)
  BY <1>3, ArriveSafe DEF Overwritten
<1>4. CASE Restart
  BY <1>4, RestartSafe
<1>5. QED
  BY <1>1, <1>2, <1>3, <1>4 DEF Next

\* The type invariant, and that the bucket keeps every level under the name in
\* it, whatever requests, failures and restarts come.
THEOREM ServerInvariant == Spec => [](TypeOK /\ KeyIsName)
<1>1. Init => TypeOK /\ KeyIsName
  BY InitSafe
<1>2. TypeOK /\ KeyIsName /\ [Next]_vars => (TypeOK /\ KeyIsName)'
  BY NextSafe
<1>3. QED
  BY <1>1, <1>2, PTL DEF Spec

\* Only the update of a level ever writes over it: no addition and no rename
\* does, however stale what it knows of the names.
THEOREM NothingOverwritten == Spec => OnlyUpdatesOverwrite
<1>1. TypeOK /\ KeyIsName /\ [Next]_vars
      => [\A n \in Names :
            bucket[n] # None /\ bucket'[n] # None /\ bucket'[n] # bucket[n]
            => \E r \in Requests :
                 pc[r] = "replace" /\ call[r].name = n /\ bucket'[n] = call[r].level]_vars
  BY NextSafe DEF Overwritten
<1>2. QED
  BY <1>1, ServerInvariant, PTL DEF Spec, OnlyUpdatesOverwrite

-----------------------------------------------------------------------------
(* The accounts.                                                           *)

Counted(b, n) == IF b[n] # None THEN 1 ELSE 0

LEMMA PresentCount ==
  ASSUME NEW b, NEW n \in Names
  PROVE  Cardinality({n} \cap Present(b)) = Counted(b, n)
<1>1. CASE b[n] # None
  <2>1. {n} \cap Present(b) = {n}
    BY <1>1 DEF Present
  <2>2. QED
    BY <1>1, <2>1, FS_Singleton DEF Counted
<1>2. CASE b[n] = None
  <2>1. {n} \cap Present(b) = {}
    BY <1>2 DEF Present
  <2>2. QED
    BY <1>2, <2>1, FS_EmptySet DEF Counted
<1>3. QED
  BY <1>1, <1>2

LEMMA AccountsFinite ==
  ASSUME TypeOK, NEW n
  PROVE  /\ IsFiniteSet(AddedTo(n)) /\ Cardinality(AddedTo(n)) \in Nat
         /\ IsFiniteSet(TakenFrom(n)) /\ Cardinality(TakenFrom(n)) \in Nat
<1>1. AddedTo(n) \subseteq Requests /\ TakenFrom(n) \subseteq Requests
  BY DEF AddedTo, TakenFrom, Succeeded, TypeOK
<1>2. QED
  BY <1>1, ServerAssumption, FS_Subset, FS_CardinalityType

\* How an answer changes the accounts of a name.
LEMMA AccountsStep ==
  ASSUME TypeOK, NEW r \in Requests, result[r] = None, call' = call,
         NEW step, NEW t, Moved(r, step, t), NEW n
  PROVE  LET c == call[r]
         IN  /\ r \notin AddedTo(n)
             /\ AddedTo(n)' = IF /\ t = "OK"
                                /\ \/ c.op = "add" /\ c.level.Name = n
                                   \/ c.op = "put" /\ c.level.Name = n /\ c.name # n
                             THEN AddedTo(n) \cup {r} ELSE AddedTo(n)
             /\ r \in TakenFrom(n) <=> r \in removed /\ c.name = n
             /\ removed' = removed =>
                  TakenFrom(n)' = IF t = "OK" /\ c.op = "delete" /\ c.name = n
                                  THEN TakenFrom(n) \cup {r} ELSE TakenFrom(n)
             /\ removed' = removed \cup {r} /\ t # "OK" =>
                  TakenFrom(n)' = IF c.name = n
                                  THEN TakenFrom(n) \cup {r} ELSE TakenFrom(n)
<1>1. result[r] # "OK"
  BY ServerAssumption
<1>2. result'[r] = t /\ \A q \in Requests \ {r} : result'[q] = result[q]
  BY DEF Moved, TypeOK
<1>3. removed \subseteq Requests
  BY DEF TypeOK
<1>4. QED
  BY <1>1, <1>2, <1>3 DEF AddedTo, TakenFrom, Succeeded

\* The equation of one name.
Balanced(n) ==
  Counted(bucket, n) = Cardinality({n} \cap base) + Cardinality(AddedTo(n))
                         - Cardinality(TakenFrom(n))

LEMMA AccountsAreBalanced ==
  LevelsAccounted <=> (failures = 0 => \A n \in Names : Balanced(n))
BY PresentCount DEF LevelsAccounted, Balanced

LEMMA BaseCount ==
  ASSUME TypeOK, NEW n \in Names
  PROVE  Cardinality({n} \cap base) \in Nat
<1>1. IsFiniteSet({n})
  BY FS_Singleton
<1>2. QED
  BY <1>1, FS_Intersection, FS_CardinalityType

\* A level comes when one more request has added it, a level goes when one more
\* has taken it away, and nothing else moves the balance.
LEMMA BalanceKept ==
  ASSUME TypeOK, NEW n \in Names, Balanced(n), base' = base, NEW r,
         \/ /\ bucket'[n] = bucket[n] /\ AddedTo(n)' = AddedTo(n)
            /\ TakenFrom(n)' = TakenFrom(n)
         \/ /\ bucket[n] = None /\ bucket'[n] # None
            /\ r \notin AddedTo(n) /\ AddedTo(n)' = AddedTo(n) \cup {r}
            /\ TakenFrom(n)' = TakenFrom(n)
         \/ /\ bucket[n] # None /\ bucket'[n] = None
            /\ r \notin TakenFrom(n) /\ TakenFrom(n)' = TakenFrom(n) \cup {r}
            /\ AddedTo(n)' = AddedTo(n)
  PROVE  Balanced(n)'
<1>1. /\ r \notin AddedTo(n) => Cardinality(AddedTo(n) \cup {r}) = Cardinality(AddedTo(n)) + 1
      /\ r \notin TakenFrom(n) => Cardinality(TakenFrom(n) \cup {r}) = Cardinality(TakenFrom(n)) + 1
  BY AccountsFinite, FS_AddElement
<1>2. /\ Cardinality(AddedTo(n)) \in Nat /\ Cardinality(TakenFrom(n)) \in Nat
      /\ Cardinality({n} \cap base) \in Nat
  BY AccountsFinite, BaseCount
<1>3. Balanced(n)' <=>
        Counted(bucket', n) = Cardinality({n} \cap base) + Cardinality(AddedTo(n)')
                                - Cardinality(TakenFrom(n)')
  BY DEF Balanced
<1>4. Counted(bucket, n) = Cardinality({n} \cap base) + Cardinality(AddedTo(n))
                             - Cardinality(TakenFrom(n))
  BY DEF Balanced
<1>5. CASE /\ bucket'[n] = bucket[n] /\ AddedTo(n)' = AddedTo(n)
           /\ TakenFrom(n)' = TakenFrom(n)
  BY <1>3, <1>4, <1>5 DEF Counted
<1>6. CASE /\ bucket[n] = None /\ bucket'[n] # None
           /\ r \notin AddedTo(n) /\ AddedTo(n)' = AddedTo(n) \cup {r}
           /\ TakenFrom(n)' = TakenFrom(n)
  <2>1. /\ Cardinality(AddedTo(n)') = Cardinality(AddedTo(n)) + 1
        /\ Cardinality(TakenFrom(n)') = Cardinality(TakenFrom(n))
        /\ Counted(bucket, n) = 0 /\ Counted(bucket', n) = 1
    BY <1>1, <1>6 DEF Counted
  <2>2. QED
    BY <1>2, <1>3, <1>4, <2>1
<1>7. CASE /\ bucket[n] # None /\ bucket'[n] = None
           /\ r \notin TakenFrom(n) /\ TakenFrom(n)' = TakenFrom(n) \cup {r}
           /\ AddedTo(n)' = AddedTo(n)
  <2>1. /\ Cardinality(TakenFrom(n)') = Cardinality(TakenFrom(n)) + 1
        /\ Cardinality(AddedTo(n)') = Cardinality(AddedTo(n))
        /\ Counted(bucket, n) = 1 /\ Counted(bucket', n) = 0
    BY <1>1, <1>7 DEF Counted
  <2>2. QED
    BY <1>2, <1>3, <1>4, <2>1
<1>8. QED
  BY <1>5, <1>6, <1>7

LEMMA FailuresStay ==
  ASSUME TypeOK, NEW r \in Requests, Serve(r), failures' = 0
  PROVE  failures = 0
BY InsertStep, ReplaceStep, DeleteStep, RemoveStep, LookStep DEF Serve

LEMMA ServeBalanced ==
  ASSUME TypeOK, KeyIsName, NEW r \in Requests, Serve(r), failures' = 0,
         NEW n \in Names, Balanced(n)
  PROVE  failures = 0 /\ Balanced(n)'
<1> DEFINE c == call[r]
<1>0. /\ pc[r] \in Steps \ {"idle", "done"} /\ Fits(c, pc[r])
      /\ UNCHANGED <<call, base>>
  BY DEF Serve, Read, Insert, Replace, Delete, GetOld, GetNew, Remove, TypeOK
<1>1. c \in Calls /\ result[r] = None /\ (r \in removed => pc[r] = "insert")
  BY <1>0, Underway DEF TypeOK
<1>2. bucket \in [Names -> Level \cup {None}]
  BY DEF TypeOK
<1>3. CASE Insert(r)
  <2>1. /\ c.level \in Level /\ c.level.Name \in Names /\ removed' = removed
        /\ c.op = "add" \/ (c.op = "put" /\ c.name # c.level.Name)
    BY <1>0, <1>1, <1>3, CallFields DEF Insert, Fits
  <2>2. PICK t \in {"OK", "error"} :
          /\ Moved(r, "done", t) /\ failures = 0
          /\ t = "OK" => /\ bucket[c.level.Name] = None
                         /\ bucket' = [bucket EXCEPT ![c.level.Name] = c.level]
          /\ t = "error" => bucket' = bucket
    BY <1>3, InsertStep
  <2>3. /\ r \notin AddedTo(n) /\ TakenFrom(n)' = TakenFrom(n)
        /\ AddedTo(n)' = IF t = "OK" /\ c.level.Name = n
                         THEN AddedTo(n) \cup {r} ELSE AddedTo(n)
    BY <1>0, <1>1, <2>1, <2>2, AccountsStep
  <2>4. t = "OK" => bucket'[n] = IF c.level.Name = n THEN c.level ELSE bucket[n]
    BY <1>2, <2>1, <2>2
  <2>5. c.level # None
    BY <2>1, ServerAssumption
  <2>6. QED
    BY <1>0, <2>2, <2>3, <2>4, <2>5, BalanceKept
<1>4. CASE Delete(r)
  <2>1. c.name \in Names /\ removed' = removed /\ c.op = "delete" /\ r \notin removed
    BY <1>0, <1>1, <1>4, CallFields DEF Delete, Fits
  <2>2. PICK t \in {"OK", "error"} :
          /\ Moved(r, "done", t) /\ failures = 0
          /\ t = "OK" => /\ bucket[c.name] # None
                         /\ bucket' = [bucket EXCEPT ![c.name] = None]
          /\ t = "error" => bucket' = bucket
    BY <1>4, DeleteStep
  <2>3. /\ r \notin TakenFrom(n) /\ AddedTo(n)' = AddedTo(n)
        /\ TakenFrom(n)' = IF t = "OK" /\ c.name = n
                           THEN TakenFrom(n) \cup {r} ELSE TakenFrom(n)
    BY <1>0, <1>1, <2>1, <2>2, AccountsStep
  <2>4. t = "OK" => bucket'[n] = IF c.name = n THEN None ELSE bucket[n]
    BY <1>2, <2>1, <2>2
  <2>5. QED
    BY <1>0, <2>2, <2>3, <2>4, BalanceKept
<1>5. CASE Remove(r)
  <2>1. /\ c.name \in Names /\ c.op = "put" /\ r \notin removed
    BY <1>0, <1>1, <1>5, CallFields DEF Remove, Fits
  <2>2. /\ \/ Moved(r, "insert", None) \/ Moved(r, "done", "error")
        /\ failures = 0
        /\ \/ bucket' = bucket /\ removed' = removed
           \/ /\ bucket[c.name] # None /\ removed' = removed \cup {r}
              /\ bucket' = [bucket EXCEPT ![c.name] = None]
    BY <1>5, RemoveStep
  <2>3. PICK t, step : t \in {None, "error"} /\ Moved(r, step, t)
    BY <2>2
  <2>4. /\ t # "OK" /\ r \notin TakenFrom(n) /\ AddedTo(n)' = AddedTo(n)
        /\ removed' = removed => TakenFrom(n)' = TakenFrom(n)
        /\ removed' = removed \cup {r} =>
             TakenFrom(n)' = IF c.name = n THEN TakenFrom(n) \cup {r} ELSE TakenFrom(n)
    <3>1. t # "OK"
      BY <2>3, ServerAssumption
    <3>2. QED
      BY <1>0, <1>1, <2>1, <2>3, <3>1, AccountsStep
  <2>5. bucket' = [bucket EXCEPT ![c.name] = None] =>
          bucket'[n] = IF c.name = n THEN None ELSE bucket[n]
    BY <1>2, <2>1
  <2>6. QED
    BY <1>0, <2>2, <2>4, <2>5, BalanceKept
<1>6. CASE Replace(r)
  <2>1. /\ c.name \in Names /\ c.op = "put" /\ c.name = c.level.Name
        /\ c.level \in Level /\ removed' = removed
    BY <1>0, <1>1, <1>6, CallFields DEF Replace, Fits
  <2>2. PICK t \in {"OK", "error"} :
          /\ Moved(r, "done", t) /\ failures = 0
          /\ \/ bucket' = bucket
             \/ /\ bucket[c.name] # None
                /\ bucket' = [bucket EXCEPT ![c.name] = c.level]
    BY <1>6, ReplaceStep
  <2>3. AddedTo(n)' = AddedTo(n) /\ TakenFrom(n)' = TakenFrom(n)
    BY <1>0, <1>1, <2>1, <2>2, AccountsStep
  <2>4. bucket'[n] = bucket[n] \/ (bucket[n] # None /\ bucket'[n] # None)
    BY <1>2, <2>1, <2>2, ServerAssumption
  <2>5. QED
    BY <1>0, <2>2, <2>3, <2>4 DEF Balanced, Counted
<1>7. CASE Read(r) \/ GetOld(r) \/ GetNew(r)
  <2>1. bucket' = bucket /\ removed' = removed /\ failures = 0
    BY <1>7, LookStep
  <2>2. PICK t, step : /\ Moved(r, step, t)
                       /\ t = "OK" => Read(r)
    BY <1>7, LookStep, ServerAssumption
  <2>3. Read(r) => c.op \in {"list", "get"}
    BY <1>0 DEF Read, Fits
  <2>4. AddedTo(n)' = AddedTo(n) /\ TakenFrom(n)' = TakenFrom(n)
    BY <1>0, <1>1, <2>1, <2>2, <2>3, AccountsStep
  <2>5. QED
    BY <1>0, <2>1, <2>4, BalanceKept
<1>8. QED
  BY <1>3, <1>4, <1>5, <1>6, <1>7 DEF Serve

\* A request that arrives has no account yet, and a life of the server starts
\* with none.
LEMMA ArriveBalanced ==
  ASSUME TypeOK, KeyIsName, NEW r \in Requests, NEW c \in Calls, Arrive(r, c),
         NEW n \in Names, Balanced(n)
  PROVE  Balanced(n)' /\ failures' = failures
<1>1. /\ UNCHANGED <<bucket, result, failures, base, removed>>
      /\ result[r] # "OK" /\ r \notin removed
      /\ \A q \in Requests \ {r} : call'[q] = call[q]
  BY ArriveSafe, ServerAssumption DEF Arrive, TypeOK
<1>2. removed \subseteq Requests
  BY DEF TypeOK
<1>3. AddedTo(n)' = AddedTo(n) /\ TakenFrom(n)' = TakenFrom(n)
  BY <1>1, <1>2 DEF AddedTo, TakenFrom, Succeeded
<1>4. QED
  BY <1>1, <1>3, BalanceKept

LEMMA FreshBalanced ==
  ASSUME \A r \in Requests : result[r] = None, removed = {},
         base = Present(bucket), NEW n \in Names
  PROVE  Balanced(n)
<1>1. AddedTo(n) = {} /\ TakenFrom(n) = {}
  BY ServerAssumption DEF AddedTo, TakenFrom, Succeeded
<1>2. Cardinality({n} \cap base) = Counted(bucket, n)
  BY PresentCount
<1>3. Counted(bucket, n) \in Int
  BY DEF Counted
<1>4. QED
  BY <1>1, <1>2, <1>3, FS_EmptySet DEF Balanced

LEMMA RestartBalanced ==
  ASSUME Restart, NEW n \in Names
  PROVE  Balanced(n)'
<1>1. /\ \A r \in Requests : result'[r] = None
      /\ removed' = {} /\ base' = Present(bucket')
  BY DEF Restart
<1>2. AddedTo(n)' = {} /\ TakenFrom(n)' = {}
  BY <1>1, ServerAssumption DEF AddedTo, TakenFrom, Succeeded
<1>3. Cardinality({n} \cap base') = Counted(bucket', n) /\ Counted(bucket', n) \in Int
  BY <1>1, PresentCount DEF Counted
<1>4. QED
  BY <1>2, <1>3, FS_EmptySet DEF Balanced

\* While Couchbase does not fail, the answers of a life of the server account
\* for the levels in the bucket.
THEOREM ServerAccounts == Spec => []LevelsAccounted
<1>1. Init => LevelsAccounted
  <2>1. ASSUME Init PROVE \A n \in Names : Balanced(n)
    BY <2>1, FreshBalanced DEF Init
  <2>2. QED
    BY <2>1, AccountsAreBalanced
<1>2. TypeOK /\ KeyIsName /\ LevelsAccounted /\ [Next]_vars => LevelsAccounted'
  <2> SUFFICES ASSUME TypeOK, KeyIsName, LevelsAccounted, [Next]_vars
               PROVE  LevelsAccounted'
    OBVIOUS
  <2>1. failures = 0 => \A n \in Names : Balanced(n)
    BY AccountsAreBalanced
  <2>2. failures' = 0 => \A n \in Names : Balanced(n)'
    <3>1. CASE \E r \in Requests : Serve(r)
      BY <2>1, <3>1, ServeBalanced, FailuresStay
    <3>2. CASE \E r \in Requests, c \in Calls : Arrive(r, c)
      BY <2>1, <3>2, ArriveBalanced DEF Arrive
    <3>3. CASE Restart
      BY <3>3, RestartBalanced
    <3>4. CASE UNCHANGED vars
      BY <2>1, <3>4 DEF vars, server, Balanced, Counted, AddedTo, TakenFrom, Succeeded
    <3>5. QED
      BY <3>1, <3>2, <3>3, <3>4 DEF Next
  <2>3. QED
    BY <2>2, PresentCount DEF LevelsAccounted, Balanced
<1>3. QED
  BY <1>1, <1>2, ServerInvariant, PTL DEF Spec

=============================================================================
