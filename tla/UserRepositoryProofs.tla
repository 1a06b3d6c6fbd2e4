------------------------- MODULE UserRepositoryProofs -------------------------
(***************************************************************************)
(* Theorems about UserRepository, for any devices, levels and characters,  *)
(* and any number of completed levels, selections and launches.            *)
(***************************************************************************)
EXTENDS UserRepository, TLAPS

LEMMA QueueFacts ==
  ASSUME NEW S, NEW q \in Seq(S), q # <<>>
  PROVE  /\ Head(q) \in S /\ Head(q) = q[1] /\ 1 \in DOMAIN q
         /\ Tail(q) \in Seq(S)
         /\ \A k \in DOMAIN Tail(q) : k + 1 \in DOMAIN q /\ Tail(q)[k] = q[k + 1]
OBVIOUS

LEMMA AppendFacts ==
  ASSUME NEW S, NEW q \in Seq(S), NEW e \in S
  PROVE  /\ Append(q, e) \in Seq(S)
         /\ Len(Append(q, e)) = Len(q) + 1
         /\ \A k \in DOMAIN Append(q, e) :
              Append(q, e)[k] = e \/ (k \in DOMAIN q /\ Append(q, e)[k] = q[k])
OBVIOUS

\* The last element of a queue of updates is one of its elements.
LEMMA SeenFacts ==
  ASSUME TypeOK, NEW d \in Devices
  PROVE  /\ Seen(d) \in Optional
         /\ Seen(d) = document \/ \E k \in DOMAIN writes[d] : Seen(d) = writes[d][k]
<1>1. writes[d] \in Seq(Properties) /\ document \in Optional
  BY DEF TypeOK
<1>2. CASE writes[d] = <<>>
  BY <1>1, <1>2 DEF Seen
<1>3. CASE writes[d] # <<>>
  <2>1. Len(writes[d]) \in DOMAIN writes[d]
    BY <1>1, <1>3
  <2>2. writes[d][Len(writes[d])] \in Properties
    BY <1>1, <2>1
  <2>3. QED
    BY <1>3, <2>1, <2>2 DEF Seen, Optional
<1>4. QED
  BY <1>2, <1>3

\* The two changes an operation makes to an object.
LEMMA Changed ==
  ASSUME NEW p \in Properties, EarnedBy(p),
         None \notin Properties, Awaited \notin Properties
  PROVE  /\ \A c \in Characters :
              LET q == [p EXCEPT !.SelectedCharacter = c]
              IN  /\ q \in Properties
                  /\ LevelsRequired[c] <= Len(p.CompletedLevels) => EarnedBy(q)
         /\ \A l \in Levels :
              LET q == [p EXCEPT !.CompletedLevels = Append(@, l)]
              IN  q \in Properties /\ (LevelsRequired \in [Characters -> Nat] => EarnedBy(q))
<1>1. ASSUME NEW c \in Characters
      PROVE  LET q == [p EXCEPT !.SelectedCharacter = c]
             IN  /\ q \in Properties
                 /\ LevelsRequired[c] <= Len(p.CompletedLevels) => EarnedBy(q)
  BY DEF Properties, EarnedBy
<1>2. ASSUME NEW l \in Levels
      PROVE  LET q == [p EXCEPT !.CompletedLevels = Append(@, l)]
             IN  q \in Properties /\ (LevelsRequired \in [Characters -> Nat] => EarnedBy(q))
  <2> DEFINE q == [p EXCEPT !.CompletedLevels = Append(@, l)]
  <2>1. p.CompletedLevels \in Seq(Levels) /\ p.SelectedCharacter \in Characters
    BY DEF Properties
  <2>2. /\ Append(p.CompletedLevels, l) \in Seq(Levels)
        /\ Len(Append(p.CompletedLevels, l)) = Len(p.CompletedLevels) + 1
        /\ Len(p.CompletedLevels) \in Nat
    BY <2>1
  <2>3. q \in Properties /\ q.SelectedCharacter = p.SelectedCharacter
        /\ q.CompletedLevels = Append(p.CompletedLevels, l)
    BY <2>1, <2>2 DEF Properties
  <2> HIDE DEF q
  <2>4. LevelsRequired \in [Characters -> Nat] => EarnedBy(q)
    <3>1. LevelsRequired[p.SelectedCharacter] <= Len(p.CompletedLevels)
      BY DEF EarnedBy
    <3>2. QED
      BY <2>1, <2>2, <2>3, <3>1 DEF EarnedBy
  <2>5. QED
    BY <2>3, <2>4 DEF q
<1>3. QED
  BY <1>1, <1>2

Inv == TypeOK /\ SelectionEarned

\* Appending an earned copy to the updates and a question to the gets.
LEMMA SaveKeeps ==
  ASSUME TypeOK, SelectionEarned, NEW d \in Devices, NEW p \in Properties,
         EarnedBy(p), Save(d, p)
  PROVE  /\ writes' \in [Devices -> Seq(Properties)]
         /\ gets' \in [Devices -> Seq(Answers)]
         /\ \A e \in Devices :
              /\ \A k \in DOMAIN writes'[e] : EarnedBy(writes'[e][k])
              /\ \A k \in DOMAIN gets'[e] : EarnedBy(gets'[e][k])
<1>1. writes[d] \in Seq(Properties) /\ gets[d] \in Seq(Answers) /\ Awaited \in Answers
  BY DEF TypeOK, Answers
<1>2. /\ writes' = [writes EXCEPT ![d] = Append(writes[d], p)]
      /\ gets' = [gets EXCEPT ![d] = Append(gets[d], Awaited)]
  BY DEF Save
<1>3. EarnedBy(Awaited)
  BY DEF EarnedBy
<1>4. \A k \in DOMAIN Append(writes[d], p) : EarnedBy(Append(writes[d], p)[k])
  BY <1>1, AppendFacts DEF SelectionEarned
<1>5. \A k \in DOMAIN Append(gets[d], Awaited) : EarnedBy(Append(gets[d], Awaited)[k])
  BY <1>1, <1>3, AppendFacts DEF SelectionEarned
<1>6. Append(writes[d], p) \in Seq(Properties) /\ Append(gets[d], Awaited) \in Seq(Answers)
  BY <1>1, AppendFacts
<1>7. \A e \in Devices : e # d => writes'[e] = writes[e] /\ gets'[e] = gets[e]
  BY <1>2 DEF TypeOK
<1>8. writes'[d] = Append(writes[d], p) /\ gets'[d] = Append(gets[d], Awaited)
  BY <1>2 DEF TypeOK
<1>9. QED
  BY <1>2, <1>4, <1>5, <1>6, <1>7, <1>8 DEF TypeOK, SelectionEarned

\* No copy of the properties ever shows a character that its own completed
\* levels do not unlock, with any number of devices overwriting each other.
THEOREM UserInvariant == Spec => [](TypeOK /\ SelectionEarned)
<1> USE UserAssumption
<1>1. Init => Inv
  <2> SUFFICES ASSUME Init PROVE TypeOK /\ SelectionEarned
    BY DEF Inv
  <2>0. <<>> \in Seq(Properties) /\ <<>> \in Seq(Answers) /\ None \in Optional
    BY DEF Optional
  <2>1. TypeOK
    <3>1. /\ writes \in [Devices -> Seq(Properties)]
          /\ gets \in [Devices -> Seq(Answers)]
          /\ userProperties \in [Devices -> Optional]
          /\ missed \in [Devices -> BOOLEAN]
      BY <2>0 DEF Init
    <3>2. /\ pc \in [Devices -> {"idle", "append", "save"}]
          /\ \A d \in Devices : pc[d] = "idle"
          /\ signedIn \in [Devices -> BOOLEAN]
          /\ levelID \in [Devices -> Levels \cup {None}]
      BY DEF Init
    <3>3. QED
      BY <2>0, <3>1, <3>2 DEF Init, TypeOK, Answers
  <2>2. /\ \A d \in Devices : writes[d] = <<>> /\ gets[d] = <<>>
        /\ document = None /\ \A d \in Devices : userProperties[d] = None
    BY DEF Init
  <2>3. SelectionEarned
    BY <2>2 DEF SelectionEarned, EarnedBy
  <2>4. QED
    BY <2>1, <2>3
<1>2. Inv /\ [Next]_vars => Inv'
  <2> SUFFICES ASSUME TypeOK, SelectionEarned, [Next]_vars PROVE Inv'
    BY DEF Inv
  <2>0. Default \in Properties /\ EarnedBy(Default) /\ EarnedBy(None)
        /\ Properties \subseteq Optional /\ None \in Optional /\ EarnedBy(Awaited)
        /\ Optional \subseteq Answers /\ Awaited \in Answers
    BY DEF Default, Properties, EarnedBy, Optional, Answers
  <2>1. CASE CreateUser
    BY <2>0, <2>1 DEF CreateUser, Inv, TypeOK, SelectionEarned, device, counts
  <2>2. ASSUME NEW d \in Devices, SignIn(d) PROVE Inv'
    BY <2>2 DEF SignIn, Inv, TypeOK, SelectionEarned, counts
  <2>3. ASSUME NEW d \in Devices, Launch(d) PROVE Inv'
    <3>1. <<Awaited>> \in Seq(Answers) /\ <<>> \in Seq(Answers)
      BY <2>0
    <3>2. gets' \in [Devices -> Seq(Answers)]
          /\ \A e \in Devices : gets'[e] = gets[e] \/ gets'[e] = <<Awaited>>
                                  \/ gets'[e] = <<>>
      BY <2>3, <3>1 DEF Launch, TypeOK, Answers
    <3>3. \A e \in Devices : \A k \in DOMAIN gets'[e] : EarnedBy(gets'[e][k])
      <4>1. EarnedBy(Awaited)
        BY <2>0
      <4>2. \A k \in DOMAIN <<Awaited>> : <<Awaited>>[k] = Awaited
        OBVIOUS
      <4>3. QED
        BY <3>2, <4>1, <4>2 DEF SelectionEarned
    <3>4. /\ userProperties' \in [Devices -> Optional]
          /\ pc' \in [Devices -> {"idle", "append", "save"}]
          /\ \A e \in Devices : /\ EarnedBy(userProperties'[e])
                                /\ pc'[e] # "idle" => userProperties'[e] # None
                                                      /\ pc'[e] = pc[e]
      BY <2>0, <2>3 DEF Launch, TypeOK, SelectionEarned
    <3>5. QED
      BY <2>3, <3>2, <3>3, <3>4 DEF Launch, Inv, TypeOK, SelectionEarned
  <2>4. ASSUME NEW d \in Devices, CommitWrite(d) PROVE Inv'
    <3> DEFINE q == writes[d]
    <3>1. q \in Seq(Properties) /\ q # <<>> /\ document' = Head(q)
          /\ writes' = [writes EXCEPT ![d] = Tail(q)]
      BY <2>4 DEF CommitWrite, TypeOK
    <3>2. /\ Head(q) \in Properties /\ Head(q) = q[1] /\ 1 \in DOMAIN q
          /\ Tail(q) \in Seq(Properties)
          /\ \A k \in DOMAIN Tail(q) : k + 1 \in DOMAIN q /\ Tail(q)[k] = q[k + 1]
      BY <3>1, QueueFacts
    <3>3. EarnedBy(Head(q)) /\ \A k \in DOMAIN Tail(q) : EarnedBy(Tail(q)[k])
      BY <3>2 DEF SelectionEarned
    <3>4. writes' \in [Devices -> Seq(Properties)]
          /\ \A e \in Devices : writes'[e] = IF e = d THEN Tail(q) ELSE writes[e]
      BY <3>1, <3>2 DEF TypeOK
    <3>5. QED
      BY <2>0, <2>4, <3>1, <3>2, <3>3, <3>4
         DEF CommitWrite, Inv, TypeOK, SelectionEarned, counts
  <2>5. ASSUME NEW d \in Devices, AnswerGet(d) \/ FailGet(d) PROVE Inv'
    <3>0. PICK answer : answer \in {Seen(d), None} /\ Answer(d, answer)
      BY <2>5 DEF AnswerGet, FailGet
    <3>1. PICK k \in DOMAIN gets[d] : gets' = [gets EXCEPT ![d][k] = answer]
      BY <3>0 DEF Answer
    <3>2. answer \in Answers /\ EarnedBy(answer)
      <4>1. Seen(d) \in Optional /\ EarnedBy(Seen(d))
        BY SeenFacts DEF SelectionEarned
      <4>2. QED
        BY <2>0, <3>0, <4>1
    <3>3. gets[d] \in Seq(Answers)
      BY DEF TypeOK, Answers
    <3> DEFINE q == [gets[d] EXCEPT ![k] = answer]
    <3>4. q \in Seq(Answers) /\ \A j \in DOMAIN q : q[j] = answer \/ q[j] = gets[d][j]
      BY <3>1, <3>2, <3>3
    <3>5. DOMAIN q = DOMAIN gets[d]
      OBVIOUS
    <3>6. \A j \in DOMAIN q : EarnedBy(q[j])
      BY <3>2, <3>4, <3>5 DEF SelectionEarned
    <3>7. gets' = [gets EXCEPT ![d] = q]
      BY <3>1
    <3> HIDE DEF q
    <3>8. gets' \in [Devices -> Seq(Answers)]
          /\ \A e \in Devices : gets'[e] = IF e = d THEN q ELSE gets[e]
      BY <3>4, <3>7 DEF TypeOK
    <3>9. QED
      BY <3>0, <3>6, <3>8 DEF Answer, Inv, TypeOK, SelectionEarned, counts, Answers
  <2>6. ASSUME NEW d \in Devices, DeliverGet(d) PROVE Inv'
    <3> DEFINE q == gets[d]
    <3>1. q \in Seq(Answers) /\ q # <<>> /\ gets' = [gets EXCEPT ![d] = Tail(q)]
      BY <2>6 DEF DeliverGet, TypeOK, Answers
    <3>2. /\ Head(q) \in Answers /\ Head(q) = q[1] /\ 1 \in DOMAIN q
          /\ Tail(q) \in Seq(Answers)
          /\ \A k \in DOMAIN Tail(q) : k + 1 \in DOMAIN q /\ Tail(q)[k] = q[k + 1]
      BY <3>1, QueueFacts
    <3>3. EarnedBy(Head(q)) /\ \A k \in DOMAIN Tail(q) : EarnedBy(Tail(q)[k])
      BY <3>2 DEF SelectionEarned
    <3>4. gets' \in [Devices -> Seq(Answers)]
          /\ \A e \in Devices : gets'[e] = IF e = d THEN Tail(q) ELSE gets[e]
      BY <3>1, <3>2 DEF TypeOK
    <3>5. /\ userProperties' \in [Devices -> Optional]
          /\ missed' \in [Devices -> BOOLEAN]
          /\ \A e \in Devices : \/ userProperties'[e] = userProperties[e]
                                \/ userProperties'[e] = Head(q) /\ Head(q) # None
      BY <2>6, <3>2 DEF DeliverGet, TypeOK, Answers
    <3>6. QED
      BY <2>6, <3>3, <3>4, <3>5
         DEF DeliverGet, Inv, TypeOK, SelectionEarned, counts, Answers
  <2>7. ASSUME NEW d \in Devices, NEW c \in Characters, SelectCharacter(d, c)
        PROVE  Inv'
    <3> DEFINE p == [userProperties[d] EXCEPT !.SelectedCharacter = c]
    <3>1. userProperties[d] \in Properties /\ EarnedBy(userProperties[d])
          /\ LevelsRequired[c] <= Len(userProperties[d].CompletedLevels)
      BY <2>7 DEF SelectCharacter, TypeOK, SelectionEarned, Optional
    <3>2. p \in Properties /\ EarnedBy(p)
      BY <3>1, Changed
    <3>3. Save(d, p) /\ userProperties' = [userProperties EXCEPT ![d] = p]
      BY <2>7 DEF SelectCharacter
    <3> HIDE DEF p
    <3>4. /\ userProperties' \in [Devices -> Optional]
          /\ \A e \in Devices : userProperties'[e] = IF e = d THEN p ELSE userProperties[e]
      BY <2>0, <3>2, <3>3 DEF TypeOK
    <3>5. /\ UNCHANGED <<document, account, signedIn, missed, pc, levelID, completed,
                       completions, launches>>
          /\ selections' \in Nat
      BY <2>7 DEF SelectCharacter, TypeOK
    <3>6. /\ writes' \in [Devices -> Seq(Properties)]
          /\ gets' \in [Devices -> Seq(Answers)]
          /\ \A e \in Devices :
               /\ \A k \in DOMAIN writes'[e] : EarnedBy(writes'[e][k])
               /\ \A k \in DOMAIN gets'[e] : EarnedBy(gets'[e][k])
      BY <3>2, <3>3, SaveKeeps
    <3>7. TypeOK'
      BY <3>2, <3>4, <3>5, <3>6 DEF TypeOK
    <3>8. SelectionEarned'
      BY <3>2, <3>4, <3>5, <3>6 DEF SelectionEarned
    <3>9. QED
      BY <3>7, <3>8 DEF Inv
  <2>8. ASSUME NEW d \in Devices, NEW l \in Levels, AddCompletedLevel(d, l)
        PROVE  Inv'
    <3>1. /\ UNCHANGED <<document, account, signedIn, userProperties, writes, gets, missed,
                       selections, launches>>
          /\ completions' = completions + 1 /\ completed' = completed \cup {l}
      BY <2>8 DEF AddCompletedLevel
    <3>2. /\ pc' \in [Devices -> {"idle", "append", "save"}]
          /\ levelID' \in [Devices -> Levels \cup {None}]
          /\ \A e \in Devices :
               /\ pc'[e] # "idle" => userProperties[e] # None
               /\ pc'[e] = "append" => levelID'[e] \in Levels
      BY <2>8 DEF AddCompletedLevel, TypeOK
    <3>3. QED
      BY <3>1, <3>2 DEF Inv, TypeOK, SelectionEarned
  <2>9. ASSUME NEW d \in Devices, AppendLevel(d) PROVE Inv'
    <3> DEFINE p == [userProperties[d] EXCEPT !.CompletedLevels = Append(@, levelID[d])]
    <3>1. userProperties[d] \in Properties /\ EarnedBy(userProperties[d])
          /\ levelID[d] \in Levels
      BY <2>9 DEF AppendLevel, TypeOK, SelectionEarned, Optional
    <3>2. p \in Properties /\ EarnedBy(p)
      BY <3>1, Changed
    <3>3. userProperties' = [userProperties EXCEPT ![d] = p]
      BY <2>9 DEF AppendLevel
    <3> HIDE DEF p
    <3>4. /\ userProperties' \in [Devices -> Optional]
          /\ \A e \in Devices : userProperties'[e] = IF e = d THEN p ELSE userProperties[e]
      BY <2>0, <3>2, <3>3 DEF TypeOK
    <3>5. QED
      BY <2>9, <3>2, <3>4 DEF AppendLevel, Inv, TypeOK, SelectionEarned, counts
  <2>10. ASSUME NEW d \in Devices, SaveLevel(d) PROVE Inv'
    <3>1. userProperties[d] \in Properties /\ EarnedBy(userProperties[d])
      BY <2>10 DEF SaveLevel, TypeOK, SelectionEarned, Optional
    <3>2. Save(d, userProperties[d])
      BY <2>10 DEF SaveLevel
    <3>3. QED
      BY <2>10, <3>1, <3>2, SaveKeeps
         DEF SaveLevel, Inv, TypeOK, SelectionEarned, counts
  <2>11. CASE UNCHANGED vars
    BY <2>11 DEF vars, device, counts, Inv, TypeOK, SelectionEarned
  <2>12. QED
    BY <2>1, <2>2, <2>3, <2>4, <2>5, <2>6, <2>7, <2>8, <2>9, <2>10, <2>11
       DEF Next
<1>3. Inv => TypeOK /\ SelectionEarned
  BY DEF Inv
<1>4. QED
  BY <1>1, <1>2, <1>3, PTL DEF Spec

-----------------------------------------------------------------------------
(* A device that is the only one of its user comes to agree with the       *)
(* server.                                                                 *)

\* A device nobody has signed in on has nothing and asks for nothing.
Unused(d) ==
  /\ userProperties[d] = None /\ pc[d] = "idle"
  /\ writes[d] = <<>> /\ gets[d] = <<>>

\* Where there is no document, none has arrived.
NothingSeen(d) ==
  Seen(d) = None => /\ userProperties[d] = None
                    /\ \A k \in DOMAIN gets[d] : gets[d][k] \in {None, Awaited}

Alone(d) == \A e \in Devices \ {d} : ~signedIn[e]

\* What the last of the gets brings, or has brought, is what the device sees of
\* the document, or nothing; only between the change of an object and its save is
\* there nothing on its way.
Current(d) ==
  IF gets[d] # <<>> THEN gets[d][Len(gets[d])] \in {None, Awaited, Seen(d)}
  ELSE pc[d] # "save" /\ ~missed[d] => userProperties[d] \in {None, Seen(d)}

Converging(d) ==
  /\ ~signedIn[d] => Unused(d)
  /\ NothingSeen(d)
  /\ Alone(d) => Current(d)

ConvergingInv == \A d \in Devices : Converging(d)

LEMMA LastFacts ==
  ASSUME NEW S, NEW q \in Seq(S)
  PROVE  /\ \A e \in S : /\ Append(q, e) # <<>>
                         /\ Append(q, e)[Len(Append(q, e))] = e
         /\ q # <<>> =>
              /\ Len(q) \in DOMAIN q
              /\ Tail(q) # <<>> => Tail(q)[Len(Tail(q))] = q[Len(q)]
              /\ Tail(q) = <<>> => q[Len(q)] = Head(q)
<1>1. ASSUME NEW e \in S
      PROVE  Append(q, e) # <<>> /\ Append(q, e)[Len(Append(q, e))] = e
  OBVIOUS
<1>2. ASSUME q # <<>>
      PROVE  /\ Len(q) \in DOMAIN q
             /\ Tail(q) # <<>> => Tail(q)[Len(Tail(q))] = q[Len(q)]
             /\ Tail(q) = <<>> => q[Len(q)] = Head(q)
  <2>1. Len(q) \in Nat \ {0} /\ Len(Tail(q)) = Len(q) - 1 /\ Tail(q) \in Seq(S)
    BY <1>2
  <2>2. Tail(q) # <<>> => Len(Tail(q)) \in DOMAIN Tail(q)
    BY <2>1
  <2>3. \A k \in DOMAIN Tail(q) : Tail(q)[k] = q[k + 1]
    BY <1>2, QueueFacts
  <2>4. Tail(q) = <<>> => Len(q) = 1
    BY <2>1
  <2>5. QED
    BY <1>2, <2>1, <2>2, <2>3, <2>4
<1>3. QED
  BY <1>1, <1>2

\* A device a step leaves alone, when the document it sees stays or another
\* device, which is signed in then, has changed it.
LEMMA OthersKeep ==
  ASSUME ConvergingInv, NEW e \in Devices,
         /\ userProperties'[e] = userProperties[e] /\ pc'[e] = pc[e]
         /\ writes'[e] = writes[e] /\ gets'[e] = gets[e] /\ missed'[e] = missed[e]
         /\ signedIn'[e] = signedIn[e],
         \A f \in Devices : signedIn[f] => signedIn'[f],
         document' = document \/ (document' # None /\ ~Alone(e))
  PROVE  Converging(e)'
<1>1. Converging(e)
  BY DEF ConvergingInv
<1>2. Alone(e)' => Alone(e)
  BY DEF Alone
<1>3. document' = document => Seen(e)' = Seen(e)
  BY DEF Seen
<1>4. Seen(e)' = None => Seen(e) = None \/ (writes[e] # <<>> /\ Seen(e)' = Seen(e))
  BY DEF Seen
<1>5. (~signedIn[e] => Unused(e))'
  BY <1>1 DEF Converging, Unused
<1>6. NothingSeen(e)'
  BY <1>1, <1>4 DEF Converging, NothingSeen
<1>7. (Alone(e) => Current(e))'
  BY <1>1, <1>2, <1>3 DEF Converging, Current
<1>8. QED
  BY <1>5, <1>6, <1>7 DEF Converging

\* Saving leaves nothing to bring but the object that was saved.
LEMMA SaveConverges ==
  ASSUME UserAssumption, TypeOK, TypeOK', NEW d \in Devices, NEW p \in Properties,
         Save(d, p), signedIn'[d]
  PROVE  Converging(d)'
<1>1. writes[d] \in Seq(Properties) /\ gets[d] \in Seq(Answers) /\ Awaited \in Answers
  BY DEF TypeOK, Answers
<1>2. writes'[d] = Append(writes[d], p) /\ gets'[d] = Append(gets[d], Awaited)
  BY DEF Save, TypeOK
<1>3. writes'[d] # <<>> /\ writes'[d][Len(writes'[d])] = p
  <2>1. Append(writes[d], p) # <<>> /\ Append(writes[d], p)[Len(Append(writes[d], p))] = p
    BY <1>1, LastFacts
  <2>2. QED
    BY <1>2, <2>1, Zenon
<1>4. gets'[d] # <<>> /\ gets'[d][Len(gets'[d])] = Awaited
  <2>1. Append(gets[d], Awaited) # <<>>
        /\ Append(gets[d], Awaited)[Len(Append(gets[d], Awaited))] = Awaited
    BY <1>1, LastFacts
  <2>2. QED
    BY <1>2, <2>1, Zenon
<1>5. Seen(d)' = p
  BY <1>3 DEF Seen
<1>6. p # None
  BY DEF UserAssumption
<1>7. QED
  BY <1>4, <1>5, <1>6 DEF Converging, NothingSeen, Current

LEMMA ConvergingStep ==
  ASSUME UserAssumption, TypeOK, TypeOK', ConvergingInv, [Next]_vars
  PROVE  ConvergingInv'
<1> USE DEF UserAssumption
<1>a. \A f \in Devices : Converging(f)
  BY DEF ConvergingInv
<1>1. CASE CreateUser
  <2> SUFFICES ASSUME NEW e \in Devices PROVE Converging(e)'
    BY DEF ConvergingInv
  <2>1. /\ userProperties' = userProperties /\ pc' = pc /\ writes' = writes
        /\ gets' = gets /\ missed' = missed /\ signedIn' = signedIn
        /\ document = None /\ document' = Default /\ Default # None
    <3>1. Default \in Properties
      BY DEF Default, Properties
    <3>2. QED
      BY <1>1, <3>1 DEF CreateUser, device
  <2>2. CASE writes[e] = <<>>
    <3>1. Seen(e) = None /\ Seen(e)' = Default
      BY <2>1, <2>2 DEF Seen
    <3>2. /\ userProperties[e] = None
          /\ \A k \in DOMAIN gets[e] : gets[e][k] \in {None, Awaited}
      BY <1>a, <3>1 DEF Converging, NothingSeen
    <3>3. gets[e] # <<>> => gets[e][Len(gets[e])] \in {None, Awaited}
      BY <3>2, LastFacts DEF TypeOK
    <3>4. QED
      BY <1>a, <2>1, <3>1, <3>2, <3>3
         DEF Converging, Unused, NothingSeen, Current
  <2>3. CASE writes[e] # <<>>
    <3>1. Seen(e)' = Seen(e)
      BY <2>1, <2>3 DEF Seen
    <3>2. QED
      BY <1>a, <2>1, <3>1 DEF Converging, Unused, NothingSeen, Alone, Current
  <2>4. QED
    BY <2>2, <2>3
<1>2. ASSUME NEW d \in Devices, SignIn(d) PROVE ConvergingInv'
  <2> SUFFICES ASSUME NEW e \in Devices PROVE Converging(e)'
    BY DEF ConvergingInv
  <2>1. /\ userProperties' = userProperties /\ pc' = pc /\ writes' = writes
        /\ gets' = gets /\ missed' = missed /\ document' = document
        /\ \A f \in Devices : signedIn'[f] = (f = d \/ signedIn[f])
    BY <1>2 DEF SignIn, TypeOK
  <2>2. Seen(e)' = Seen(e)
    BY <2>1 DEF Seen
  <2>3. NothingSeen(e)'
    BY <1>a, <2>1, <2>2 DEF Converging, NothingSeen
  <2>4. (~signedIn[e] => Unused(e))'
    BY <1>a, <2>1 DEF Converging, Unused
  <2>5. (Alone(e) => Current(e))'
    BY <1>a, <2>1, <2>2 DEF Converging, Alone, Current
  <2>6. QED
    BY <2>3, <2>4, <2>5 DEF Converging
<1>3. ASSUME NEW d \in Devices, Launch(d) PROVE ConvergingInv'
  <2>1. /\ userProperties'[d] = None /\ pc'[d] = "idle" /\ writes' = writes
        /\ gets'[d] = IF signedIn[d] THEN <<Awaited>> ELSE <<>>
        /\ signedIn' = signedIn /\ document' = document
        /\ \A e \in Devices \ {d} :
             /\ userProperties'[e] = userProperties[e] /\ pc'[e] = pc[e]
             /\ gets'[e] = gets[e] /\ missed'[e] = missed[e]
    BY <1>3 DEF Launch, TypeOK
  <2>2. Converging(d)'
    <3>1. /\ gets'[d] # <<>> => gets'[d][Len(gets'[d])] = Awaited
          /\ \A k \in DOMAIN gets'[d] : gets'[d][k] = Awaited
      BY <2>1
    <3>2. (~signedIn[d] => Unused(d))'
      BY <1>a, <2>1 DEF Converging, Unused
    <3>3. NothingSeen(d)' /\ Current(d)'
      BY <2>1, <3>1 DEF NothingSeen, Current
    <3>4. QED
      BY <3>2, <3>3 DEF Converging
  <2>3. ASSUME NEW e \in Devices \ {d} PROVE Converging(e)'
    BY <2>1, <2>3, OthersKeep
  <2>4. QED
    BY <2>2, <2>3 DEF ConvergingInv
<1>4. ASSUME NEW d \in Devices, CommitWrite(d) PROVE ConvergingInv'
  <2> DEFINE q == writes[d]
  <2>1. /\ q \in Seq(Properties) /\ q # <<>> /\ document' = Head(q)
        /\ writes'[d] = Tail(q)
        /\ \A e \in Devices \ {d} : writes'[e] = writes[e]
        /\ signedIn' = signedIn /\ userProperties' = userProperties
        /\ gets' = gets /\ missed' = missed /\ pc' = pc
    BY <1>4 DEF CommitWrite, TypeOK
  <2>2. Head(q) \in Properties /\ Head(q) # None
    BY <2>1, QueueFacts
  <2>3. signedIn[d]
    BY <1>a, <2>1 DEF Converging, Unused
  <2>4. Converging(d)'
    <3>1. Seen(d)' = Seen(d)
      BY <2>1, LastFacts DEF Seen
    <3>2. Alone(d)' => Alone(d)
      BY <2>1 DEF Alone
    <3>3. (~signedIn[d] => Unused(d))'
      BY <2>1, <2>3
    <3>4. NothingSeen(d)'
      BY <1>a, <2>1, <3>1 DEF Converging, NothingSeen
    <3>5. (Alone(d) => Current(d))'
      BY <1>a, <2>1, <3>1, <3>2 DEF Converging, Current
    <3>6. QED
      BY <3>3, <3>4, <3>5 DEF Converging
  <2>5. ASSUME NEW e \in Devices \ {d} PROVE Converging(e)'
    <3>1. ~Alone(e)
      BY <2>3, <2>5 DEF Alone
    <3>2. QED
      BY <2>1, <2>2, <3>1, OthersKeep
  <2>6. QED
    BY <2>4, <2>5 DEF ConvergingInv
<1>5. ASSUME NEW d \in Devices, AnswerGet(d) \/ FailGet(d) PROVE ConvergingInv'
  <2>0. PICK answer : answer \in {Seen(d), None} /\ Answer(d, answer)
    BY <1>5 DEF AnswerGet, FailGet
  <2>1. PICK k \in DOMAIN gets[d] : gets' = [gets EXCEPT ![d][k] = answer]
    BY <2>0 DEF Answer
  <2>2. /\ document' = document /\ signedIn' = signedIn /\ writes' = writes
        /\ userProperties' = userProperties /\ missed' = missed /\ pc' = pc
    BY <2>0 DEF Answer
  <2> DEFINE q == [gets[d] EXCEPT ![k] = answer]
  <2>3. gets' = [gets EXCEPT ![d] = q]
    BY <2>1
  <2>4. gets[d] \in Seq(Answers) /\ gets[d] # <<>>
    BY <2>1 DEF TypeOK, Answers
  <2>5. /\ DOMAIN q = DOMAIN gets[d] /\ q # <<>> /\ Len(q) = Len(gets[d])
        /\ Len(q) \in DOMAIN q
        /\ \A j \in DOMAIN q : q[j] = answer \/ q[j] = gets[d][j]
    <3>1. answer \in Answers
      BY <2>0, SeenFacts DEF Answers, Optional
    <3>2. q \in Seq(Answers) /\ Len(q) = Len(gets[d]) /\ DOMAIN q = DOMAIN gets[d]
      BY <2>4, <3>1
    <3>3. Len(gets[d]) \in DOMAIN gets[d]
      BY <2>4, LastFacts
    <3>4. q # <<>>
      BY <3>2, <3>3
    <3>5. QED
      BY <3>2, <3>3, <3>4
  <2> HIDE DEF q
  <2>6. gets'[d] = q /\ \A e \in Devices \ {d} : gets'[e] = gets[e]
    BY <2>3 DEF TypeOK
  <2>7. Converging(d)'
    <3>1. Seen(d)' = Seen(d) /\ (Alone(d)' => Alone(d))
      BY <2>2 DEF Seen, Alone
    <3>2. signedIn[d]
      BY <1>a, <2>4 DEF Converging, Unused
    <3>3. Alone(d) => gets[d][Len(gets[d])] \in {None, Awaited, Seen(d)}
      BY <1>a, <2>4 DEF Converging, Current
    <3>4. Alone(d) => q[Len(q)] \in {None, Awaited, Seen(d)}
      BY <2>0, <2>5, <3>3
    <3>5. NothingSeen(d)'
      BY <1>a, <2>0, <2>2, <2>5, <2>6, <3>1 DEF Converging, NothingSeen
    <3>6. (Alone(d) => Current(d))'
      BY <2>5, <2>6, <3>1, <3>4 DEF Current
    <3>7. QED
      BY <2>2, <3>2, <3>5, <3>6 DEF Converging
  <2>8. ASSUME NEW e \in Devices \ {d} PROVE Converging(e)'
    BY <2>2, <2>6, <2>8, OthersKeep
  <2>9. QED
    BY <2>7, <2>8 DEF ConvergingInv
<1>6. ASSUME NEW d \in Devices, DeliverGet(d) PROVE ConvergingInv'
  <2> DEFINE q == gets[d]
  <2>1. /\ q \in Seq(Answers) /\ q # <<>> /\ gets'[d] = Tail(q)
        /\ \A e \in Devices \ {d} : gets'[e] = gets[e]
        /\ document' = document /\ signedIn' = signedIn /\ writes' = writes
        /\ pc' = pc /\ Head(q) # Awaited
    BY <1>6 DEF DeliverGet, TypeOK, Answers
  <2>2. /\ Head(q) = q[1] /\ 1 \in DOMAIN q
        /\ \A k \in DOMAIN Tail(q) : k + 1 \in DOMAIN q /\ Tail(q)[k] = q[k + 1]
    BY <2>1, QueueFacts
  <2>3. /\ \A e \in Devices \ {d} : userProperties'[e] = userProperties[e]
                                   /\ missed'[e] = missed[e]
        /\ missed'[d] = (Head(q) = None)
        /\ userProperties'[d] = IF Head(q) = None THEN userProperties[d] ELSE Head(q)
    BY <1>6 DEF DeliverGet, TypeOK
  <2>4. Seen(d)' = Seen(d) /\ (Alone(d)' => Alone(d))
    BY <2>1 DEF Seen, Alone
  <2>5. Converging(d)'
    <3>1. signedIn[d]
      BY <1>a, <2>1 DEF Converging, Unused
    <3>2. Seen(d) = None => /\ userProperties'[d] = None
                            /\ \A k \in DOMAIN Tail(q) : Tail(q)[k] \in {None, Awaited}
      BY <1>a, <2>1, <2>2, <2>3 DEF Converging, NothingSeen
    <3>3. NothingSeen(d)'
      BY <2>1, <2>4, <3>2 DEF NothingSeen
    <3>4. Alone(d) => q[Len(q)] \in {None, Awaited, Seen(d)}
      BY <1>a, <2>1 DEF Converging, Current
    <3>5. CASE Tail(q) # <<>>
      <4>1. Tail(q)[Len(Tail(q))] = q[Len(q)]
        BY <2>1, <3>5, LastFacts
      <4>2. (Alone(d) => Current(d))'
        BY <2>1, <2>4, <3>4, <3>5, <4>1 DEF Current
      <4>3. QED
        BY <2>1, <3>1, <3>3, <4>2 DEF Converging
    <3>6. CASE Tail(q) = <<>>
      <4>1. q[Len(q)] = Head(q)
        BY <2>1, <3>6, LastFacts
      <4>2. Alone(d) /\ ~missed'[d] => userProperties'[d] = Seen(d)
        BY <2>1, <2>3, <3>4, <4>1
      <4>3. (Alone(d) => Current(d))'
        BY <2>1, <2>4, <3>6, <4>2 DEF Current
      <4>4. QED
        BY <2>1, <3>1, <3>3, <4>3 DEF Converging
    <3>7. QED
      BY <3>5, <3>6
  <2>6. ASSUME NEW e \in Devices \ {d} PROVE Converging(e)'
    BY <2>1, <2>3, <2>6, OthersKeep
  <2>7. QED
    BY <2>5, <2>6 DEF ConvergingInv
<1>7. ASSUME NEW d \in Devices, NEW c \in Characters, SelectCharacter(d, c)
      PROVE  ConvergingInv'
  <2> DEFINE p == [userProperties[d] EXCEPT !.SelectedCharacter = c]
  <2>1. /\ Save(d, p) /\ userProperties[d] # None
        /\ document' = document /\ signedIn' = signedIn /\ pc' = pc
        /\ userProperties' = [userProperties EXCEPT ![d] = p] /\ missed' = missed
    BY <1>7 DEF SelectCharacter
  <2>2. p \in Properties
    <3>1. userProperties[d] \in Properties
      BY <2>1 DEF TypeOK, Optional
    <3>2. QED
      BY <3>1 DEF Properties
  <2> HIDE DEF p
  <2>3. \A e \in Devices \ {d} : /\ userProperties'[e] = userProperties[e]
                                 /\ writes'[e] = writes[e] /\ gets'[e] = gets[e]
    BY <2>1 DEF Save, TypeOK
  <2>4. signedIn[d]
    BY <1>a, <2>1 DEF Converging, Unused
  <2>5. Converging(d)'
    BY <2>1, <2>2, <2>4, SaveConverges
  <2>6. ASSUME NEW e \in Devices \ {d} PROVE Converging(e)'
    BY <2>1, <2>3, <2>6, OthersKeep
  <2>7. QED
    BY <2>5, <2>6 DEF ConvergingInv
<1>8. ASSUME NEW d \in Devices, NEW l \in Levels, AddCompletedLevel(d, l)
      PROVE  ConvergingInv'
  <2> SUFFICES ASSUME NEW e \in Devices PROVE Converging(e)'
    BY DEF ConvergingInv
  <2>1. /\ document' = document /\ signedIn' = signedIn /\ writes' = writes
        /\ userProperties' = userProperties /\ gets' = gets /\ missed' = missed
        /\ signedIn[d] /\ \A f \in Devices \ {d} : pc'[f] = pc[f]
        /\ pc[d] = "idle" /\ pc'[d] \in {"idle", "append"}
    BY <1>8 DEF AddCompletedLevel, TypeOK
  <2>2. Seen(e)' = Seen(e) /\ (Alone(e)' => Alone(e))
    BY <2>1 DEF Seen, Alone
  <2>3. (~signedIn[e] => Unused(e))'
    BY <1>a, <2>1 DEF Converging, Unused
  <2>4. NothingSeen(e)'
    BY <1>a, <2>1, <2>2 DEF Converging, NothingSeen
  <2>5. (Alone(e) => Current(e))'
    BY <1>a, <2>1, <2>2 DEF Converging, Current
  <2>6. QED
    BY <2>3, <2>4, <2>5 DEF Converging
<1>9. ASSUME NEW d \in Devices, AppendLevel(d) PROVE ConvergingInv'
  <2> DEFINE p == [userProperties[d] EXCEPT !.CompletedLevels = Append(@, levelID[d])]
  <2>1. /\ document' = document /\ signedIn' = signedIn /\ writes' = writes
        /\ gets' = gets /\ missed' = missed /\ pc[d] = "append" /\ pc' = [pc EXCEPT ![d] = "save"]
        /\ userProperties' = [userProperties EXCEPT ![d] = p]
    BY <1>9 DEF AppendLevel
  <2> HIDE DEF p
  <2>2. /\ \A e \in Devices \ {d} : pc'[e] = pc[e] /\ userProperties'[e] = userProperties[e]
        /\ pc'[d] = "save" /\ userProperties[d] # None
    BY <2>1 DEF TypeOK
  <2>3. Seen(d)' = Seen(d) /\ (Alone(d)' => Alone(d))
    BY <2>1 DEF Seen, Alone
  <2>4. signedIn[d] /\ Seen(d) # None
    BY <1>a, <2>2 DEF Converging, Unused, NothingSeen
  <2>5. (Alone(d) => Current(d))'
    BY <1>a, <2>1, <2>2, <2>3 DEF Converging, Current
  <2>6. Converging(d)'
    BY <2>1, <2>3, <2>4, <2>5 DEF Converging, NothingSeen
  <2>7. ASSUME NEW e \in Devices \ {d} PROVE Converging(e)'
    BY <2>1, <2>2, <2>7, OthersKeep
  <2>8. QED
    BY <2>6, <2>7 DEF ConvergingInv
<1>10. ASSUME NEW d \in Devices, SaveLevel(d) PROVE ConvergingInv'
  <2>1. /\ Save(d, userProperties[d]) /\ pc[d] = "save"
        /\ document' = document /\ signedIn' = signedIn
        /\ userProperties' = userProperties /\ missed' = missed
        /\ \A e \in Devices \ {d} : pc'[e] = pc[e]
    BY <1>10 DEF SaveLevel, TypeOK
  <2>2. userProperties[d] \in Properties
    BY <2>1 DEF TypeOK, Optional
  <2>3. \A e \in Devices \ {d} : writes'[e] = writes[e] /\ gets'[e] = gets[e]
    BY <2>1 DEF Save, TypeOK
  <2>4. signedIn[d]
    BY <1>a, <2>1 DEF Converging, Unused
  <2>5. Converging(d)'
    BY <2>1, <2>2, <2>4, SaveConverges
  <2>6. ASSUME NEW e \in Devices \ {d} PROVE Converging(e)'
    BY <2>1, <2>3, <2>6, OthersKeep
  <2>7. QED
    BY <2>5, <2>6 DEF ConvergingInv
<1>11. CASE UNCHANGED vars
  <2> SUFFICES ASSUME NEW e \in Devices PROVE Converging(e)'
    BY DEF ConvergingInv
  <2>1. QED
    BY <1>11, OthersKeep DEF vars, device, counts
<1>12. QED
  BY <1>1, <1>2, <1>3, <1>4, <1>5, <1>6, <1>7, <1>8, <1>9, <1>10, <1>11 DEF Next

\* Once everything it asked for has arrived, and the last read brought a document,
\* the only device of its user shows what the server has, whatever the answers
\* replaced under the background thread, however many earlier reads failed, and
\* however often the application was started again on the way.
THEOREM OnlyDeviceConverges == Spec => []MemoryConverges
<1>1. Init => ConvergingInv
  BY DEF Init, ConvergingInv, Converging, Unused, NothingSeen, Current
<1>2. TypeOK /\ TypeOK' /\ ConvergingInv /\ [Next]_vars => ConvergingInv'
  BY UserAssumption, ConvergingStep
<1>3. ConvergingInv => MemoryConverges
  <2> SUFFICES ASSUME ConvergingInv, NEW d \in Devices, Settled(d),
                      ~missed[d], userProperties[d] # None, Alone(d)
               PROVE  userProperties[d] = document
    BY DEF MemoryConverges, Alone
  <2>1. gets[d] = <<>> /\ pc[d] = "idle" /\ Seen(d) = document
    BY DEF Settled, Seen
  <2>2. QED
    BY <2>1 DEF ConvergingInv, Converging, Current
<1>4. Spec => []TypeOK
  BY UserInvariant, PTL
<1>5. QED
  BY <1>1, <1>2, <1>3, <1>4, PTL DEF Spec

=============================================================================
