---------------------------- MODULE UserRepository ----------------------------
(***************************************************************************)
(* The progress of one user: the document users/<uid> of Firestore, and    *)
(* the UserRepository of each device the user plays on.                    *)
(*                                                                         *)
(* A repository keeps one UserProperties object, saves it by writing every *)
(* field of the document and asks for the document again; the answers are  *)
(* delivered on the main thread, where each document replaces the object,  *)
(* while addCompletedLevel runs on the background thread of a game, which  *)
(* is why it is cut where the object can be replaced under it.  A read can *)
(* fail: then the object stays, however old it is.                         *)
(***************************************************************************)
EXTENDS Integers, Sequences, FiniteSets

CONSTANTS
  Devices, Levels, Characters,
  LevelsRequired,     \* how many completed levels unlock each character
  DefaultCharacter,
  None,               \* a document or an object that is not there
  Awaited,            \* an answer that has not come
  MaxCompletions, MaxSelections, MaxLaunches  \* bounds, over all devices

Properties == [SelectedCharacter: Characters, CompletedLevels: Seq(Levels)]

Default == [SelectedCharacter |-> DefaultCharacter, CompletedLevels |-> <<>>]

ASSUME UserAssumption ==
  /\ LevelsRequired \in [Characters -> Nat]
  /\ DefaultCharacter \in Characters /\ LevelsRequired[DefaultCharacter] = 0
  /\ None \notin Properties /\ Awaited \notin Properties \cup {None}
  /\ {MaxCompletions, MaxSelections, MaxLaunches} \subseteq Nat

VARIABLES
  document,        \* the document on the server
  account,         \* whether the user exists
  signedIn,        \* per device; survives a restart
  userProperties,  \* per device: the object in memory
  writes,          \* per device: updates the server has not seen; survive too
  gets,            \* per device: answers, None where a read brings no document
  missed,          \* per device: whether the last answer brought none
  pc, levelID,     \* per device: addCompletedLevel on the background thread
  completed,       \* levels some game announced as done
  completions, selections, launches  \* what the bounds count

device == <<signedIn, userProperties, writes, gets, missed, pc, levelID>>
counts == <<completed, completions, selections, launches>>
vars   == <<document, account, device, counts>>

Init ==
  /\ document = None /\ account = FALSE
  /\ signedIn = [d \in Devices |-> FALSE]
  /\ userProperties = [d \in Devices |-> None]
  /\ writes = [d \in Devices |-> <<>>]
  /\ gets = [d \in Devices |-> <<>>]
  /\ missed = [d \in Devices |-> FALSE]
  /\ pc = [d \in Devices |-> "idle"]
  /\ levelID = [d \in Devices |-> None]
  /\ completed = {} /\ completions = 0 /\ selections = 0 /\ launches = 0

-----------------------------------------------------------------------------
(* Signing in, and the cloud function that creates the document.           *)

\* The repository was made when the application started: nobody tells it that
\* there is a user now.
SignIn(d) ==
  /\ ~signedIn[d]
  /\ signedIn' = [signedIn EXCEPT ![d] = TRUE]
  /\ account' = TRUE
  /\ UNCHANGED <<document, userProperties, writes, gets, missed, pc, levelID, counts>>

\* The function may be called again for the same user: create() then fails.
CreateUser ==
  /\ account /\ document = None
  /\ document' = Default
  /\ UNCHANGED <<account, device, counts>>

\* The process ends, at any moment, and starts again: init asks for the
\* document when somebody is signed in.
Launch(d) ==
  /\ launches < MaxLaunches
  /\ launches' = launches + 1
  /\ userProperties' = [userProperties EXCEPT ![d] = None]
  /\ gets' = [gets EXCEPT ![d] = IF signedIn[d] THEN <<Awaited>> ELSE <<>>]
  /\ missed' = [missed EXCEPT ![d] = FALSE]
  /\ pc' = [pc EXCEPT ![d] = "idle"]
  /\ UNCHANGED <<document, account, signedIn, writes, levelID, completed,
                 completions, selections>>

-----------------------------------------------------------------------------
(* Firestore: per device, updates reach the server and documents arrive in *)
(* order, and a document shows the updates of its device that are on their *)
(* way.                                                                    *)

CommitWrite(d) ==
  /\ writes[d] # <<>>
  /\ document' = Head(writes[d])
  /\ writes' = [writes EXCEPT ![d] = Tail(@)]
  /\ UNCHANGED <<account, signedIn, userProperties, gets, missed, pc, levelID,
                 counts>>

\* What a device sees of the document.
Seen(d) == IF writes[d] = <<>> THEN document ELSE writes[d][Len(writes[d])]

Answer(d, answer) ==
  \E k \in DOMAIN gets[d] :
    /\ gets[d][k] = Awaited
    /\ \A j \in 1 .. k - 1 : gets[d][j] # Awaited
    /\ gets' = [gets EXCEPT ![d][k] = answer]
    /\ UNCHANGED <<document, account, signedIn, userProperties, writes, missed, pc,
                   levelID, counts>>

AnswerGet(d) == Answer(d, Seen(d))

\* An error, or a document that cannot be decoded.
FailGet(d) == Answer(d, None)

\* Mutant: every document is asked for again when it arrives.
DeliverGetAgain(d) ==
  /\ gets[d] # <<>> /\ Head(gets[d]) # Awaited
  /\ userProperties' = [userProperties EXCEPT ![d] =
                          IF Head(gets[d]) = None THEN @ ELSE Head(gets[d])]
  /\ missed' = [missed EXCEPT ![d] = Head(gets[d]) = None]
  /\ gets' = [gets EXCEPT ![d] = Append(Tail(@), Awaited)]
  /\ UNCHANGED <<document, account, signedIn, writes, pc, levelID, counts>>

\* The completion handler of getDocument: without a document it does nothing.
DeliverGet(d) ==
  /\ gets[d] # <<>> /\ Head(gets[d]) # Awaited
  /\ userProperties' = [userProperties EXCEPT ![d] =
                          IF Head(gets[d]) = None THEN @ ELSE Head(gets[d])]
  /\ missed' = [missed EXCEPT ![d] = Head(gets[d]) = None]
  /\ gets' = [gets EXCEPT ![d] = Tail(@)]
  /\ UNCHANGED <<document, account, signedIn, writes, pc, levelID, counts>>

-----------------------------------------------------------------------------
(* The operations of the repository.                                       *)

\* saveUserPropertiesToServer.
Save(d, properties) ==
  /\ writes' = [writes EXCEPT ![d] = Append(@, properties)]
  /\ gets' = [gets EXCEPT ![d] = Append(@, Awaited)]

\* Mutant: one level too few is enough.
SelectAlmostUnlocked(d, c) ==
  LET properties == [userProperties[d] EXCEPT !.SelectedCharacter = c]
  IN  /\ selections < MaxSelections
      /\ userProperties[d] # None
      /\ userProperties[d].SelectedCharacter # c
      /\ LevelsRequired[c] <= Len(userProperties[d].CompletedLevels) + 1
      /\ userProperties' = [userProperties EXCEPT ![d] = properties]
      /\ Save(d, properties)
      /\ selections' = selections + 1
      /\ UNCHANGED <<document, account, signedIn, missed, pc, levelID, completed,
                     completions, launches>>

\* selectCharacter of the characters screen, and setUserSelectedCharacter.
SelectCharacter(d, c) ==
  LET properties == [userProperties[d] EXCEPT !.SelectedCharacter = c]
  IN  /\ selections < MaxSelections
      /\ userProperties[d] # None
      /\ userProperties[d].SelectedCharacter # c
      /\ LevelsRequired[c] <= Len(userProperties[d].CompletedLevels)
      /\ userProperties' = [userProperties EXCEPT ![d] = properties]
      /\ Save(d, properties)
      /\ selections' = selections + 1
      /\ UNCHANGED <<document, account, signedIn, missed, pc, levelID, completed,
                     completions, launches>>

InCompleted(d, l) ==
  \E k \in DOMAIN userProperties[d].CompletedLevels :
    userProperties[d].CompletedLevels[k] = l

\* Mutant: the properties are taken to be there.
AddToAnyProperties(d, l) ==
  /\ completions < MaxCompletions
  /\ signedIn[d] /\ pc[d] = "idle"
  /\ completions' = completions + 1
  /\ completed' = completed \cup {l}
  /\ IF userProperties[d] # None /\ InCompleted(d, l)
     THEN UNCHANGED <<pc, levelID>>
     ELSE /\ pc' = [pc EXCEPT ![d] = "append"]
          /\ levelID' = [levelID EXCEPT ![d] = l]
  /\ UNCHANGED <<document, account, signedIn, userProperties, writes, gets, missed,
                 selections, launches>>

\* addCompletedLevel, first step: a level that is already there, or properties
\* that are not there, end it.
AddCompletedLevel(d, l) ==
  /\ completions < MaxCompletions
  /\ signedIn[d] /\ pc[d] = "idle"
  /\ completions' = completions + 1
  /\ completed' = completed \cup {l}
  /\ IF userProperties[d] = None \/ InCompleted(d, l)
     THEN UNCHANGED <<pc, levelID>>
     ELSE /\ pc' = [pc EXCEPT ![d] = "append"]
          /\ levelID' = [levelID EXCEPT ![d] = l]
  /\ UNCHANGED <<document, account, signedIn, userProperties, writes, gets, missed,
                 selections, launches>>

\* Mutant: the level is appended, and nobody saves it.
AppendWithoutSave(d) ==
  /\ pc[d] = "append"
  /\ userProperties' =
       [userProperties EXCEPT ![d].CompletedLevels = Append(@, levelID[d])]
  /\ pc' = [pc EXCEPT ![d] = "idle"]
  /\ UNCHANGED <<document, account, signedIn, writes, gets, missed, levelID, counts>>

AppendLevel(d) ==
  /\ pc[d] = "append"
  /\ userProperties' =
       [userProperties EXCEPT ![d].CompletedLevels = Append(@, levelID[d])]
  /\ pc' = [pc EXCEPT ![d] = "save"]
  /\ UNCHANGED <<document, account, signedIn, writes, gets, missed, levelID, counts>>

\* What is saved is the object of this moment.
SaveLevel(d) ==
  /\ pc[d] = "save"
  /\ Save(d, userProperties[d])
  /\ pc' = [pc EXCEPT ![d] = "idle"]
  /\ UNCHANGED <<document, account, signedIn, userProperties, missed, levelID, counts>>

-----------------------------------------------------------------------------

Next ==
  \/ CreateUser
  \/ \E d \in Devices :
       \/ SignIn(d) \/ Launch(d)
       \/ CommitWrite(d) \/ AnswerGet(d) \/ FailGet(d) \/ DeliverGet(d)
       \/ \E c \in Characters : SelectCharacter(d, c)
       \/ \E l \in Levels : AddCompletedLevel(d, l)
       \/ AppendLevel(d) \/ SaveLevel(d)

\* The network delivers and the threads run; nobody has to play.
Fairness ==
  /\ WF_vars(CreateUser)
  /\ \A d \in Devices :
       /\ WF_vars(CommitWrite(d)) /\ WF_vars(AnswerGet(d))
       /\ WF_vars(DeliverGet(d)) /\ WF_vars(AppendLevel(d)) /\ WF_vars(SaveLevel(d))

Spec == Init /\ [][Next]_vars /\ Fairness

-----------------------------------------------------------------------------
(* Properties.                                                             *)

Optional == Properties \cup {None}
Answers  == Optional \cup {Awaited}

TypeOK ==
  /\ document \in Optional /\ account \in BOOLEAN
  /\ signedIn \in [Devices -> BOOLEAN]
  /\ userProperties \in [Devices -> Optional]
  /\ writes \in [Devices -> Seq(Properties)]
  /\ gets \in [Devices -> Seq(Answers)]
  /\ missed \in [Devices -> BOOLEAN]
  /\ pc \in [Devices -> {"idle", "append", "save"}]
  /\ \A d \in Devices : pc[d] # "idle" => userProperties[d] # None
  /\ levelID \in [Devices -> Levels \cup {None}]
  /\ \A d \in Devices : pc[d] = "append" => levelID[d] \in Levels
  /\ completed \subseteq Levels
  /\ completions \in Nat /\ selections \in Nat /\ launches \in Nat

EarnedBy(properties) ==
  properties \notin {None, Awaited} =>
    LevelsRequired[properties.SelectedCharacter]
      <= Len(properties.CompletedLevels)

\* The character of a user is never one the completed levels beside it do not
\* unlock, wherever a copy of the document is: whole documents overwrite whole
\* documents, so that a lost level takes the character it paid for with it.
SelectionEarned ==
  /\ EarnedBy(document)
  /\ \A d \in Devices :
       /\ EarnedBy(userProperties[d])
       /\ \A k \in DOMAIN writes[d] : EarnedBy(writes[d][k])
       /\ \A k \in DOMAIN gets[d] : EarnedBy(gets[d][k])

Settled(d) == writes[d] = <<>> /\ gets[d] = <<>> /\ pc[d] = "idle"

\* Once everything it asked for has arrived, and the last read has not failed, the
\* only device of a user shows what the server has, whatever was replaced under the
\* background thread and whichever earlier reads failed on the way.  After a read
\* that fails an older answer may stay in memory: nothing asks again.
MemoryConverges ==
  \A d \in Devices :
    /\ Settled(d) /\ ~missed[d] /\ userProperties[d] # None
    /\ \A e \in Devices \ {d} : ~signedIn[e]
    => userProperties[d] = document

\* Every device comes to rest, unless somebody goes on playing.
Settles == \A d \in Devices : []<>Settled(d)

-----------------------------------------------------------------------------
(* What the code and the documentation say, and what does not happen.      *)

Recorded(l) ==
  document # None /\ \E k \in DOMAIN document.CompletedLevels :
                        document.CompletedLevels[k] = l

\* GameUISplitViewController.swift:160: "Mark level as completed".
CompletedLevelsRecorded ==
  (\A d \in Devices : Settled(d)) => \A l \in completed : Recorded(l)

\* License.tex:545: data changes of a device "are going to be cached and then
\* synced".  A change of one device is not to undo what another has recorded.
RecordedStays ==
  [][\A l \in Levels : Recorded(l) => Recorded(l)']_vars

=============================================================================
