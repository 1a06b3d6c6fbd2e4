--------------------------- MODULE PageSessionProofs ---------------------------
(***************************************************************************)
(* Theorems about a game with its page, for every set of programs: the     *)
(* session that the page drives is a GameSession, whose theorems hold of   *)
(* it; its buttons silence every thread there was; a message names its     *)
(* block; the ship is where the posted instructions lead to; and threads   *)
(* post what their scripts mean.                                           *)
(***************************************************************************)
EXTENDS PageSession, GameSessionProofs, FoldLemmas, SequenceTheorems

-----------------------------------------------------------------------------
(* Programs, sets of numbers and stacks.                                   *)

Ids    == DOMAIN program.blocks
Frames == [block: Ids \cup {Null}, loopCounter: Int, isLoop: BOOLEAN]

\* Only the top of a stack may be an empty branch.
Stacks == {s \in Seq(Frames) : \A k \in 1 .. Len(s) - 1 : s[k].block # Null}

LEMMA ProgramFacts ==
  ASSUME program \in Programs
  PROVE  /\ Null \notin Ids
         /\ program.scripts \in Seq(Ids)
         /\ \A b \in Ids :
              /\ program.blocks[b].op \in Moves \cup Turns \cup ControlOps
              /\ program.blocks[b].next \in Ids \cup {Null}
              /\ program.blocks[b].branch \in Ids \cup {Null}
              /\ program.blocks[b].other \in Ids \cup {Null}
              /\ program.blocks[b].times \in Nat
  BY ProgramsAssumption DEF IsProgram, Ids

LEMMA LowestOf ==
  ASSUME NEW S \in SUBSET Nat, S # {}
  PROVE  Lowest(S) \in S /\ \A l \in S : Lowest(S) <= l
<1>1. \E k \in S : \A l \in S : k <= l
  BY LeastNatural
<1>2. QED
  BY <1>1 DEF Lowest

LEMMA HighestOf ==
  ASSUME NEW n \in Nat, NEW S \in SUBSET (1 .. n), S # {}
  PROVE  Highest(S) \in S /\ \A l \in S : Highest(S) >= l
<1> DEFINE T == {n - k : k \in S}
<1>0. \A k \in S : k \in 1 .. n /\ n - k \in Nat
  OBVIOUS
<1>1. T \in SUBSET Nat /\ T # {}
  BY <1>0
<1>2. PICK j \in T : \A i \in T : j <= i
  BY <1>1, LeastNatural
<1>3. PICK k \in S : j = n - k
  OBVIOUS
<1>4. ASSUME NEW l \in S PROVE k >= l
  <2>1. n - l \in T
    OBVIOUS
  <2>2. l \in 1 .. n /\ k \in 1 .. n
    BY <1>0
  <2>3. n - k <= n - l
    BY <1>2, <1>3, <2>1, Zenon
  <2>4. QED
    BY <2>2, <2>3
<1>5. QED
  BY <1>4 DEF Highest

\* A stack cut at level k, with or without another frame there.
LEMMA Cut ==
  ASSUME NEW s \in Stacks, NEW k \in 1 .. Len(s), NEW f \in Frames
  PROVE  /\ Append(SubSeq(s, 1, k - 1), f) \in Stacks
         /\ Append(SubSeq(s, 1, k - 1), f) # <<>>
         /\ SubSeq(s, 1, k) \in Stacks
         /\ SubSeq(s, 1, k - 1) \in Stacks
<1>0. s \in Seq(Frames) /\ Len(s) \in Nat /\ k \in Nat \ {0} /\ k <= Len(s)
  BY DEF Stacks
<1>1. ASSUME NEW n \in 0 .. Len(s)
      PROVE  /\ SubSeq(s, 1, n) \in Seq(Frames) /\ Len(SubSeq(s, 1, n)) = n
             /\ \A i \in 1 .. n : SubSeq(s, 1, n)[i] = s[i]
  BY <1>0
<1>2. ASSUME NEW n \in 0 .. Len(s) PROVE SubSeq(s, 1, n) \in Stacks
  <2> DEFINE u == SubSeq(s, 1, n)
  <2>1. u \in Seq(Frames) /\ Len(u) = n /\ \A i \in 1 .. n : u[i] = s[i]
    BY <1>1
  <2>2. \A i \in 1 .. n - 1 : i \in 1 .. n /\ s[i].block # Null
    BY <1>0 DEF Stacks
  <2>3. \A i \in 1 .. Len(u) - 1 : u[i].block # Null
    BY <2>1, <2>2
  <2>4. u \in Stacks
    <3> HIDE DEF u
    <3> QED  BY <2>1, <2>3 DEF Stacks
  <2>5. QED
    BY <2>4
<1>3. k \in 0 .. Len(s) /\ k - 1 \in 0 .. Len(s)
  BY <1>0
<1> DEFINE u == SubSeq(s, 1, k - 1)
<1>4. u \in Seq(Frames) /\ Len(u) = k - 1 /\ \A i \in 1 .. k - 1 : u[i] = s[i]
  BY <1>1, <1>3
<1>5. Append(u, f) \in Stacks /\ Append(u, f) # <<>>
  <2> HIDE DEF u
  <2>1. /\ Append(u, f) \in Seq(Frames) /\ Len(Append(u, f)) = k
        /\ \A i \in 1 .. k - 1 : Append(u, f)[i] = s[i]
    BY <1>0, <1>4
  <2>2. \A i \in 1 .. k - 1 : s[i].block # Null
    BY <1>0 DEF Stacks
  <2>3. Append(u, f) # <<>>
    BY <1>4
  <2>4. QED
    BY <2>1, <2>2, <2>3, <1>0 DEF Stacks
<1>6. QED
  BY <1>2, <1>3, <1>5

LEMMA FrameFacts ==
  ASSUME NEW s \in Stacks
  PROVE  /\ Len(s) \in Nat
         /\ \A k \in 1 .. Len(s) :
              /\ s[k].block \in Ids \cup {Null}
              /\ s[k].loopCounter \in Int /\ s[k].isLoop \in BOOLEAN
         /\ \A k \in 1 .. Len(s) - 1 : s[k].block \in Ids
         /\ \A b \in Ids \cup {Null} : Fresh(b) \in Frames
  <1>1. s \in Seq(Frames) /\ \A k \in 1 .. Len(s) - 1 : s[k].block # Null
    BY DEF Stacks
  <1>2. \A k \in 1 .. Len(s) : s[k] \in Frames
    BY <1>1
  <1>3. \A k \in 1 .. Len(s) - 1 : k \in 1 .. Len(s)
    BY <1>1
  <1>4. QED
    BY <1>1, <1>2, <1>3 DEF Frames, Fresh, Unset

LEMMA UnwoundType ==
  ASSUME program \in Programs, NEW s \in Stacks
  PROVE  Unwound(s) \in Stacks
<1> DEFINE levels == {k \in 1 .. Len(s) - 1 :
                        s[k].isLoop \/ NextOf(s[k].block) # Null}
           k == Highest(levels)
<1>1. CASE levels = {}
  BY <1>1 DEF Unwound, Stacks
<1>2. CASE levels # {}
  <2>1. Len(s) - 1 \in Nat /\ levels \in SUBSET (1 .. Len(s) - 1)
    BY <1>2, FrameFacts
  <2>2. k \in levels
    BY <1>2, <2>1, HighestOf
  <2>3. k \in 1 .. Len(s) /\ s[k].block \in Ids
        /\ (s[k].isLoop \/ NextOf(s[k].block) # Null)
    BY <2>1, <2>2, FrameFacts
  <2>4. NextOf(s[k].block) \in Ids \cup {Null}
    BY <2>3, ProgramFacts DEF NextOf
  <2>5. Fresh(NextOf(s[k].block)) \in Frames
    BY <2>4, FrameFacts
  <2>6. /\ Append(SubSeq(s, 1, k - 1), Fresh(NextOf(s[k].block))) \in Stacks
        /\ SubSeq(s, 1, k) \in Stacks
    BY <2>3, <2>5, Cut
  <2>7. Unwound(s) = IF s[k].isLoop THEN SubSeq(s, 1, k)
                     ELSE Append(SubSeq(s, 1, k - 1), Fresh(NextOf(s[k].block)))
    BY <1>2 DEF Unwound
  <2>8. QED
    BY <2>6, <2>7
<1>3. QED
  BY <1>1, <1>2

LEMMA TopFacts ==
  ASSUME NEW s \in Stacks, s # <<>>
  PROVE  /\ Len(s) \in 1 .. Len(s)
         /\ Top(s).block \in Ids \cup {Null}
         /\ Top(s).loopCounter \in Int /\ Top(s).isLoop \in BOOLEAN
         /\ s[1].block \in Ids \cup {Null}
         /\ Below(s) \in Stacks
         /\ \A f \in Frames : /\ Append(Below(s), f) \in Stacks
                              /\ Append(Below(s), f) # <<>>
                              /\ Len(Append(Below(s), f)) = Len(s)
                              /\ Top(Append(Below(s), f)) = f
<1>1. s \in Seq(Frames) /\ Len(s) \in Nat \ {0}
  BY DEF Stacks
<1>2. Len(s) \in 1 .. Len(s) /\ 1 \in 1 .. Len(s)
  BY <1>1
<1>3. Below(s) \in Stacks
      /\ \A f \in Frames : Append(Below(s), f) \in Stacks
                           /\ Append(Below(s), f) # <<>>
  <2>1. \E f : f \in Frames
    BY <1>1, <1>2
  <2>2. QED
    BY <1>2, <2>1, Cut DEF Below
<1>4. ASSUME NEW f \in Frames
      PROVE  Len(Append(Below(s), f)) = Len(s) /\ Top(Append(Below(s), f)) = f
  <2>0. \A n \in 0 .. Len(s) :
          SubSeq(s, 1, n) \in Seq(Frames) /\ Len(SubSeq(s, 1, n)) = n
    BY <1>1
  <2>1. Below(s) \in Seq(Frames) /\ Len(Below(s)) = Len(s) - 1
    <3>1. Len(s) - 1 \in 0 .. Len(s)
      BY <1>1
    <3>2. QED
      BY <2>0, <3>1, Zenon DEF Below
  <2>2. \A u \in Seq(Frames) : /\ Len(Append(u, f)) = Len(u) + 1
                               /\ Append(u, f)[Len(u) + 1] = f
    OBVIOUS
  <2>3. Len(Append(Below(s), f)) = Len(s)
    BY <1>1, <2>1, <2>2
  <2>4. Append(Below(s), f)[Len(s)] = f
    BY <1>1, <2>1, <2>2
  <2>5. QED
    BY <2>3, <2>4 DEF Top
<1>5. QED
  BY <1>2, <1>3, <1>4, FrameFacts DEF Top

LEMMA GoToType ==
  ASSUME program \in Programs, NEW s \in Stacks, s # <<>>, NEW b \in Ids \cup {Null}
  PROVE  GoTo(s, b) \in Stacks
<1>1. Append(Below(s), Fresh(b)) \in Stacks
  BY FrameFacts, TopFacts
<1>2. QED
  BY <1>1, UnwoundType DEF GoTo

LEMMA EnterType ==
  ASSUME program \in Programs, NEW s \in Stacks, s # <<>>, Top(s).block # Null,
         NEW b \in Ids \cup {Null}
  PROVE  Enter(s, b) \in Stacks
<1> DEFINE u == Append(s, Fresh(b))
<1>1. s \in Seq(Frames) /\ Len(s) \in Nat \ {0} /\ Fresh(b) \in Frames
  BY FrameFacts DEF Stacks
<1>2. u \in Seq(Frames) /\ Len(u) = Len(s) + 1 /\ \A k \in 1 .. Len(s) : u[k] = s[k]
  BY <1>1
<1>3. \A k \in 1 .. Len(s) : s[k].block # Null
  <2>1. \A k \in 1 .. Len(s) : k = Len(s) \/ k \in 1 .. Len(s) - 1
    BY <1>1
  <2>2. QED
    BY <2>1 DEF Stacks, Top
<1>4. \A k \in 1 .. Len(u) - 1 : u[k].block # Null
  BY <1>1, <1>2, <1>3
<1>5. u \in Stacks
  <2> HIDE DEF u
  <2> QED  BY <1>2, <1>4 DEF Stacks
<1>6. QED
  BY <1>5, UnwoundType DEF Enter

LEMMA LoopedType ==
  ASSUME program \in Programs, NEW s \in Stacks, s # <<>>, Top(s).block \in Ids
  PROVE  Looped(s) \in Stacks
<1> DEFINE f == Top(s)
           block == program.blocks[f.block]
           left == (IF f.loopCounter = Unset THEN Rounds(block) ELSE f.loopCounter) - 1
           frame == [f EXCEPT !.loopCounter = left, !.isLoop = TRUE]
           u == Append(Below(s), frame)
<1>1. /\ block.branch \in Ids \cup {Null} /\ block.next \in Ids \cup {Null}
      /\ block.times \in Nat /\ Null \notin Ids
  BY ProgramFacts
<1>2. left \in Int
  BY <1>1, TopFacts, ForeverAssumption DEF Rounds
<1>3. f \in Frames
  BY TopFacts DEF Stacks, Top
<1>4. frame \in Frames /\ frame.block = f.block
  BY <1>2, <1>3 DEF Frames
<1>5. u \in Stacks /\ u # <<>> /\ Top(u) = frame
  BY <1>4, TopFacts
<1>6. Top(u).block # Null
  BY <1>1, <1>4, <1>5
<1>7. Enter(u, block.branch) \in Stacks
  BY <1>1, <1>5, <1>6, EnterType
<1>8. GoTo(s, block.next) \in Stacks
  BY <1>1, GoToType
<1>9. QED
  BY <1>7, <1>8 DEF Looped

LEMMA ResumedType ==
  ASSUME program \in Programs, NEW s \in Stacks, s # <<>>, Top(s).block # Null
  PROVE  Resumed(s) \in Stacks /\ Resumed(s) # <<>>
<1> DEFINE levels == {k \in DOMAIN s : \/ NextOf(s[k].block) # Null
                                       \/ k = 1
                                       \/ k > 1 /\ s[k - 1].isLoop}
           k == Highest(levels)
<1>1. s \in Seq(Frames) /\ Len(s) \in Nat \ {0} /\ DOMAIN s = 1 .. Len(s)
  BY DEF Stacks
<1>2. 1 \in levels /\ levels \in SUBSET (1 .. Len(s))
  BY <1>1
<1>3. k \in 1 .. Len(s)
  <2>1. levels # {} /\ Len(s) \in Nat
    BY <1>1, <1>2
  <2> HIDE DEF levels
  <2>2. k \in levels
    BY <1>2, <2>1, HighestOf
  <2>3. QED
    BY <1>2, <2>2
<1>4. s[k].block \in Ids
  <2>1. k = Len(s) \/ k \in 1 .. Len(s) - 1
    BY <1>1, <1>3
  <2>2. QED
    BY <2>1, FrameFacts, TopFacts DEF Top
<1>5. Fresh(NextOf(s[k].block)) \in Frames
  BY <1>4, ProgramFacts, FrameFacts DEF NextOf
<1>6. QED
  BY <1>3, <1>5, Cut DEF Resumed

-----------------------------------------------------------------------------
(* Threads.                                                                *)

\* A thread that waits is at a wait block.
Threads ==
  {t \in [id: Nat \ {0}, place: Nat \ {0}, topBlock: Ids, stackClick: BOOLEAN,
          isKilled: BOOLEAN, promise: BOOLEAN, stack: Stacks] :
     t.promise /\ t.stack # <<>> => Top(t.stack).block # Null}

\* u is t at a later point, or stopped.
Later(t, u) ==
  /\ u.id = t.id /\ u.place = t.place /\ u.topBlock = t.topBlock
  /\ t.isKilled => u.isKilled

LEMMA ThreadFacts ==
  ASSUME NEW t \in Threads
  PROVE  /\ t.id \in Nat \ {0} /\ t.place \in Nat \ {0} /\ t.topBlock \in Ids
         /\ t.isKilled \in BOOLEAN /\ t.promise \in BOOLEAN /\ t.stack \in Stacks
         /\ t.promise /\ t.stack # <<>> => Top(t.stack).block # Null
  BY DEF Threads

LEMMA RetiredFacts ==
  ASSUME NEW t \in Threads
  PROVE  /\ Retired(t) \in Threads /\ Later(t, Retired(t))
         /\ Retired(t).isKilled /\ Retired(t).stack = <<>>
<1>1. <<>> \in Stacks
  BY DEF Stacks
<1>2. QED
  BY <1>1 DEF Threads, Retired, Later

LEMMA NewThreadFacts ==
  ASSUME program \in Programs, NEW id \in Nat \ {0}, NEW place \in Nat \ {0},
         NEW top \in Ids, NEW click \in BOOLEAN
  PROVE  LET t == NewThread(id, place, top, click)
         IN  /\ t \in Threads /\ t.id = id /\ t.place = place /\ t.topBlock = top
             /\ ~t.isKilled /\ t.stack # <<>>
<1>1. Fresh(top) \in Frames
  BY DEF Fresh, Frames, Unset
<1>2. <<Fresh(top)>> \in Stacks /\ <<Fresh(top)>> # <<>>
  BY <1>1 DEF Stacks
<1>3. QED
  BY <1>2 DEF Threads, NewThread

LEMMA SteppedFacts ==
  ASSUME NEW t \in Threads, NEW s \in Stacks
  PROVE  /\ LET u == [t EXCEPT !.stack = s]
            IN  /\ ~t.promise => u \in Threads
                /\ Later(t, u) /\ u.isKilled = t.isKilled /\ u.stack = s
                /\ u.promise = t.promise
         /\ LET u == [t EXCEPT !.promise = FALSE, !.stack = s]
            IN  /\ u \in Threads
                /\ Later(t, u) /\ u.isKilled = t.isKilled /\ u.stack = s
         /\ LET u == [t EXCEPT !.promise = TRUE]
            IN  /\ t.stack # <<>> /\ Top(t.stack).block # Null => u \in Threads
                /\ Later(t, u) /\ u.isKilled = t.isKilled /\ u.stack = t.stack
  BY DEF Threads, Later

LEMMA ForemostOf ==
  ASSUME NEW ts \in SUBSET Threads, ts # {}
  PROVE  Foremost(ts) \in ts
<1> DEFINE places == {t.place : t \in ts}
<1>1. places \in SUBSET Nat /\ places # {}
  BY ThreadFacts
<1>2. PICK k \in places : \A l \in places : k <= l
  BY <1>1, LeastNatural
<1>3. PICK t \in ts : t.place = k
  BY <1>2
<1>4. \A u \in ts : t.place <= u.place
  BY <1>2, <1>3
<1>5. QED
  BY <1>3, <1>4 DEF Foremost

LEMMA NextTurnOf ==
  ASSUME NEW ts \in SUBSET Threads, NEW place \in Nat
  PROVE  /\ NextTurn(ts, place) \in Nat
         /\ NextTurn(ts, place) # 0 =>
              \E t \in ts : /\ t.place = NextTurn(ts, place) /\ Runs(t)
                            /\ t.place > place
<1> DEFINE later == {t.place : t \in {u \in ts : u.place > place /\ Runs(u)}}
<1>1. later \in SUBSET Nat
  BY ThreadFacts
<1>2. CASE later = {}
  BY <1>2 DEF NextTurn
<1>3. CASE later # {}
  <2>1. Lowest(later) \in later
    <3> HIDE DEF later
    <3> QED  BY <1>1, <1>3, LowestOf
  <2>2. NextTurn(ts, place) = Lowest(later)
    BY <1>3 DEF NextTurn
  <2>3. QED
    BY <1>1, <2>1, <2>2
<1>4. QED
  BY <1>2, <1>3

-----------------------------------------------------------------------------
(* The list of threads.                                                    *)

VMTypeOK ==
  /\ program \in Programs
  /\ threads \in SUBSET Threads
  /\ turn \in Nat
  /\ scripts \in Seq(Ids)
  /\ started \in Seq(Ids)

Distinct == \A t, u \in threads : t.place = u.place => t = u

Numbered == \A t \in threads : t.id <= Len(started) /\ t.place <= Len(started)

\* During a pass there is a thread whose turn it is, and those that were stopped
\* have nothing left to run.
InTurn ==
  turn # 0 =>
    /\ scripts = <<>>
    /\ \E t \in threads : t.place = turn /\ Runs(t)
    /\ \A t \in threads : t.isKilled => t.stack = <<>>

MachineInv == VMTypeOK /\ Distinct /\ Numbered /\ InTurn

\* Every thread was there before.
Kept == \A u \in threads' : \E t \in threads : Later(t, u)

LEMMA SameProgram ==
  ASSUME program' = program
  PROVE  Ids' = Ids /\ Frames' = Frames /\ Stacks' = Stacks /\ Threads' = Threads
<1>1. Ids' = Ids
  BY DEF Ids
<1>2. Frames' = Frames
  BY <1>1 DEF Frames
<1>3. Stacks' = Stacks
  BY <1>2 DEF Stacks
<1>4. QED
  BY <1>1, <1>2, <1>3 DEF Threads

LEMMA CrtFacts ==
  ASSUME MachineInv, turn # 0
  PROVE  /\ Crt \in threads /\ Crt \in Threads /\ Crt.place = turn
         /\ Crt.stack # <<>> /\ Crt.stack \in Stacks
         /\ ~Crt.promise /\ ~Crt.isKilled
         /\ \A u \in Others : u \in threads /\ u.place # turn
<1>1. PICK t \in threads : t.place = turn /\ Runs(t)
  BY DEF MachineInv, InTurn
<1>2. Crt \in threads /\ Crt.place = turn
  BY <1>1 DEF Crt
<1>3. Crt = t
  BY <1>1, <1>2 DEF MachineInv, Distinct
<1>4. Crt.stack # <<>> /\ ~Crt.promise /\ ~Crt.isKilled
  BY <1>1, <1>3 DEF MachineInv, InTurn, Runs
<1>5. Crt \in Threads
  BY <1>2 DEF MachineInv, VMTypeOK
<1>6. \A u \in Others : u \in threads /\ u.place # turn
  BY <1>2 DEF Others, MachineInv, Distinct
<1>7. QED
  BY <1>2, <1>4, <1>5, <1>6, ThreadFacts

\* Threads that stay where they are, go on or are stopped.
LEMMA KeptKeeps ==
  ASSUME MachineInv, UNCHANGED <<program, started>>, Kept,
         threads' \in SUBSET Threads, Distinct',
         turn' \in Nat, scripts' \in Seq(Ids), InTurn'
  PROVE  MachineInv'
<1>1. Ids' = Ids /\ Threads' = Threads
  BY SameProgram
<1>2. VMTypeOK'
  BY <1>1 DEF MachineInv, VMTypeOK
<1>3. Numbered'
  BY DEF Kept, Later, MachineInv, Numbered
<1>4. QED
  BY <1>2, <1>3 DEF MachineInv

\* The other threads of a pass, some of them stopped.
LEMMA OthersFacts ==
  ASSUME MachineInv, turn # 0,
         NEW others, others = Others \/ others = {Retired(u) : u \in Others}
  PROVE  /\ others \in SUBSET Threads
         /\ \A u \in others : /\ u.place # turn
                              /\ u.isKilled => u.stack = <<>>
                              /\ \E t \in threads : Later(t, u)
         /\ \A u, w \in others : u.place = w.place => u = w
<1>1. threads \in SUBSET Threads /\ Distinct
      /\ \A u \in Others : /\ u \in threads /\ u \in Threads /\ u.place # turn
                           /\ u.isKilled => u.stack = <<>>
  BY CrtFacts DEF MachineInv, VMTypeOK, InTurn
<1>2. CASE others = Others
  BY <1>1, <1>2 DEF Distinct, Later
<1>3. CASE others = {Retired(u) : u \in Others}
  <2>1. \A u \in Others : /\ Retired(u) \in Threads /\ Later(u, Retired(u))
                          /\ Retired(u).stack = <<>>
    BY <1>1, RetiredFacts
  <2>2. \A w \in others : \E u \in Others : w = Retired(u)
    BY <1>3
  <2>3. \A u, w \in Others : Retired(u).place = Retired(w).place => u = w
    BY <1>1, <2>1 DEF Later, Distinct
  <2>4. \A u \in others : /\ u \in Threads /\ u.place # turn
                          /\ u.isKilled => u.stack = <<>>
                          /\ \E t \in threads : Later(t, u)
    BY <1>1, <2>1, <2>2 DEF Later
  <2>5. QED
    BY <2>2, <2>3, <2>4
<1>4. QED
  BY <1>2, <1>3

LEMMA ContinueKeeps ==
  ASSUME MachineInv, turn # 0,
         NEW t \in Threads, Later(Crt, t), t.isKilled => t.stack = <<>>,
         NEW others, others = Others \/ others = {Retired(u) : u \in Others},
         Continue(t, others), UNCHANGED <<program, scripts, started>>
  PROVE  MachineInv' /\ Kept
<1> DEFINE ts == others \cup {t}
           over == ~Runs(t) \/ Top(t.stack).isLoop
<1>1. t.place = turn /\ Crt \in threads /\ scripts = <<>> /\ turn \in Nat
  BY CrtFacts DEF Later, MachineInv, InTurn, VMTypeOK
<1>2. /\ turn' = IF over THEN NextTurn(ts, turn) ELSE turn
      /\ threads' = IF turn' # 0 THEN ts ELSE {u \in ts : u.stack # <<>>}
  BY DEF Continue
<1>3. ts \in SUBSET Threads /\ \A u, w \in ts : u.place = w.place => u = w
  BY <1>1, OthersFacts
<1>4. \A u \in ts : u.isKilled => u.stack = <<>>
  BY OthersFacts
<1>5. threads' \subseteq ts
  BY <1>2
<1>6. Kept
  BY <1>1, <1>5, OthersFacts DEF Kept
<1>7. turn' \in Nat /\ (turn' # 0 => \E u \in ts : u.place = turn' /\ Runs(u))
  BY <1>1, <1>2, <1>3, NextTurnOf
<1>8. InTurn'
  <2>1. SUFFICES ASSUME turn' # 0
                 PROVE  /\ scripts' = <<>>
                        /\ \E u \in threads' : u.place = turn' /\ Runs(u)
                        /\ \A u \in threads' : u.isKilled => u.stack = <<>>
    BY DEF InTurn, Runs
  <2>2. threads' = ts
    BY <1>2, <2>1
  <2>3. QED
    BY <1>1, <1>4, <1>7, <2>1, <2>2
<1>9. Distinct' /\ threads' \in SUBSET Threads
  BY <1>3, <1>5 DEF Distinct
<1>10. scripts' \in Seq(Ids)
  BY DEF MachineInv, VMTypeOK
<1>11. QED
  BY <1>6, <1>7, <1>8, <1>9, <1>10, KeptKeeps

\* A block is executed.
LEMMA StepKeeps ==
  ASSUME MachineInv, StepThread
  PROVE  MachineInv' /\ Kept
<1>1. turn # 0 /\ program \in Programs /\ UNCHANGED <<program, scripts, started>>
  BY DEF StepThread, StepEmptyBranch, StepInstruction, StepControl, StepWait,
         StepStop, AtBlock, MachineInv, VMTypeOK
<1> DEFINE stack == Crt.stack
<1>2. /\ Crt \in threads /\ Crt \in Threads /\ stack \in Stacks /\ stack # <<>>
      /\ ~Crt.promise /\ ~Crt.isKilled /\ Crt.place = turn
      /\ Top(stack).block \in Ids \cup {Null} /\ Below(stack) \in Stacks
  BY <1>1, CrtFacts, TopFacts
<1>3. ASSUME NEW s \in Stacks
      PROVE  /\ WithStack(s) \in Threads /\ Later(Crt, WithStack(s))
             /\ ~WithStack(s).isKilled /\ WithStack(s).stack = s
             /\ ~WithStack(s).promise
  BY <1>2, SteppedFacts DEF WithStack
<1>4. ASSUME NEW s \in Stacks, NEW others,
             others = Others \/ others = {Retired(u) : u \in Others},
             Continue(WithStack(s), others)
      PROVE  MachineInv' /\ Kept
  BY <1>1, <1>3, <1>4, ContinueKeeps
<1>5. AtBlock => /\ Top(stack).block \in Ids /\ Top(stack).block # Null
                 /\ CrtBlock.next \in Ids \cup {Null}
                 /\ CrtBlock.branch \in Ids \cup {Null}
                 /\ CrtBlock.other \in Ids \cup {Null}
  BY <1>1, <1>2, ProgramFacts DEF AtBlock, CrtBlock
<1>6. AtBlock => GoTo(stack, CrtBlock.next) \in Stacks
  BY <1>1, <1>2, <1>5, GoToType
<1>7. CASE StepEmptyBranch
  <2> DEFINE s == Below(stack)
             t == WithStack(s)
  <2>1. CASE s = <<>>
    BY <1>2, <1>4, <1>7, <2>1 DEF StepEmptyBranch
  <2>2. CASE s # <<>>
    <3>1. threads' = Others \cup {t} /\ turn' = turn
      BY <1>7, <2>2 DEF StepEmptyBranch
    <3>2. t \in Threads /\ Later(Crt, t) /\ Runs(t) /\ t.place = turn /\ ~t.isKilled
      BY <1>2, <1>3, <2>2 DEF Runs, Later
    <3>3. Kept
      <4>1. \A u \in Others : \E v \in threads : Later(v, u)
        BY <1>1, OthersFacts
      <4>2. \A u \in threads' : u \in Others \/ u = t
        BY <3>1
      <4>3. QED
        BY <1>2, <3>2, <4>1, <4>2 DEF Kept
    <3>4. Distinct' /\ threads' \in SUBSET Threads
      BY <1>1, <3>1, <3>2, OthersFacts DEF Distinct
    <3>5. InTurn'
      BY <1>1, <3>1, <3>2, OthersFacts DEF MachineInv, InTurn, Runs
    <3>6. turn' \in Nat /\ scripts' \in Seq(Ids)
      BY <1>1, <3>1 DEF MachineInv, VMTypeOK
    <3>7. QED
      BY <1>1, <3>3, <3>4, <3>5, <3>6, KeptKeeps
  <2>3. QED
    BY <2>1, <2>2
<1>8. CASE StepInstruction
  BY <1>4, <1>6, <1>8 DEF StepInstruction
<1>9. CASE StepControl
  <2> DEFINE s == CASE CrtBlock.op \in Loops -> Looped(stack)
                    [] CrtBlock.op = "if"  -> Enter(stack, Chosen(CrtBlock))
                    [] CrtBlock.op = "hat" -> GoTo(stack, CrtBlock.next)
  <2>1. AtBlock /\ Continue(WithStack(s), Others)
    BY <1>9 DEF StepControl
  <2>2. CASE CrtBlock.op \in Loops
    <3>1. Looped(stack) \in Stacks
      BY <1>1, <1>2, <1>5, <2>1, LoopedType
    <3>2. s = Looped(stack)
      BY <2>2 DEF Loops
    <3>3. QED
      BY <1>4, <2>1, <3>1, <3>2
  <2>3. CASE CrtBlock.op = "if"
    <3>1. Chosen(CrtBlock) \in Ids \cup {Null}
      BY <1>5, <2>1 DEF Chosen
    <3>2. Enter(stack, Chosen(CrtBlock)) \in Stacks
      BY <1>1, <1>2, <1>5, <2>1, <3>1, EnterType
    <3>3. s = Enter(stack, Chosen(CrtBlock))
      BY <2>3 DEF Loops
    <3>4. QED
      BY <1>4, <2>1, <3>2, <3>3
  <2>4. CASE CrtBlock.op = "hat"
    <3>1. s = GoTo(stack, CrtBlock.next)
      BY <2>4 DEF Loops
    <3>2. QED
      BY <1>4, <1>6, <2>1, <3>1
  <2>5. QED
    BY <1>9, <2>2, <2>3, <2>4 DEF StepControl
<1>10. CASE StepWait
  <2> DEFINE t == [Crt EXCEPT !.promise = TRUE]
  <2>1. t \in Threads /\ Later(Crt, t) /\ ~t.isKilled
    BY <1>2, <1>5, <1>10, SteppedFacts DEF StepWait
  <2>2. Continue(t, Others)
    BY <1>10 DEF StepWait
  <2>3. QED
    BY <1>1, <2>1, <2>2, ContinueKeeps
<1>11. CASE StepStop
  <2> DEFINE silenced == {Retired(u) : u \in Others}
  <2>1. CASE Continue(Retired(Crt), silenced)
    <3>1. Retired(Crt) \in Threads /\ Later(Crt, Retired(Crt))
          /\ Retired(Crt).stack = <<>>
      BY <1>2, RetiredFacts
    <3>2. QED
      BY <1>1, <2>1, <3>1, ContinueKeeps
  <2>2. CASE Continue(WithStack(<<>>), Others)
    <3>1. <<>> \in Stacks
      BY DEF Stacks
    <3>2. QED
      BY <1>4, <2>2, <3>1
  <2>3. CASE Continue(WithStack(GoTo(stack, CrtBlock.next)), silenced)
    BY <1>4, <1>6, <1>11, <2>3 DEF StepStop
  <2>4. QED
    BY <1>11, <2>1, <2>2, <2>3 DEF StepStop
<1>12. QED
  BY <1>7, <1>8, <1>9, <1>10, <1>11 DEF StepThread

\* A pass begins without the threads that were stopped.
LEMMA BeginPassKeeps ==
  ASSUME MachineInv, BeginPass
  PROVE  MachineInv' /\ Kept
<1>1. /\ threads' \subseteq threads /\ turn' = NextTurn(threads', 0)
      /\ \A t \in threads' : t \in threads /\ ~t.isKilled
      /\ scripts = <<>> /\ UNCHANGED <<program, started, scripts>>
  BY DEF BeginPass, Resting
<1>2. threads' \in SUBSET Threads /\ Distinct' /\ Kept
  BY <1>1 DEF MachineInv, VMTypeOK, Distinct, Kept, Later
<1>3. turn' \in Nat /\ (turn' # 0 => \E t \in threads' : t.place = turn' /\ Runs(t))
  BY <1>1, <1>2, NextTurnOf
<1>4. InTurn'
  BY <1>1, <1>3 DEF InTurn, Runs
<1>5. scripts' \in Seq(Ids)
  BY <1>1 DEF MachineInv, VMTypeOK
<1>6. QED
  BY <1>1, <1>2, <1>3, <1>4, <1>5, KeptKeeps

\* All threads are stopped.
LEMMA SilenceKeeps ==
  ASSUME MachineInv, turn = 0, turn' = turn, UNCHANGED <<program, started>>,
         scripts' \in Seq(Ids), threads' = {Retired(t) : t \in threads}
  PROVE  MachineInv' /\ Kept /\ \A t \in threads' : t.isKilled
<1>1. threads \in SUBSET Threads
  BY DEF MachineInv, VMTypeOK
<1>2. \A t \in threads : /\ Retired(t) \in Threads /\ Later(t, Retired(t))
                         /\ Retired(t).isKilled
  BY <1>1, RetiredFacts
<1>3. threads' \in SUBSET Threads /\ Kept /\ \A t \in threads' : t.isKilled
  BY <1>2 DEF Kept
<1>4. \A t, u \in threads : Retired(t).place = Retired(u).place => t = u
  BY <1>2 DEF MachineInv, Distinct, Later
<1>5. Distinct'
  BY <1>4 DEF Distinct
<1>6. InTurn'
  BY DEF InTurn
<1>7. turn' \in Nat
  OBVIOUS
<1>8. QED
  BY <1>3, <1>5, <1>6, <1>7, KeptKeeps

\* One thread goes on or is stopped between two passes.
LEMMA ChangeKeeps ==
  ASSUME MachineInv, turn = 0, turn' = turn, UNCHANGED <<program, started, scripts>>,
         NEW t \in threads, NEW u \in Threads, Later(t, u),
         threads' = (threads \ {t}) \cup {u}
  PROVE  MachineInv' /\ Kept
<1>1. threads' \in SUBSET Threads /\ Kept
  BY DEF MachineInv, VMTypeOK, Kept, Later
<1>2. Distinct'
  BY DEF MachineInv, Distinct, Later
<1>3. InTurn' /\ turn' \in Nat /\ scripts' \in Seq(Ids)
  BY DEF InTurn, MachineInv, VMTypeOK
<1>4. QED
  BY <1>1, <1>2, <1>3, KeptKeeps

\* A thread starts, at the end of the list or in the place of another.
LEMMA StartKeeps ==
  ASSUME MachineInv, turn = 0, turn' = turn, UNCHANGED program, scripts' \in Seq(Ids),
         NEW top \in Ids, NEW click \in BOOLEAN, started' = Append(started, top),
         NEW place \in 1 .. Len(started) + 1,
         NEW gone, \A t \in threads \ gone : t.place # place,
         threads' = (threads \ gone)
                      \cup {NewThread(Len(started) + 1, place, top, click)}
  PROVE  MachineInv'
<1> DEFINE n == Len(started)
           new == NewThread(n + 1, place, top, click)
<1>1. started \in Seq(Ids) /\ n \in Nat
  BY DEF MachineInv, VMTypeOK
<1>2. Len(started') = n + 1 /\ started' \in Seq(Ids)
  BY <1>1
<1>3. new \in Threads /\ new.id = n + 1 /\ new.place = place
  BY <1>1, NewThreadFacts DEF MachineInv, VMTypeOK
<1>4. VMTypeOK'
  BY <1>2, <1>3, SameProgram DEF MachineInv, VMTypeOK
<1>5. \A t \in threads : t.id \in Nat /\ t.place \in Nat /\ t.id <= n /\ t.place <= n
  BY ThreadFacts DEF MachineInv, VMTypeOK, Numbered
<1>6. Numbered'
  BY <1>1, <1>2, <1>3, <1>5 DEF Numbered
<1>7. Distinct'
  BY <1>3 DEF MachineInv, Distinct
<1>8. InTurn'
  BY DEF InTurn
<1>9. QED
  BY <1>4, <1>6, <1>7, <1>8 DEF MachineInv

-----------------------------------------------------------------------------
(* Who may post what.                                                      *)

Posts == [thread: Nat, m: Messages, at: Ids \cup {Null}, outer: Ids \cup {Null}]

\* Thread id started after the run or stop p, if it is one.
Outlives(id, p) ==
  /\ p.m.op = "stop" => id > p.thread
  /\ p.m.op = "run" => id > p.thread - Len(program.scripts)

SilenceInv ==
  /\ \A k \in DOMAIN posts : posts[k].thread <= Len(started)
  /\ \A t \in threads, k \in DOMAIN posts :
       ~t.isKilled => Outlives(t.id, posts[k])
  /\ scripts # <<>> =>
       /\ Len(scripts) <= Len(program.scripts)
       /\ \A t \in threads :
            ~t.isKilled =>
              t.id > Len(started) - (Len(program.scripts) - Len(scripts))
  /\ \A k, l \in DOMAIN posts :
       k < l /\ posts[l].m.op \in Moves \cup Turns =>
         Outlives(posts[l].thread, posts[k])

PageInv == MachineInv /\ posts \in Seq(Posts) /\ SilenceInv

Says(p) == posts' = Append(posts, p)

LEMMA SaysFacts ==
  ASSUME posts \in Seq(Posts), NEW p \in Posts, Says(p)
  PROVE  /\ posts' \in Seq(Posts)
         /\ DOMAIN posts' = DOMAIN posts \cup {Len(posts) + 1}
         /\ posts'[Len(posts) + 1] = p /\ posts'[Len(posts')] = p
         /\ Len(posts) \in Nat
         /\ \A k \in DOMAIN posts : posts'[k] = posts[k] /\ k \in Nat /\ k <= Len(posts)
  BY DEF Says

LEMMA PostFacts ==
  ASSUME posts \in Seq(Posts), program \in Programs
  PROVE  /\ \A k \in DOMAIN posts : posts[k].thread \in Nat
         /\ Len(program.scripts) \in Nat
         /\ \A p : p.m.op \in Moves \cup Turns => p.m.op \notin {"run", "stop"}
<1>1. \A k \in DOMAIN posts : posts[k] \in Posts
  OBVIOUS
<1>2. program.scripts \in Seq(Ids)
  BY ProgramFacts
<1>3. \A op : op \in Moves \cup Turns => op \notin {"run", "stop"}
  BY DEF Moves, Turns
<1>4. QED
  BY <1>1, <1>2, <1>3 DEF Posts

\* Nothing is posted.
LEMMA QuietSilence ==
  ASSUME PageInv, Kept, UNCHANGED <<program, scripts, started, posts>>
  PROVE  SilenceInv'
<1>1. \A k \in DOMAIN posts' : posts'[k].thread <= Len(started')
  BY DEF PageInv, SilenceInv
<1>2. ASSUME NEW u \in threads', NEW k \in DOMAIN posts', ~u.isKilled
      PROVE  Outlives(u.id, posts[k])'
  <2>1. PICK v \in threads : Later(v, u)
    BY DEF Kept
  <2>2. QED
    BY <1>2, <2>1 DEF PageInv, SilenceInv, Outlives, Later
<1>3. ASSUME scripts' # <<>>
      PROVE  /\ Len(scripts') <= Len(program'.scripts)
             /\ \A u \in threads' :
                  ~u.isKilled =>
                    u.id > Len(started') - (Len(program'.scripts) - Len(scripts'))
  <2>1. /\ Len(scripts) <= Len(program.scripts)
        /\ \A t \in threads :
             ~t.isKilled =>
               t.id > Len(started) - (Len(program.scripts) - Len(scripts))
    BY <1>3 DEF PageInv, SilenceInv
  <2>2. ASSUME NEW u \in threads', ~u.isKilled
        PROVE  u.id > Len(started) - (Len(program.scripts) - Len(scripts))
    <3>1. PICK t \in threads : Later(t, u)
      BY DEF Kept
    <3>2. QED
      BY <2>1, <2>2, <3>1 DEF Later
  <2>3. QED
    BY <2>1, <2>2
<1>4. ASSUME NEW k \in DOMAIN posts', NEW l \in DOMAIN posts', k < l,
             posts'[l].m.op \in Moves \cup Turns
      PROVE  Outlives(posts[l].thread, posts[k])'
  BY <1>4 DEF PageInv, SilenceInv, Outlives
<1>5. QED
  BY <1>1, <1>2, <1>3, <1>4 DEF SilenceInv

\* Every thread is stopped.
LEMMA StoppedSilence ==
  ASSUME PageInv, \A t \in threads' : t.isKilled, UNCHANGED <<program, started>>,
         scripts' # <<>> => Len(scripts') <= Len(program.scripts),
         \/ posts' = posts
         \/ \E p \in Posts : /\ Says(p) /\ p.thread = Len(started)
                             /\ p.m.op \notin Moves \cup Turns
  PROVE  SilenceInv'
<1>1. CASE posts' = posts
  BY <1>1 DEF PageInv, SilenceInv, Outlives
<1>2. ASSUME NEW p \in Posts, Says(p), p.thread = Len(started),
             p.m.op \notin Moves \cup Turns
      PROVE  SilenceInv'
  <2>1. /\ DOMAIN posts' = DOMAIN posts \cup {Len(posts) + 1}
        /\ posts'[Len(posts) + 1] = p
        /\ \A k \in DOMAIN posts : posts'[k] = posts[k] /\ k \in Nat /\ k <= Len(posts)
    BY <1>2, SaysFacts DEF PageInv
  <2>2. Len(started) \in Nat /\ Len(posts) \in Nat
    BY DEF PageInv, MachineInv, VMTypeOK
  <2>3. \A k \in DOMAIN posts' : posts'[k].thread <= Len(started')
    BY <1>2, <2>1, <2>2 DEF PageInv, SilenceInv
  <2>4. ASSUME NEW k \in DOMAIN posts', NEW l \in DOMAIN posts', k < l,
               posts'[l].m.op \in Moves \cup Turns
        PROVE  Outlives(posts[l].thread, posts[k])'
    <3>1. l # Len(posts) + 1
      BY <1>2, <2>1, <2>4
    <3>2. k \in DOMAIN posts /\ l \in DOMAIN posts
      BY <2>1, <2>2, <2>4, <3>1
    <3>3. QED
      BY <2>1, <2>4, <3>2 DEF PageInv, SilenceInv, Outlives
  <2>5. QED
    BY <2>3, <2>4 DEF SilenceInv
<1>3. QED
  BY <1>1, <1>2

\* A thread that goes on posts an instruction.
LEMMA SpokenSilence ==
  ASSUME PageInv, Kept, UNCHANGED <<program, scripts, started>>,
         NEW p \in Posts, Says(p), p.m.op \in Moves \cup Turns,
         NEW t \in threads, ~t.isKilled, p.thread = t.id
  PROVE  SilenceInv'
<1>1. /\ DOMAIN posts' = DOMAIN posts \cup {Len(posts) + 1}
      /\ posts'[Len(posts) + 1] = p
      /\ \A k \in DOMAIN posts : posts'[k] = posts[k] /\ k \in Nat /\ k <= Len(posts)
      /\ Len(posts) \in Nat
  BY SaysFacts DEF PageInv
<1>2. p.m.op \notin {"run", "stop"}
  BY PostFacts DEF PageInv, MachineInv, VMTypeOK
<1>3. \A k \in DOMAIN posts' : posts'[k].thread <= Len(started')
  BY <1>1 DEF PageInv, SilenceInv, MachineInv, Numbered
<1>4. ASSUME NEW u \in threads', NEW k \in DOMAIN posts', ~u.isKilled
      PROVE  Outlives(u.id, posts[k])'
  <2>1. PICK v \in threads : Later(v, u)
    BY DEF Kept
  <2>2. CASE k \in DOMAIN posts
    BY <1>1, <1>4, <2>1, <2>2 DEF PageInv, SilenceInv, Outlives, Later
  <2>3. CASE k = Len(posts) + 1
    BY <1>1, <1>2, <2>3 DEF Outlives
  <2>4. QED
    BY <1>1, <2>2, <2>3
<1>5. ASSUME NEW k \in DOMAIN posts', NEW l \in DOMAIN posts', k < l,
             posts'[l].m.op \in Moves \cup Turns
      PROVE  Outlives(posts[l].thread, posts[k])'
  <2>1. k \in DOMAIN posts
    BY <1>1, <1>5
  <2>2. CASE l \in DOMAIN posts
    BY <1>1, <1>5, <2>1, <2>2 DEF PageInv, SilenceInv, Outlives
  <2>3. CASE l = Len(posts) + 1
    BY <1>1, <2>1, <2>3 DEF PageInv, SilenceInv, Outlives
  <2>4. QED
    BY <1>1, <2>2, <2>3
<1>6. scripts' # <<>> =>
        /\ Len(scripts') <= Len(program'.scripts)
        /\ \A u \in threads' :
             ~u.isKilled =>
               u.id > Len(started') - (Len(program'.scripts) - Len(scripts'))
  BY DEF PageInv, SilenceInv, Kept, Later
<1>7. QED
  BY <1>3, <1>4, <1>5, <1>6 DEF SilenceInv

\* A click starts a thread.
LEMMA ClickedSilence ==
  ASSUME PageInv, UNCHANGED <<program, scripts, posts>>, scripts = <<>>,
         NEW top, started' = Append(started, top),
         \A u \in threads' : u \in threads \/ u.id = Len(started) + 1
  PROVE  SilenceInv'
<1>1. Len(started) \in Nat /\ Len(started') = Len(started) + 1
  BY DEF PageInv, MachineInv, VMTypeOK
<1>2. \A k \in DOMAIN posts : posts[k].thread \in Nat /\ Len(program.scripts) \in Nat
  BY PostFacts DEF PageInv, MachineInv, VMTypeOK
<1>3. \A k \in DOMAIN posts' : posts'[k].thread <= Len(started')
  BY <1>1, <1>2 DEF PageInv, SilenceInv
<1>4. ASSUME NEW u \in threads', NEW k \in DOMAIN posts', ~u.isKilled
      PROVE  Outlives(u.id, posts[k])'
  <2>1. CASE u \in threads
    BY <1>4, <2>1 DEF PageInv, SilenceInv, Outlives
  <2>2. CASE u.id = Len(started) + 1
    BY <1>1, <1>2, <2>2 DEF PageInv, SilenceInv, Outlives
  <2>3. QED
    BY <2>1, <2>2
<1>5. ASSUME NEW k \in DOMAIN posts', NEW l \in DOMAIN posts', k < l,
             posts'[l].m.op \in Moves \cup Turns
      PROVE  Outlives(posts[l].thread, posts[k])'
  BY <1>5 DEF PageInv, SilenceInv, Outlives
<1>6. QED
  BY <1>3, <1>4, <1>5 DEF SilenceInv

\* The green flag passes a script over.
LEMMA PastSilence ==
  ASSUME PageInv, UNCHANGED <<program, threads, started, posts>>,
         scripts # <<>>, scripts' = Tail(scripts)
  PROVE  SilenceInv'
<1> DEFINE n == Len(started)
           L == Len(program.scripts)
           m == Len(scripts)
<1>1. n \in Int /\ L \in Int /\ m \in Int /\ Len(scripts') = m - 1
  BY PostFacts DEF PageInv, MachineInv, VMTypeOK
<1>2. /\ m <= L
      /\ \A t \in threads : t.id \in Nat /\ (~t.isKilled => t.id > n - (L - m))
  BY ThreadFacts DEF PageInv, MachineInv, VMTypeOK, SilenceInv
<1>3. m - 1 <= L
  <2> HIDE DEF n, L, m
  <2> QED  BY <1>1, <1>2
<1>4. ASSUME NEW t \in threads, ~t.isKilled PROVE t.id > n - (L - (m - 1))
  <2>1. t.id \in Nat /\ t.id > n - (L - m)
    BY <1>2, <1>4, Zenon
  <2> HIDE DEF n, L, m
  <2>2. QED
    BY <1>1, <2>1
<1>5. /\ Len(scripts') <= Len(program'.scripts)
      /\ \A t \in threads' :
           ~t.isKilled =>
             t.id > Len(started') - (Len(program'.scripts) - Len(scripts'))
  BY <1>1, <1>3, <1>4
<1>6. QED
  BY <1>5 DEF PageInv, SilenceInv, Outlives

\* The green flag comes to a script that begins with a hat.
LEMMA HatSilence ==
  ASSUME PageInv, UNCHANGED program, scripts # <<>>, scripts' = Tail(scripts),
         NEW top, started' = Append(started, top),
         \A u \in threads' : u \in threads \/ u.id = Len(started) + 1,
         NEW p \in Posts, Says(p), p.thread = Len(started) + 1, p.m.op = "run"
  PROVE  SilenceInv'
<1> DEFINE n == Len(started)
           L == Len(program.scripts)
           m == Len(scripts)
<1>1. n \in Nat /\ Len(started') = n + 1 /\ m \in Nat \ {0} /\ Len(scripts') = m - 1
  BY DEF PageInv, MachineInv, VMTypeOK
<1>2. L \in Nat /\ m <= L /\ \A k \in DOMAIN posts : posts[k].thread \in Nat
  BY PostFacts DEF PageInv, MachineInv, VMTypeOK, SilenceInv
<1>3. /\ DOMAIN posts' = DOMAIN posts \cup {Len(posts) + 1}
      /\ posts'[Len(posts) + 1] = p
      /\ \A k \in DOMAIN posts : posts'[k] = posts[k] /\ k \in Nat /\ k <= Len(posts)
      /\ Len(posts) \in Nat
  BY SaysFacts DEF PageInv
<1>4. \A u \in threads : u.id \in Nat /\ (~u.isKilled => u.id > n - (L - m))
  BY ThreadFacts DEF PageInv, MachineInv, VMTypeOK, SilenceInv
<1>5. \A k \in DOMAIN posts' : posts'[k].thread <= Len(started')
  BY <1>1, <1>2, <1>3 DEF PageInv, SilenceInv
<1>6. ASSUME NEW u \in threads', NEW k \in DOMAIN posts', ~u.isKilled
      PROVE  Outlives(u.id, posts[k])'
  <2>1. CASE u \in threads /\ k \in DOMAIN posts
    BY <1>3, <1>6, <2>1 DEF PageInv, SilenceInv, Outlives
  <2>2. CASE u \in threads /\ k = Len(posts) + 1
    <3>1. u.id > n + 1 - L
      <4>1. u.id \in Nat /\ u.id > n - (L - m)
        BY <1>4, <1>6, <2>2, Zenon
      <4>2. n \in Int /\ L \in Int /\ m \in Int /\ m >= 1
        BY <1>1, <1>2
      <4> HIDE DEF n, L, m
      <4>3. QED
        BY <4>1, <4>2
    <3>2. posts'[k].thread = n + 1 /\ posts'[k].m.op = "run"
      BY <1>3, <2>2
    <3>3. Len(program'.scripts) = L
      OBVIOUS
    <3>4. u.id > posts'[k].thread - Len(program'.scripts)
      <4>1. posts'[k].thread - Len(program'.scripts) = n + 1 - L
        BY <3>2, <3>3
      <4>2. QED
        BY <3>1, <4>1, Zenon
    <3>5. posts'[k].m.op # "stop"
      BY <3>2
    <3>6. QED
      BY <3>4, <3>5, Zenon DEF Outlives
  <2>3. CASE u.id = n + 1 /\ k \in DOMAIN posts
    BY <1>1, <1>2, <1>3, <2>3 DEF PageInv, SilenceInv, Outlives
  <2>4. CASE u.id = n + 1 /\ k = Len(posts) + 1
    BY <1>1, <1>2, <1>3, <2>4 DEF Outlives
  <2>5. QED
    BY <1>3, <2>1, <2>2, <2>3, <2>4
<1>7. ASSUME NEW k \in DOMAIN posts', NEW l \in DOMAIN posts', k < l,
             posts'[l].m.op \in Moves \cup Turns
      PROVE  Outlives(posts[l].thread, posts[k])'
  <2>1. l # Len(posts) + 1
    BY <1>3, <1>7, PostFacts DEF PageInv, MachineInv, VMTypeOK
  <2>2. k \in DOMAIN posts /\ l \in DOMAIN posts
    BY <1>3, <1>7, <2>1
  <2>3. QED
    BY <1>3, <1>7, <2>2 DEF PageInv, SilenceInv, Outlives
<1>8. ASSUME scripts' # <<>>
      PROVE  /\ Len(scripts') <= Len(program'.scripts)
             /\ \A u \in threads' :
                  ~u.isKilled =>
                    u.id > Len(started') - (Len(program'.scripts) - Len(scripts'))
  <2>1. ASSUME NEW u \in threads', ~u.isKilled
        PROVE  u.id > n + 1 - (L - (m - 1))
    <3>0. n \in Int /\ L \in Int /\ m \in Int /\ m >= 1 /\ m <= L
      BY <1>1, <1>2
    <3>1. CASE u \in threads
      <4>1. u.id \in Nat /\ u.id > n - (L - m)
        BY <1>4, <2>1, <3>1, Zenon
      <4> HIDE DEF n, L, m
      <4>2. QED
        BY <3>0, <4>1
    <3>2. CASE u.id = n + 1
      <4> HIDE DEF n, L, m
      <4>1. QED
        BY <3>0, <3>2
    <3>3. QED
      BY <3>1, <3>2
  <2>2. /\ Len(started') = n + 1 /\ Len(program'.scripts) = L
        /\ Len(scripts') = m - 1 /\ m \in Int /\ L \in Int /\ m <= L /\ n \in Int
    BY <1>1, <1>2
  <2>3. Len(scripts') <= Len(program'.scripts)
    <3> HIDE DEF n, L, m
    <3> QED  BY <2>2
  <2>4. ASSUME NEW u \in threads', ~u.isKilled
        PROVE  u.id > Len(started') - (Len(program'.scripts) - Len(scripts'))
    <3>1. Len(started') - (Len(program'.scripts) - Len(scripts'))
            = n + 1 - (L - (m - 1))
      BY <2>2
    <3>2. u.id > n + 1 - (L - (m - 1))
      BY <2>1, <2>4, Zenon
    <3>3. QED
      BY <3>1, <3>2
  <2>5. QED
    BY <2>3, <2>4, Zenon
<1>9. QED
  BY <1>5, <1>6, <1>7, <1>8 DEF SilenceInv

-----------------------------------------------------------------------------
(* What the page posts are messages of the session.                        *)

LEMMA ButtonPosts ==
  ASSUME program \in Programs, NEW op \in {"run", "stop"}, NEW id \in Nat
  PROVE  [thread |-> id, m |-> Button(op), at |-> Null, outer |-> Null] \in Posts
<1>1. Button(op) \in CanPost(program)
  BY DEF CanPost, Button
<1>2. Button(op) \in Messages
  BY <1>1, PageAssumption
<1>3. QED
  BY <1>2 DEF Posts

LEMMA BlockPosts ==
  ASSUME program \in Programs, NEW b \in Ids,
         program.blocks[b].op \in Moves \cup Turns,
         NEW name \in Ids \cup {Null, Undefined}
  PROVE  [op |-> program.blocks[b].op, colour |-> program.blocks[b].colour,
          block |-> name] \in Messages
<1>1. [op |-> program.blocks[b].op, colour |-> program.blocks[b].colour,
       block |-> name] \in CanPost(program)
  BY DEF CanPost, Ids
<1>2. QED
  BY <1>1, PageAssumption

\* The block a message names is one of the program, if any.
LEMMA NamedFacts ==
  ASSUME MachineInv, turn # 0, NEW block
  PROVE  Named(block) \in Ids \cup {Null, Undefined}
<1>1. Foremost(threads) \in Threads
  BY CrtFacts, ForemostOf DEF MachineInv, VMTypeOK
<1> DEFINE stack == Foremost(threads).stack
<1>2. stack \in Stacks
  BY <1>1, ThreadFacts
<1>3. stack # <<>> => /\ stack[1].block \in Ids \cup {Null}
                      /\ Top(stack).block \in Ids \cup {Null}
  BY <1>2, TopFacts
<1>4. QED
  BY <1>3 DEF Named

\* What a step may post.
Spoken == posts' = posts \/ \E p \in Posts : Says(p)

\* Posts stays what it is.
LEMMA SpokenType ==
  ASSUME PageInv, program' = program, Spoken
  PROVE  (posts \in Seq(Posts))'
<1>1. Posts' = Posts
  BY SameProgram DEF Posts
<1>2. CASE posts' = posts
  BY <1>1, <1>2 DEF PageInv
<1>3. CASE \E p \in Posts : Says(p)
  BY <1>1, <1>3, SaysFacts DEF PageInv
<1>4. QED
  BY <1>2, <1>3 DEF Spoken

LEMMA GreenFlagSafe ==
  ASSUME PageInv, GreenFlag
  PROVE  PageInv' /\ Spoken
<1>1. program.scripts \in Seq(Ids)
  BY ProgramFacts DEF PageInv, MachineInv, VMTypeOK
<1>2. MachineInv' /\ \A t \in threads' : t.isKilled
  BY <1>1, SilenceKeeps DEF GreenFlag, Tap, Resting, PageInv
<1>3. Len(program.scripts) \in Nat
  BY <1>1
<1>4. SilenceInv'
  BY <1>2, <1>3, StoppedSilence DEF GreenFlag
<1>5. Spoken
  BY DEF GreenFlag, Spoken
<1>6. QED
  BY <1>2, <1>4, <1>5, SpokenType DEF PageInv, GreenFlag

LEMMA StopAllSafe ==
  ASSUME PageInv, StopAll
  PROVE  PageInv' /\ Spoken
<1> DEFINE p == [thread |-> Len(started), m |-> Button("stop"),
                 at |-> Null, outer |-> Null]
<1>1. program \in Programs /\ Len(started) \in Nat /\ scripts \in Seq(Ids)
  BY DEF PageInv, MachineInv, VMTypeOK
<1>2. p \in Posts /\ Says(p)
  BY <1>1, ButtonPosts DEF StopAll, Post, Says
<1>3. p.thread = Len(started) /\ p.m.op \notin Moves \cup Turns
  BY DEF Button, Moves, Turns
<1>4. MachineInv' /\ \A t \in threads' : t.isKilled
  BY <1>1, SilenceKeeps DEF StopAll, Tap, Resting, PageInv
<1>5. SilenceInv'
  BY <1>2, <1>3, <1>4, StoppedSilence DEF StopAll, Tap, Resting
<1>6. Spoken
  BY <1>2 DEF Spoken
<1>7. QED
  BY <1>4, <1>5, <1>6, SpokenType DEF PageInv, StopAll

LEMMA PushSafe ==
  ASSUME MachineInv, turn = 0, turn' = turn, UNCHANGED program, scripts' \in Seq(Ids),
         NEW top \in Ids, NEW click \in BOOLEAN, Push(top, click)
  PROVE  /\ MachineInv' /\ started' = Append(started, top)
         /\ \A u \in threads' : u \in threads \/ u.id = Len(started) + 1
<1> DEFINE n == Len(started)
<1>1. n \in Nat /\ program \in Programs
  BY DEF MachineInv, VMTypeOK
<1>2. \A t \in threads : t.place # n + 1
  BY <1>1, ThreadFacts DEF MachineInv, VMTypeOK, Numbered
<1>3. /\ threads' = (threads \ {}) \cup {NewThread(n + 1, n + 1, top, click)}
      /\ started' = Append(started, top)
  BY DEF Push
<1>4. n + 1 \in 1 .. n + 1 /\ \A t \in threads \ {} : t.place # n + 1
  BY <1>1, <1>2
<1>5. MachineInv'
  BY <1>3, <1>4, StartKeeps, Zenon
<1>6. QED
  BY <1>1, <1>3, <1>5, NewThreadFacts

LEMMA ToggleScriptSafe ==
  ASSUME PageInv, NEW top \in Ids, ToggleScript(top)
  PROVE  PageInv' /\ Spoken
<1> DEFINE mine == {t \in threads : t.topBlock = top /\ t.stack # <<>>}
           old == Foremost(mine)
<1>1. /\ turn = 0 /\ scripts = <<>> /\ UNCHANGED <<program, turn, scripts, posts>>
      /\ scripts' \in Seq(Ids) /\ MachineInv /\ threads \in SUBSET Threads
  BY DEF PageInv, MachineInv, VMTypeOK, ToggleScript, Tap, Resting
<1>2. Spoken
  BY <1>1 DEF Spoken
<1>3. CASE mine = {}
  <2>1. Push(top, TRUE)
    BY <1>3 DEF ToggleScript
  <2>2. /\ MachineInv' /\ started' = Append(started, top)
        /\ \A u \in threads' : u \in threads \/ u.id = Len(started) + 1
    BY <1>1, <2>1, PushSafe
  <2>3. SilenceInv'
    BY <1>1, <2>2, ClickedSilence
  <2>4. QED
    BY <1>1, <1>2, <2>2, <2>3, SpokenType DEF PageInv
<1>4. CASE mine # {}
  <2>1. old \in mine
    <3>1. mine \in SUBSET Threads
      BY <1>1
    <3> HIDE DEF mine
    <3>2. QED
      BY <1>4, <3>1, ForemostOf
  <2>2. /\ threads' = (threads \ {old}) \cup {Retired(old)} /\ started' = started
    BY <1>4 DEF ToggleScript
  <2>3. old \in threads /\ Retired(old) \in Threads /\ Later(old, Retired(old))
    BY <1>1, <2>1, RetiredFacts
  <2>4. MachineInv' /\ Kept
    BY <1>1, <2>2, <2>3, ChangeKeeps
  <2>5. SilenceInv'
    BY <1>1, <2>2, <2>4, QuietSilence
  <2>6. QED
    BY <1>1, <1>2, <2>4, <2>5, SpokenType DEF PageInv
<1>5. QED
  BY <1>3, <1>4

LEMMA StartHatSafe ==
  ASSUME PageInv, StartHat
  PROVE  PageInv' /\ Spoken
<1> DEFINE top  == Head(scripts)
           n    == Len(started)
           mine == {t \in threads : t.topBlock = top /\ ~t.stackClick}
           old  == Foremost(mine)
           p    == [thread |-> n + 1, m |-> Button("run"), at |-> Null, outer |-> Null]
<1>1. /\ scripts # <<>> /\ scripts' = Tail(scripts) /\ UNCHANGED <<program, turn>>
      /\ turn = 0
  BY DEF StartHat, PageInv, MachineInv, InTurn
<1>2. /\ MachineInv /\ program \in Programs /\ scripts \in Seq(Ids) /\ n \in Nat
      /\ threads \in SUBSET Threads
  BY DEF PageInv, MachineInv, VMTypeOK
<1>3. top \in Ids /\ scripts' \in Seq(Ids) /\ Len(scripts') = Len(scripts) - 1
      /\ Len(scripts) \in Nat
  BY <1>1, <1>2
<1>4. CASE ~IsHat(program, top)
  <2>1. UNCHANGED <<program, threads, started, posts>>
    BY <1>4 DEF StartHat
  <2>2. MachineInv'
    <3>1. Kept /\ threads' \in SUBSET Threads /\ Distinct' /\ turn' \in Nat
      BY <1>1, <1>2, <2>1 DEF Kept, Later, MachineInv, Distinct
    <3>2. InTurn'
      BY <1>1 DEF InTurn
    <3>3. QED
      BY <1>2, <1>3, <2>1, <3>1, <3>2, KeptKeeps
  <2>3. SilenceInv'
    BY <1>1, <2>1, PastSilence
  <2>4. Spoken
    BY <2>1 DEF Spoken
  <2>5. QED
    BY <2>1, <2>2, <2>3, <2>4, SpokenType DEF PageInv
<1>5. CASE IsHat(program, top)
  <2>1. p \in Posts /\ Says(p)
    BY <1>2, <1>5, ButtonPosts DEF StartHat, Post, Says
  <2>2. p.thread = n + 1 /\ p.m.op = "run"
    BY DEF Button
  <2>3. /\ MachineInv' /\ started' = Append(started, top)
        /\ \A u \in threads' : u \in threads \/ u.id = n + 1
    <3>1. CASE mine = {}
      <4>1. Push(top, FALSE)
        BY <1>5, <3>1 DEF StartHat
      <4>2. QED
        BY <1>1, <1>2, <1>3, <4>1, PushSafe
    <3>2. CASE mine # {}
      <4>1. old \in mine
        <5>1. mine \in SUBSET Threads
          BY <1>2
        <5> HIDE DEF mine
        <5>2. QED
          BY <3>2, <5>1, ForemostOf
      <4>2. /\ threads' = (threads \ {old}) \cup {NewThread(n + 1, old.place, top, FALSE)}
            /\ started' = Append(started, top)
        BY <1>5, <3>2 DEF StartHat
      <4> HIDE DEF old
      <4>3. old \in threads /\ old.place \in Nat \ {0} /\ old.place <= n
        BY <1>2, <4>1, ThreadFacts DEF MachineInv, Numbered
      <4>4. /\ old.place \in 1 .. n + 1
            /\ \A t \in threads \ {old} : t.place # old.place
        BY <1>2, <4>3 DEF MachineInv, Distinct
      <4>5. MachineInv'
        BY <1>1, <1>2, <1>3, <4>2, <4>4, StartKeeps
      <4>6. NewThread(n + 1, old.place, top, FALSE).id = n + 1
        BY DEF NewThread
      <4>7. QED
        BY <4>2, <4>5, <4>6
    <3>3. QED
      BY <3>1, <3>2
  <2>4. SilenceInv'
    BY <1>1, <2>1, <2>2, <2>3, HatSilence
  <2>5. Spoken
    BY <2>1 DEF Spoken
  <2>6. QED
    BY <1>1, <2>3, <2>4, <2>5, SpokenType DEF PageInv
<1>6. QED
  BY <1>4, <1>5

LEMMA BeginPassSafe ==
  ASSUME PageInv, BeginPass
  PROVE  PageInv' /\ Spoken
<1>1. MachineInv' /\ Kept
  BY BeginPassKeeps DEF PageInv
<1>2. UNCHANGED <<program, scripts, started, posts>>
  BY DEF BeginPass
<1>3. SilenceInv' /\ Spoken
  BY <1>1, <1>2, QuietSilence DEF Spoken
<1>4. QED
  BY <1>1, <1>2, <1>3, SpokenType DEF PageInv

\* An instruction block posts a message of the session that names some block.
LEMMA SaidBlock ==
  ASSUME PageInv, StepInstruction
  PROVE  LET m == [op |-> CrtBlock.op, colour |-> CrtBlock.colour,
                   block |-> Named(CrtBlock)]
             p == [thread |-> Crt.id, m |-> m, at |-> Top(Crt.stack).block,
                   outer |-> Crt.stack[1].block]
         IN  /\ p \in Posts /\ Says(p)
             /\ p.m.op \in Moves \cup Turns /\ p.thread = Crt.id
<1> DEFINE m == [op |-> CrtBlock.op, colour |-> CrtBlock.colour,
                 block |-> Named(CrtBlock)]
           p == [thread |-> Crt.id, m |-> m, at |-> Top(Crt.stack).block,
                 outer |-> Crt.stack[1].block]
<1>1. /\ MachineInv /\ turn # 0 /\ program \in Programs
      /\ Crt \in Threads /\ Crt.stack \in Stacks /\ Crt.stack # <<>>
  BY CrtFacts DEF PageInv, MachineInv, VMTypeOK, StepInstruction, AtBlock
<1>2. /\ Top(Crt.stack).block \in Ids \cup {Null}
      /\ Crt.stack[1].block \in Ids \cup {Null}
  BY <1>1, TopFacts
<1>3. /\ Top(Crt.stack).block \in Ids /\ CrtBlock.op \in Moves \cup Turns
      /\ CrtBlock = program.blocks[Top(Crt.stack).block]
  BY <1>2 DEF StepInstruction, AtBlock, CrtBlock
<1>4. Named(CrtBlock) \in Ids \cup {Null, Undefined}
  BY <1>1, NamedFacts
<1>5. m \in Messages
  BY <1>1, <1>3, <1>4, BlockPosts
<1>6. Crt.id \in Nat
  BY <1>1, ThreadFacts
<1>7. p \in Posts /\ p.m.op \in Moves \cup Turns /\ p.thread = Crt.id
  BY <1>2, <1>3, <1>5, <1>6 DEF Posts
<1>8. Says(p)
  BY DEF StepInstruction, Post, Says
<1>9. QED
  BY <1>7, <1>8

LEMMA StepThreadSafe ==
  ASSUME PageInv, StepThread
  PROVE  PageInv' /\ Spoken
<1>1. MachineInv' /\ Kept
  BY StepKeeps DEF PageInv
<1>2. turn # 0 /\ UNCHANGED <<program, scripts, started>>
  BY DEF StepThread, StepEmptyBranch, StepInstruction, StepControl, StepWait,
         StepStop, AtBlock
<1>3. CASE ~StepInstruction
  <2>1. posts' = posts
    BY <1>3 DEF StepThread, StepEmptyBranch, StepControl, StepWait, StepStop
  <2>2. SilenceInv' /\ Spoken
    BY <1>1, <1>2, <2>1, QuietSilence DEF Spoken
  <2>3. QED
    BY <1>1, <1>2, <2>2, SpokenType DEF PageInv
<1>4. CASE StepInstruction
  <2>1. PICK p \in Posts :
          Says(p) /\ p.m.op \in Moves \cup Turns /\ p.thread = Crt.id
    BY <1>4, SaidBlock
  <2>2. Crt \in threads /\ ~Crt.isKilled
    BY <1>2, CrtFacts DEF PageInv
  <2>3. SilenceInv' /\ Spoken
    BY <1>1, <1>2, <2>1, <2>2, SpokenSilence DEF Spoken
  <2>4. QED
    BY <1>1, <1>2, <2>3, SpokenType DEF PageInv
<1>5. QED
  BY <1>3, <1>4

LEMMA ResolveSafe ==
  ASSUME PageInv, Resolve
  PROVE  PageInv' /\ Spoken
<1>1. /\ turn = 0 /\ UNCHANGED <<program, turn, scripts, started, posts>>
      /\ MachineInv /\ threads \in SUBSET Threads /\ program \in Programs
  BY DEF Resolve, Resting, PageInv, MachineInv, VMTypeOK
<1>2. PICK t \in threads :
        /\ t.promise
        /\ LET stack == IF t.stack = <<>> THEN <<Fresh(Null)>> ELSE Resumed(t.stack)
           IN  threads' = (threads \ {t})
                            \cup {[t EXCEPT !.promise = FALSE, !.stack = stack]}
  BY DEF Resolve
<1> DEFINE stack == IF t.stack = <<>> THEN <<Fresh(Null)>> ELSE Resumed(t.stack)
           u == [t EXCEPT !.promise = FALSE, !.stack = stack]
<1>3. stack \in Stacks
  <2>1. <<Fresh(Null)>> \in Stacks
    BY DEF Stacks, Frames, Fresh, Unset
  <2>2. t.stack # <<>> => Resumed(t.stack) \in Stacks
    BY <1>1, <1>2, ThreadFacts, ResumedType
  <2>3. QED
    BY <2>1, <2>2
<1>4. u \in Threads /\ Later(t, u)
  <2> HIDE DEF stack
  <2> QED  BY <1>1, <1>3, SteppedFacts
<1>5. MachineInv' /\ Kept
  <2>1. threads' = (threads \ {t}) \cup {u}
    BY <1>2
  <2> HIDE DEF u
  <2>2. QED
    BY <1>1, <1>4, <2>1, ChangeKeeps
<1>6. SilenceInv' /\ Spoken
  BY <1>1, <1>5, QuietSilence DEF Spoken
<1>7. QED
  BY <1>1, <1>5, <1>6, SpokenType DEF PageInv

-----------------------------------------------------------------------------
(* The system.                                                             *)

\* A step of the machine.
VMNext ==
  \/ GreenFlag \/ StopAll
  \/ \E k \in DOMAIN program.scripts : ToggleScript(program.scripts[k])
  \/ StartHat \/ BeginPass \/ StepThread \/ Resolve

LEMMA VMStep ==
  ASSUME PageInv, VMNext
  PROVE  PageInv' /\ Spoken
<1>1. \A k \in DOMAIN program.scripts : program.scripts[k] \in Ids
  BY ProgramFacts DEF PageInv, MachineInv, VMTypeOK
<1>2. QED
  BY <1>1, GreenFlagSafe, StopAllSafe, ToggleScriptSafe, StartHatSafe, BeginPassSafe,
     StepThreadSafe, ResolveSafe DEF VMNext

LEMMA VMStart ==
  ASSUME VMInit
  PROVE  PageInv
<1>1. MachineInv
  BY DEF VMInit, MachineInv, VMTypeOK, Distinct, Numbered, InTurn
<1>2. posts \in Seq(Posts) /\ SilenceInv
  BY DEF VMInit, SilenceInv
<1>3. QED
  BY <1>1, <1>2 DEF PageInv

\* A step of the system is one of the machine with its message delivered, or one
\* of the session alone.
LEMMA SystemStep ==
  ASSUME PageInv, [SystemNext]_systemVars
  PROVE  PageInv' /\ [Next]_vars
<1>1. CASE VMNext /\ Deliver
  <2>1. PageInv' /\ Spoken
    BY <1>1, VMStep
  <2>2. CASE posts' = posts
    BY <1>1, <2>1, <2>2 DEF Deliver
  <2>3. ASSUME NEW p \in Posts, Says(p), posts' # posts PROVE Next
    <3>1. posts'[Len(posts')] = p /\ p.m \in Messages
      BY <2>3, SaysFacts DEF PageInv, Posts
    <3>2. Receive(p.m)
      BY <1>1, <2>3, <3>1 DEF Deliver
    <3>3. QED
      BY <3>1, <3>2 DEF Next
  <2>4. QED
    BY <2>1, <2>2, <2>3 DEF Spoken
<1>2. CASE Native \/ UNCHANGED systemVars
  <2>1. UNCHANGED pageVars /\ [Next]_vars
    BY <1>2 DEF Native, Next, systemVars
  <2>2. MachineInv'
    BY <2>1, SameProgram
       DEF pageVars, PageInv, MachineInv, VMTypeOK, Distinct, Numbered, InTurn, Runs
  <2>3. Kept
    BY <2>1 DEF pageVars, Kept, Later
  <2>4. SilenceInv' /\ Spoken
    BY <2>1, <2>3, QuietSilence DEF pageVars, Spoken
  <2>5. QED
    BY <2>1, <2>2, <2>4, SpokenType DEF pageVars, PageInv
<1>3. QED
  BY <1>1, <1>2 DEF SystemNext, TapPage, RunPage, FireTimer, VMNext

\* The page drives a GameSession: whatever the program and the taps, it posts
\* nothing but messages of the session.
THEOREM PageIsASession == SystemSpec => SafetySpec
<1>1. SystemInit => Init /\ PageInv
  BY VMStart DEF SystemInit
<1>2. PageInv /\ [SystemNext]_systemVars => PageInv' /\ [Next]_vars
  BY SystemStep
<1>3. QED
  BY <1>1, <1>2, PTL DEF SystemSpec, SafetySpec

\* What is proved of the session holds of the game with its page.
THEOREM PageKeepsSession ==
  SystemSpec => /\ [](TypeOK /\ PlaysOnRoute /\ OneOutcomePerRun)
                /\ []GlowTracksInstruction
                /\ StopCancels /\ ImplementsEngine
  BY PageIsASession, SessionTypeCorrect, SessionOutcomes, SessionGlow,
     SessionStopCancels, SessionImplementsEngine, PTL

\* Once a run or a stop is posted, no thread that was there before posts an
\* instruction, for any programs, scripts and clicks.
THEOREM ButtonsSilence == SystemSpec => []SilencedByButtons
<1>1. SystemInit => PageInv
  BY VMStart DEF SystemInit
<1>2. PageInv /\ [SystemNext]_systemVars => PageInv'
  BY SystemStep
<1>3. PageInv => SilencedByButtons
  BY DEF PageInv, SilenceInv, SilencedByButtons, Outlives
<1>4. QED
  BY <1>1, <1>2, <1>3, PTL DEF SystemSpec

-----------------------------------------------------------------------------
(* A page with one script.                                                 *)

\* At most one thread is not stopped; in a pass there is no other.
Alone ==
  /\ \A t, u \in threads : ~t.isKilled /\ ~u.isKilled => t = u
  /\ \A t \in threads : t.topBlock = program.scripts[1]
  /\ scripts # <<>> => /\ scripts = program.scripts
                       /\ \A t \in threads : t.isKilled
  /\ turn = 0 => \A t \in threads : ~t.isKilled => t.stack # <<>>
  /\ turn # 0 => \A t \in threads : t.place = turn

LEMMA StoppedAlone ==
  ASSUME PageInv, Alone, GreenFlag \/ StopAll
  PROVE  Alone'
<1>1. /\ threads' = {Retired(t) : t \in threads} /\ turn' = 0 /\ program' = program
      /\ scripts' \in {<<>>, program.scripts}
  BY DEF GreenFlag, StopAll, Tap, Resting
<1>2. \A t \in threads : /\ Retired(t).topBlock = t.topBlock /\ Retired(t).isKilled
  BY RetiredFacts DEF PageInv, MachineInv, VMTypeOK, Later
<1>3. QED
  BY <1>1, <1>2 DEF Alone

\* A thread starts while all others are stopped.
LEMMA StartAlone ==
  ASSUME Alone, turn' = 0, UNCHANGED program, scripts' = <<>>,
         \A t \in threads : t.isKilled,
         NEW new, new.topBlock = program.scripts[1], new.stack # <<>>,
         \A t \in threads' : t \in threads \/ t = new
  PROVE  Alone'
  BY DEF Alone

LEMMA ToggleAlone ==
  ASSUME PageInv, Alone, ToggleScript(program.scripts[1]),
         program.scripts[1] \in Ids
  PROVE  Alone'
<1> DEFINE top == program.scripts[1]
           mine == {t \in threads : t.topBlock = top /\ t.stack # <<>>}
           old == Foremost(mine)
           n == Len(started)
<1>1. /\ turn = 0 /\ turn' = 0 /\ scripts = <<>> /\ scripts' = <<>>
      /\ program' = program /\ threads \in SUBSET Threads
      /\ program \in Programs /\ n \in Nat
  BY DEF PageInv, MachineInv, VMTypeOK, ToggleScript, Tap, Resting
<1>2. CASE mine = {}
  <2>1. \A t \in threads : t.isKilled
    BY <1>1, <1>2 DEF Alone
  <2> DEFINE new == NewThread(n + 1, n + 1, top, TRUE)
  <2>2. threads' = threads \cup {new}
    BY <1>2 DEF ToggleScript, Push
  <2>3. new.topBlock = top /\ new.stack # <<>>
    BY DEF NewThread
  <2> HIDE DEF new
  <2>4. QED
    BY <1>1, <2>1, <2>2, <2>3, StartAlone
<1>3. CASE mine # {}
  <2>1. old \in mine
    <3>1. mine \in SUBSET Threads
      BY <1>1
    <3> HIDE DEF mine
    <3>2. QED
      BY <1>3, <3>1, ForemostOf
  <2>2. threads' = (threads \ {old}) \cup {Retired(old)}
    BY <1>3 DEF ToggleScript
  <2>3. Retired(old).topBlock = top /\ Retired(old).isKilled
    BY <1>1, <2>1, RetiredFacts DEF Later
  <2> HIDE DEF old
  <2>4. QED
    BY <1>1, <2>2, <2>3 DEF Alone
<1>4. QED
  BY <1>2, <1>3

LEMMA StartHatAlone ==
  ASSUME PageInv, Alone, StartHat, Len(program.scripts) = 1
  PROVE  Alone'
<1> DEFINE top  == Head(scripts)
           n    == Len(started)
           mine == {t \in threads : t.topBlock = top /\ ~t.stackClick}
           old  == Foremost(mine)
<1>1. /\ program' = program /\ program \in Programs /\ turn = 0 /\ turn' = 0
      /\ scripts = program.scripts /\ scripts' = Tail(scripts)
      /\ scripts \in Seq(Ids) /\ n \in Nat /\ threads \in SUBSET Threads
      /\ \A t \in threads : t.isKilled
  BY DEF StartHat, PageInv, MachineInv, VMTypeOK, InTurn, Alone
<1>2. top = program.scripts[1] /\ top \in Ids /\ scripts' = <<>>
  BY <1>1
<1>3. CASE ~IsHat(program, top)
  BY <1>1, <1>2, <1>3 DEF StartHat, Alone
<1>4. CASE IsHat(program, top)
  <2>1. CASE mine = {}
    <3> DEFINE new == NewThread(n + 1, n + 1, top, FALSE)
    <3>1. threads' = threads \cup {new}
      BY <1>4, <2>1 DEF StartHat, Push
    <3>2. new.topBlock = top /\ new.stack # <<>>
      BY DEF NewThread
    <3> HIDE DEF new
    <3>3. QED
      BY <1>1, <1>2, <3>1, <3>2, StartAlone
  <2>2. CASE mine # {}
    <3> DEFINE new == NewThread(n + 1, old.place, top, FALSE)
    <3>1. old \in mine
      <4>1. mine \in SUBSET Threads
        BY <1>1
      <4> HIDE DEF mine
      <4>2. QED
        BY <2>2, <4>1, ForemostOf
    <3>2. threads' = (threads \ {old}) \cup {new}
      BY <1>4, <2>2 DEF StartHat
    <3>3. old.place \in Nat \ {0}
      BY <1>1, <3>1, ThreadFacts
    <3>4. new.topBlock = top /\ new.stack # <<>>
      BY DEF NewThread
    <3> HIDE DEF new, old
    <3>5. QED
      BY <1>1, <1>2, <3>2, <3>4, StartAlone
  <2>3. QED
    BY <2>1, <2>2
<1>5. QED
  BY <1>3, <1>4

LEMMA BeginPassAlone ==
  ASSUME PageInv, PageInv', Alone, BeginPass
  PROVE  Alone'
<1>1. /\ turn = 0 /\ scripts' = <<>> /\ program' = program
      /\ \A t \in threads' : t \in threads /\ ~t.isKilled
  BY DEF BeginPass, Resting
<1>2. turn' # 0 => \E t \in threads' : t.place = turn'
  BY DEF PageInv, MachineInv, InTurn
<1>3. QED
  BY <1>1, <1>2 DEF Alone

LEMMA StepAlone ==
  ASSUME PageInv, PageInv', Alone, StepThread
  PROVE  Alone'
<1>1. /\ turn # 0 /\ UNCHANGED <<program, scripts>> /\ scripts = <<>>
      /\ MachineInv
  BY DEF StepThread, StepEmptyBranch, StepInstruction, StepControl, StepWait,
         StepStop, AtBlock, PageInv, MachineInv, InTurn
<1>2. Crt \in threads /\ Crt.place = turn /\ Others = {}
  BY <1>1, CrtFacts DEF Alone
<1>3. {Retired(u) : u \in Others} = {}
  BY <1>2
<1>4. ASSUME NEW t, Later(Crt, t), Continue(t, {}) PROVE Alone'
  <2>1. /\ threads' = IF turn' # 0 THEN {t} ELSE {u \in {t} : u.stack # <<>>}
        /\ turn' \in {turn, NextTurn({t}, turn)}
    BY <1>4 DEF Continue
  <2>2. t.place = turn /\ t.topBlock = program.scripts[1] /\ turn \in Nat
    BY <1>1, <1>2, <1>4 DEF Later, Alone, MachineInv, VMTypeOK
  <2>3. NextTurn({t}, turn) = 0
    BY <2>2 DEF NextTurn
  <2>4. QED
    BY <1>1, <2>1, <2>2, <2>3 DEF Alone
<1>5. \A s : Later(Crt, WithStack(s))
  BY <1>1, CrtFacts DEF WithStack, Later, Threads
<1>6. CASE StepEmptyBranch
  <2> DEFINE t == WithStack(Below(Crt.stack))
  <2>1. \/ Continue(t, {})
        \/ threads' = {t} /\ turn' = turn
    BY <1>2, <1>6 DEF StepEmptyBranch
  <2>2. CASE threads' = {t} /\ turn' = turn
    BY <1>1, <1>2, <1>5, <2>2 DEF Alone, Later
  <2>3. QED
    BY <1>4, <1>5, <2>1, <2>2
<1>7. CASE StepInstruction \/ StepControl
  BY <1>2, <1>4, <1>5, <1>7 DEF StepInstruction, StepControl
<1>8. CASE StepWait
  <2>1. Later(Crt, [Crt EXCEPT !.promise = TRUE])
    BY <1>1, CrtFacts DEF Later, Threads
  <2>2. QED
    BY <1>2, <1>4, <1>8, <2>1 DEF StepWait
<1>9. CASE StepStop
  <2>1. Later(Crt, Retired(Crt))
    BY <1>1, CrtFacts, RetiredFacts
  <2>2. QED
    BY <1>2, <1>3, <1>4, <1>5, <1>9, <2>1 DEF StepStop
<1>10. QED
  BY <1>6, <1>7, <1>8, <1>9 DEF StepThread

LEMMA ResolveAlone ==
  ASSUME PageInv, Alone, Resolve
  PROVE  Alone'
<1>1. /\ turn = 0 /\ turn' = 0 /\ scripts = <<>> /\ scripts' = <<>>
      /\ program' = program /\ threads \in SUBSET Threads /\ program \in Programs
  BY DEF Resolve, Resting, PageInv, MachineInv, VMTypeOK
<1>2. PICK t \in threads :
        /\ t.promise
        /\ LET stack == IF t.stack = <<>> THEN <<Fresh(Null)>> ELSE Resumed(t.stack)
           IN  threads' = (threads \ {t})
                            \cup {[t EXCEPT !.promise = FALSE, !.stack = stack]}
  BY DEF Resolve
<1> DEFINE stack == IF t.stack = <<>> THEN <<Fresh(Null)>> ELSE Resumed(t.stack)
           u == [t EXCEPT !.promise = FALSE, !.stack = stack]
<1>3. stack # <<>>
  <2>1. <<Fresh(Null)>> # <<>>
    OBVIOUS
  <2>2. t.stack # <<>> => Resumed(t.stack) # <<>>
    BY <1>1, <1>2, ThreadFacts, ResumedType
  <2>3. QED
    BY <2>1, <2>2
<1>4. u.topBlock = t.topBlock /\ u.isKilled = t.isKilled /\ u.stack = stack
  <2> HIDE DEF stack
  <2> QED  BY <1>1 DEF Threads
<1>5. threads' = (threads \ {t}) \cup {u}
  BY <1>2
<1> HIDE DEF stack, u
<1>6. QED
  BY <1>1, <1>3, <1>4, <1>5 DEF Alone

LEMMA AloneKeeps ==
  ASSUME PageInv, PageInv', Alone, VMNext, Len(program.scripts) = 1
  PROVE  Alone'
<1>1. program.scripts \in Seq(Ids)
  BY ProgramFacts DEF PageInv, MachineInv, VMTypeOK
<1>2. DOMAIN program.scripts = {1} /\ program.scripts[1] \in Ids
  BY <1>1
<1>3. CASE \E k \in DOMAIN program.scripts : ToggleScript(program.scripts[k])
  BY <1>2, <1>3, ToggleAlone
<1>4. QED
  BY <1>3, StoppedAlone, StartHatAlone, BeginPassAlone, StepAlone, ResolveAlone
     DEF VMNext

\* Buttons and hats post no instruction.
LEMMA WhoSpeaks ==
  ASSUME PageInv, VMNext, ~StepInstruction
  PROVE  \/ posts' = posts
         \/ \E p \in Posts : Says(p) /\ p.m.op \notin Moves \cup Turns
<1> DEFINE told(op, id) ==
             [thread |-> id, m |-> Button(op), at |-> Null, outer |-> Null]
<1>1. program \in Programs /\ Len(started) \in Nat
  BY DEF PageInv, MachineInv, VMTypeOK
<1>2. ASSUME NEW op \in {"run", "stop"}, NEW id \in Nat, Says(told(op, id))
      PROVE  \E p \in Posts : Says(p) /\ p.m.op \notin Moves \cup Turns
  <2>1. told(op, id) \in Posts /\ told(op, id).m.op \notin Moves \cup Turns
    BY <1>1, <1>2, ButtonPosts DEF Button, Moves, Turns
  <2>2. QED
    BY <1>2, <2>1
<1>3. CASE StopAll
  <2>1. Says(told("stop", Len(started)))
    BY <1>3 DEF StopAll, Post, Says
  <2>2. QED
    BY <1>1, <1>2, <2>1
<1>4. CASE StartHat
  <2>1. posts' = posts \/ Says(told("run", Len(started) + 1))
    BY <1>4 DEF StartHat, Post, Says
  <2>2. QED
    BY <1>1, <1>2, <2>1
<1>5. CASE GreenFlag \/ BeginPass \/ Resolve
           \/ \E k \in DOMAIN program.scripts : ToggleScript(program.scripts[k])
  BY <1>5 DEF GreenFlag, BeginPass, Resolve, ToggleScript
<1>6. CASE StepThread
  BY <1>6 DEF StepThread, StepEmptyBranch, StepControl, StepWait, StepStop
<1>7. QED
  BY <1>3, <1>4, <1>5, <1>6 DEF VMNext

NamesInv ==
  PageInv /\ (Len(program.scripts) = 1 => Alone) /\ NamesItsBlock

\* The message a step posts names its block.
LEMMA NamesKeep ==
  ASSUME NamesInv, PageInv', VMNext
  PROVE  NamesInv'
<1>1. PageInv /\ program' = program
  BY DEF NamesInv, VMNext, GreenFlag, StopAll, ToggleScript, StartHat, BeginPass,
         StepThread, StepEmptyBranch, StepInstruction, StepControl, StepWait,
         StepStop, Resolve
<1>2. Len(program.scripts) = 1 => Alone /\ Alone'
  BY <1>1, AloneKeeps DEF NamesInv
<1> DEFINE Names(p) ==
      p.m.op \in Moves \cup Turns =>
        p.m.block = IF NamesOutermost(p.m) THEN p.outer ELSE p.at
<1>3. ASSUME Len(program.scripts) = 1, NEW p \in Posts, Says(p), Names(p)
      PROVE  NamesItsBlock'
  <2>1. /\ DOMAIN posts' = DOMAIN posts \cup {Len(posts) + 1}
        /\ posts'[Len(posts) + 1] = p
        /\ \A k \in DOMAIN posts : posts'[k] = posts[k]
    BY <1>1, <1>3, SaysFacts DEF PageInv
  <2>2. \A k \in DOMAIN posts : Names(posts[k])
    BY <1>3 DEF NamesInv, NamesItsBlock
  <2>3. \A k \in DOMAIN posts' : Names(posts'[k])
    <3> HIDE DEF Names
    <3> QED  BY <1>3, <2>1, <2>2
  <2>4. QED
    BY <2>3 DEF NamesItsBlock, NamesOutermost
<1>4. CASE ~StepInstruction
  <2>1. ASSUME posts' = posts PROVE NamesItsBlock'
    BY <1>1, <2>1 DEF NamesInv, NamesItsBlock, NamesOutermost
  <2>2. ASSUME NEW p \in Posts, Says(p), p.m.op \notin Moves \cup Turns
        PROVE  NamesItsBlock'
    <3>1. CASE Len(program.scripts) = 1
      BY <1>3, <2>2, <3>1
    <3>2. CASE Len(program.scripts) # 1
      BY <1>1, <3>2 DEF NamesItsBlock
    <3>3. QED
      BY <3>1, <3>2
  <2>3. NamesItsBlock'
    BY <1>1, <1>4, <2>1, <2>2, WhoSpeaks
  <2>4. QED
    BY <1>1, <1>2, <2>3 DEF NamesInv
<1>5. CASE StepInstruction
  <2> DEFINE m == [op |-> CrtBlock.op, colour |-> CrtBlock.colour,
                   block |-> Named(CrtBlock)]
             p == [thread |-> Crt.id, m |-> m, at |-> Top(Crt.stack).block,
                   outer |-> Crt.stack[1].block]
  <2>1. turn # 0 /\ MachineInv /\ Says(p)
    BY <1>1, <1>5 DEF StepInstruction, AtBlock, PageInv, Post, Says
  <2>2. Crt \in threads /\ Crt.stack # <<>> /\ threads \in SUBSET Threads
    BY <2>1, CrtFacts DEF MachineInv, VMTypeOK
  <2>3. CASE Len(program.scripts) = 1
    <3>1. \A t \in threads : t = Crt
      BY <1>2, <2>1, <2>2, <2>3 DEF Alone, MachineInv, Distinct
    <3>2. Foremost(threads) = Crt
      BY <2>2, <3>1, ForemostOf
    <3>3. NamesOutermost(m) = NamesOutermost(CrtBlock)
      BY DEF NamesOutermost
    <3>4. Names(p)
      BY <2>2, <3>2, <3>3 DEF Named
    <3>5. p \in Posts
      BY <1>1, <1>5, SaidBlock
    <3> HIDE DEF p, Names
    <3>6. NamesItsBlock'
      BY <1>3, <2>1, <2>3, <3>4, <3>5
    <3>7. QED
      BY <1>1, <1>2, <3>6 DEF NamesInv
  <2>4. CASE Len(program.scripts) # 1
    BY <1>1, <2>4 DEF NamesInv, NamesItsBlock
  <2>5. QED
    BY <2>3, <2>4
<1>6. QED
  BY <1>4, <1>5

\* On a page with one script, a message names the block that posts it, or for a
\* turn without a condition the outermost block it is in.
THEOREM PageNamesItsBlock == SystemSpec => []NamesItsBlock
<1>1. SystemInit => NamesInv
  BY VMStart DEF SystemInit, VMInit, NamesInv, NamesItsBlock, Alone
<1>2. NamesInv /\ [SystemNext]_systemVars => NamesInv'
  <2> SUFFICES ASSUME NamesInv, [SystemNext]_systemVars PROVE NamesInv'
    OBVIOUS
  <2>1. PageInv'
    BY SystemStep DEF NamesInv
  <2>2. CASE VMNext
    BY <2>1, <2>2, NamesKeep
  <2>3. CASE UNCHANGED pageVars
    BY <2>1, <2>3 DEF pageVars, NamesInv, NamesItsBlock, NamesOutermost, Alone
  <2>4. QED
    BY <2>2, <2>3 DEF SystemNext, TapPage, RunPage, FireTimer, VMNext, Native,
                      systemVars
<1>3. NamesInv => NamesItsBlock
  BY DEF NamesInv
<1>4. QED
  BY <1>1, <1>2, <1>3, PTL DEF SystemSpec


-----------------------------------------------------------------------------
(* The engine keeps to the page.                                           *)

\* What a step is for the session and the posts: a message is posted and
\* received, or the session makes a step of its own or none.
Steps ==
  \/ RunMainQueue \/ DismissPopup \/ NavigateBack
  \/ HandleEvent \/ InstructionsThread
  \/ UNCHANGED vars

LEMMA SystemCases ==
  ASSUME PageInv, [SystemNext]_systemVars
  PROVE  \/ \E p \in Posts : Says(p) /\ Receive(p.m)
         \/ posts' = posts /\ Steps
<1>1. CASE VMNext /\ Deliver
  <2>1. Spoken
    BY <1>1, VMStep
  <2>2. CASE posts' = posts
    BY <1>1, <2>2 DEF Deliver, Steps
  <2>3. ASSUME NEW p \in Posts, Says(p), posts' # posts PROVE Receive(p.m)
    <3>1. posts'[Len(posts')] = p
      BY <2>3, SaysFacts DEF PageInv
    <3>2. QED
      BY <1>1, <2>3, <3>1 DEF Deliver
  <2>4. QED
    BY <2>1, <2>2, <2>3 DEF Spoken
<1>2. CASE Native \/ UNCHANGED systemVars
  BY <1>2 DEF Native, Steps, systemVars, pageVars
<1>3. QED
  BY <1>1, <1>2 DEF SystemNext, TapPage, RunPage, FireTimer, VMNext

-----------------------------------------------------------------------------
(* The game played by hand.                                                *)

Playable ==
  /\ level \in Levels /\ runAt \in Nat
  /\ posts \in Seq(Posts)

Carried(k) ==
  IF posts[k].m.op \in Moves \cup Turns
  THEN Perform(level, Played[k - 1], posts[k].m)
  ELSE Played[k - 1]

IsPlayed ==
  /\ Played \in [0 .. Len(posts) -> EngineType]
  /\ \A k \in 0 .. Len(posts) : k <= runAt => Played[k] = NewEngine(level)
  /\ \A k \in 1 .. Len(posts) : ~(k <= runAt) => Played[k] = Carried(k)

\* An operation does not look at the block a message names.
LEMMA PerformMessage ==
  ASSUME NEW lvl, NEW e \in EngineType, NEW m \in Messages,
         m.op \in Moves \cup Turns
  PROVE  Perform(lvl, e, m) \in EngineType
<1>1. Instruction(m) \in Instructions
  BY SessionAssumption DEF Instruction, Instructions
<1>2. Perform(lvl, e, m) = Perform(lvl, e, Instruction(m))
  BY DEF Perform, ConditionHolds, Instruction
<1>3. QED
  BY <1>1, <1>2, PerformType

LEMMA PlayedFacts == Playable => IsPlayed
<1> SUFFICES ASSUME Playable PROVE IsPlayed
  OBVIOUS
<1> DEFINE n == Len(posts)
           V == EngineType
           new == NewEngine(level)
           one(e, k) == IF k <= runAt THEN new
                        ELSE IF posts[k].m.op \in Moves \cup Turns
                             THEN Perform(level, e, posts[k].m) ELSE e
           step == [q \in V \X (1 .. n) |-> one(q[1], q[2])]
           Def(f) == f = [k \in 0 .. Len(posts) |->
                            IF k <= runAt THEN NewEngine(level)
                            ELSE IF posts[k].m.op \in Moves \cup Turns
                                 THEN Perform(level, f[k - 1], posts[k].m)
                                 ELSE f[k - 1]]
<1>1. n \in Nat /\ runAt \in Nat /\ \A k \in 1 .. n : posts[k].m \in Messages
  <2>1. \A k \in 1 .. n : posts[k] \in Posts
    BY DEF Playable
  <2>2. QED
    BY <2>1 DEF Playable, Posts
<1>2. new \in V
  BY SessionAssumption, NewEngineType DEF Playable
<1>3. ASSUME NEW e \in V, NEW k \in 1 .. n PROVE one(e, k) \in V
  <2>1. posts[k].m.op \in Moves \cup Turns => Perform(level, e, posts[k].m) \in V
    BY <1>1, PerformMessage
  <2> HIDE DEF new, V
  <2>2. QED
    BY <1>2, <2>1
<1>4. step \in [V \X (1 .. n) -> V]
  <2> HIDE DEF one, V, n
  <2>1. QED
    BY <1>3
<1>5. PICK g : IsRecursion(g, V, new, n, step)
  <2> HIDE DEF step, V, n, new
  <2>1. QED
    BY <1>1, <1>2, <1>4, RecursionExists
<1>6. g \in [0 .. n -> V] /\ g[0] = new
  BY <1>5 DEF IsRecursion
<1>7. ASSUME NEW k \in 1 .. n PROVE g[k] = one(g[k - 1], k)
  <2>1. k - 1 \in 0 .. n
    BY <1>1
  <2>2. g[k - 1] \in V /\ <<g[k - 1], k>> \in V \X (1 .. n)
    BY <1>6, <2>1
  <2>3. step[<<g[k - 1], k>>] = one(g[k - 1], k)
    <3> HIDE DEF one, V, n
    <3>1. QED
      BY <2>2
  <2>4. g[k] = step[<<g[k - 1], k>>]
    BY <1>5 DEF IsRecursion
  <2> HIDE DEF one, step
  <2>5. QED
    BY <2>3, <2>4
<1>8. Def(g)
  <2>1. ASSUME NEW k \in 0 .. n PROVE g[k] = one(g[k - 1], k)
    <3>1. CASE k = 0
      <4>1. 0 <= runAt
        BY <1>1
      <4>2. QED
        BY <1>6, <3>1, <4>1
    <3>2. CASE k # 0
      <4>1. k \in 1 .. n
        BY <3>2
      <4> HIDE DEF one
      <4>2. QED
        BY <1>7, <4>1
    <3>3. QED
      BY <3>1, <3>2
  <2>2. g = [k \in 0 .. n |-> one(g[k - 1], k)]
    <3> HIDE DEF one, n, V
    <3>1. QED
      BY <1>6, <2>1
  <2>3. QED
    BY <2>2, Zenon
<1>9. Played = CHOOSE f : Def(f)
  BY Zenon DEF Played
<1>10. Def(Played)
  <2> HIDE DEF Def
  <2>1. QED
    BY <1>8, <1>9, Zenon
<1>11. Played = [k \in 0 .. n |-> one(Played[k - 1], k)]
  BY <1>10, Zenon
<1>12. \A k \in 0 .. n : Played[k] = one(Played[k - 1], k)
  <2> HIDE DEF one, n
  <2>1. QED
    BY <1>11, Zenon
<1>13. \A k \in 0 .. n : k <= runAt => Played[k] = NewEngine(level)
  BY <1>12
<1>14. \A k \in 1 .. n : ~(k <= runAt) => Played[k] = Carried(k)
  <2> SUFFICES ASSUME NEW k \in 1 .. n, ~(k <= runAt) PROVE Played[k] = Carried(k)
    OBVIOUS
  <2>1. k \in 0 .. n
    BY <1>1
  <2>2. Played[k] = one(Played[k - 1], k)
    BY <1>12, <2>1
  <2>3. QED
    BY <2>2, Zenon DEF Carried
<1>15. Played \in [0 .. n -> V]
  <2> DEFINE T == {k \in 0 .. n : Played[k] \in V}
  <2>1. 0 \in T
    <3>1. 0 \in 0 .. n /\ 0 <= runAt
      BY <1>1
    <3> HIDE DEF V, n
    <3>2. QED
      BY <1>2, <1>13, <3>1
  <2>2. ASSUME NEW k \in 0 .. n - 1, k \in T PROVE k + 1 \in T
    <3>1. k + 1 \in 1 .. n /\ k + 1 \in 0 .. n /\ (k + 1) - 1 = k
      BY <1>1
    <3>2. Played[k] \in V /\ Played[k + 1] = one(Played[(k + 1) - 1], k + 1)
      BY <1>12, <2>2, <3>1
    <3> HIDE DEF one, V, n
    <3>3. QED
      BY <1>3, <3>1, <3>2
  <2> HIDE DEF T
  <2>3. \A k \in 0 .. n : k \in T
    BY <1>1, <2>1, <2>2, BoundedInduction
  <2> DEFINE val(k) == one(Played[k - 1], k)
  <2>4. \A k \in 0 .. n : val(k) \in V
    <3> HIDE DEF one, V, n
    <3>1. QED
      BY <1>12, <2>3 DEF T
  <2>5. Played = [k \in 0 .. n |-> val(k)]
    BY <1>11
  <2> HIDE DEF val, V, n
  <2>6. QED
    BY <2>4, <2>5
<1>16. QED
  BY <1>13, <1>14, <1>15 DEF IsPlayed

\* What is posted later does not change the game so far.
LEMMA PlayedGrows ==
  ASSUME Playable, IsPlayed, IsPlayed', NEW p \in Posts, Says(p),
         UNCHANGED <<level, runAt>>
  PROVE  \A k \in 0 .. Len(posts) : Played'[k] = Played[k]
<1> DEFINE n == Len(posts)
           T == {k \in 0 .. n : Played'[k] = Played[k]}
<1>1. /\ n \in Nat /\ Len(posts') = n + 1 /\ runAt \in Nat
      /\ \A k \in 1 .. n : posts'[k] = posts[k]
  BY DEF Says, Playable
<1>2. 0 \in T
  <2>1. 0 \in 0 .. n /\ 0 \in 0 .. Len(posts') /\ 0 <= runAt
    BY <1>1
  <2>2. QED
    BY <2>1 DEF IsPlayed
<1>3. ASSUME NEW k \in 0 .. n - 1, k \in T PROVE k + 1 \in T
  <2> DEFINE j == k + 1
  <2>1. /\ j \in 1 .. n /\ j \in 0 .. n /\ j \in 1 .. Len(posts')
        /\ j \in 0 .. Len(posts') /\ j - 1 = k /\ k \in 0 .. n
    BY <1>1
  <2>2. Played'[k] = Played[k] /\ posts'[j] = posts[j]
    BY <1>1, <1>3, <2>1
  <2> HIDE DEF j, n
  <2>3. CASE j <= runAt
    BY <2>1, <2>3 DEF IsPlayed, n, T
  <2>4. CASE ~(j <= runAt)
    <3>1. Played[j] = Carried(j) /\ Played'[j] = Carried(j)'
      BY <2>1, <2>4 DEF IsPlayed, n
    <3>2. Carried(j)' = IF posts'[j].m.op \in Moves \cup Turns
                      THEN Perform(level', Played'[j - 1], posts'[j].m)
                      ELSE Played'[j - 1]
      BY DEF Carried, Perform, ConditionHolds, TileAt, MatrixToVector
    <3>3. Carried(j)' = Carried(j)
      BY <2>1, <2>2, <3>2, Zenon DEF Carried
    <3>4. QED
      BY <2>1, <3>1, <3>3 DEF T
  <2>5. QED
    BY <2>3, <2>4 DEF j
<1> HIDE DEF T
<1>4. \A k \in 0 .. n : k \in T
  BY <1>1, <1>2, <1>3, BoundedInduction
<1>5. QED
  BY <1>4 DEF T

\* Nothing happens to the game where no instruction is posted.
LEMMA PlayedGap ==
  ASSUME Playable, IsPlayed, NEW j \in Nat, NEW k \in Nat, j <= k,
         k <= Len(posts), runAt <= j,
         \A i \in 1 .. Len(posts) : j < i /\ i <= k => posts[i].m.op \notin Operations
  PROVE  Played[k] = Played[j]
<1> DEFINE T == {d \in 0 .. k - j : Played[j + d] = Played[j]}
<1>0. k - j \in Nat /\ Len(posts) \in Nat /\ runAt \in Nat
  BY DEF Playable
<1>1. 0 \in T
  BY <1>0
<1>2. ASSUME NEW d \in 0 .. (k - j) - 1, d \in T PROVE d + 1 \in T
  <2> DEFINE i == j + (d + 1)
  <2>1. /\ i \in 1 .. Len(posts) /\ j < i /\ i <= k /\ ~(i <= runAt) /\ i - 1 = j + d
        /\ d + 1 \in 0 .. k - j
    BY <1>0
  <2> HIDE DEF i
  <2>2. posts[i].m.op \notin Operations
    BY <2>1
  <2>3. Played[i] = Played[i - 1]
    BY <2>1, <2>2 DEF IsPlayed, Carried, Operations
  <2>4. Played[i] = Played[j]
    BY <1>2, <2>1, <2>3
  <2>5. QED
    BY <2>1, <2>4 DEF i
<1> HIDE DEF T
<1>3. k - j \in T
  <2>1. \A d \in 0 .. k - j : d \in T
    BY <1>0, <1>1, <1>2, BoundedInduction
  <2>2. QED
    BY <1>0, <2>1
<1>4. j + (k - j) = k
  OBVIOUS
<1>5. QED
  BY <1>3, <1>4 DEF T

Gapless ==
  \A j, k \in Nat :
    /\ j <= k /\ k <= Len(posts) /\ runAt <= j
    /\ \A i \in 1 .. Len(posts) : j < i /\ i <= k => posts[i].m.op \notin Operations
    => Played[k] = Played[j]

LEMMA PlayedGapless == Playable /\ IsPlayed => Gapless
BY PlayedGap DEF Gapless

-----------------------------------------------------------------------------
(* Engines that differ in the event they announced last.                   *)

Same(e, f) == /\ e.pos = f.pos /\ e.dir = f.dir
              /\ e.valid = f.valid /\ e.done = f.done

LEMMA FieldsOf ==
  ASSUME NEW e \in EngineType
  PROVE  /\ \A p : /\ AtPosition(e, p).pos = p /\ AtPosition(e, p).dir = e.dir
                   /\ AtPosition(e, p).valid = e.valid
                   /\ AtPosition(e, p).done = e.done
         /\ \A d : /\ Facing(e, d).pos = e.pos /\ Facing(e, d).dir = d
                   /\ Facing(e, d).valid = e.valid /\ Facing(e, d).done = e.done
BY DEF AtPosition, Facing, EngineType

LEMMA SameShift ==
  ASSUME NEW e \in EngineType, NEW f \in EngineType, Same(e, f), NEW op
  PROVE  Same(Shifted(e, op), Shifted(f, op))
<1> DEFINE step(g) == dxdy[g.dir + 1]
           sign == IF op = "moveFront" THEN 1 ELSE -1
           q(g) == [x |-> g.pos.x + sign * step(g).x,
                    y |-> g.pos.y + sign * step(g).y]
<1>1. \A g : Shifted(g, op) = AtPosition(g, q(g))
  BY DEF Shifted, AtPosition
<1>2. q(e) = q(f)
  BY DEF Same
<1> HIDE DEF q
<1>3. Same(AtPosition(e, q(e)), AtPosition(f, q(e)))
  BY FieldsOf DEF Same
<1>4. QED
  BY <1>1, <1>2, <1>3

LEMMA SameTurn ==
  ASSUME NEW e \in EngineType, NEW f \in EngineType, Same(e, f), NEW op
  PROVE  Same(Turned(e, op), Turned(f, op))
<1> DEFINE d(g) == IF op = "turnRight" THEN (g.dir + 1) % 4
                   ELSE IF g.dir = 0 THEN 3 ELSE g.dir - 1
<1>1. \A g : Turned(g, op) = Facing(g, d(g))
  BY DEF Turned, Facing
<1>2. d(e) = d(f)
  BY DEF Same
<1> HIDE DEF d
<1>3. Same(Facing(e, d(e)), Facing(f, d(e)))
  BY FieldsOf DEF Same
<1>4. QED
  BY <1>1, <1>2, <1>3

LEMMA SameTests ==
  ASSUME NEW lvl, NEW e \in EngineType, NEW f \in EngineType, Same(e, f), NEW m
  PROVE  /\ IsFinished(e) <=> IsFinished(f)
         /\ ConditionHolds(lvl, e, m) <=> ConditionHolds(lvl, f, m)
         /\ Same(Checked(lvl, e), Checked(lvl, f))
<1>1. Verdict(lvl, e) = Verdict(lvl, f)
  BY DEF Verdict, LeftTheRoute, Same
<1>2. Same(Checked(lvl, e), Checked(lvl, f))
  <2>1. \A g \in EngineType :
          LET v == Verdict(lvl, g)
              c == Checked(lvl, g)
          IN  /\ c.pos = g.pos /\ c.dir = g.dir
              /\ c.valid = IF v = "invalid" THEN FALSE ELSE g.valid
              /\ c.done = IF v # "invalid" /\ v = "done" THEN TRUE ELSE g.done
    BY DEF Checked, EngineType
  <2>2. QED
    BY <1>1, <2>1 DEF Same
<1>3. QED
  BY <1>2 DEF IsFinished, ConditionHolds, Same

LEMMA SameStart ==
  ASSUME NEW lvl, NEW e \in EngineType
  PROVE  Same(Reset(lvl, e), NewEngine(lvl))
<1> DEFINE r == Reset(lvl, e)
           n == NewEngine(lvl)
<1>1. /\ r.pos = StartPosition(lvl) /\ r.dir = 0 /\ r.valid = TRUE /\ r.done = FALSE
  BY DEF Reset, EngineType
<1>2. /\ n.pos = StartPosition(lvl) /\ n.dir = 0 /\ n.valid = TRUE /\ n.done = FALSE
  BY DEF NewEngine
<1> HIDE DEF r, n
<1>3. Same(r, n)
  BY <1>1, <1>2 DEF Same
<1>4. QED
  BY <1>3 DEF r, n

-----------------------------------------------------------------------------
(* The queue holds what the page posted.                                   *)

\* Every instruction from Upcoming on waits; between the one in hand and
\* Upcoming there is none; the run the engine is at was taken.
QueueLink ==
  /\ Len(posts) = sent
  /\ \A k \in DOMAIN instructions : instructions[k].m = posts[instructions[k].n].m
  /\ \A i \in 1 .. sent :
       Upcoming <= i /\ posts[i].m.op \in Operations
         => \E k \in DOMAIN instructions : instructions[k].n = i

HandLink ==
  pc # "idle" =>
    /\ crt.m = posts[crt.n].m
    /\ \A i \in 1 .. sent : crt.n < i /\ i < Upcoming => posts[i].m.op \notin Operations

RunLink ==
  /\ pc = "idle" => runAt < Upcoming
  /\ pc # "idle" => runAt <= crt.n
  /\ pc \notin {"idle", "sleep"} => runAt < crt.n

LinkInv == QueueLink /\ HandLink /\ RunLink

\* What the session and the page are known to keep.
Known == TypeOK /\ Control /\ CancelInv /\ PageInv

LEMMA KnownTypes ==
  ASSUME Known
  PROVE  /\ sent \in Nat /\ runAt \in Nat /\ level \in Levels /\ engine \in EngineType
         /\ instructions \in Seq(Commands)
         /\ \A k \in DOMAIN instructions : /\ instructions[k] \in Commands
                                           /\ instructions[k].n \in Nat \ {0}
                                           /\ instructions[k].n <= sent
         /\ \A j, k \in DOMAIN instructions :
              j < k => instructions[j].n < instructions[k].n
         /\ pc # "idle" => crt \in Commands /\ crt.n \in Nat \ {0} /\ crt.n <= sent
         /\ posts \in Seq(Posts)
<1>1. \A c \in Commands : c.n \in Nat \ {0}
  BY CommandFacts
<1>2. QED
  BY <1>1, InHand DEF Known, TypeOK, CancelInv, InOrder, PageInv

LEMMA UpcomingFacts ==
  ASSUME Known
  PROVE  /\ Upcoming \in Nat \ {0} /\ Upcoming <= sent + 1
         /\ pc # "idle" => crt.n < Upcoming
         /\ instructions # <<>> => 1 \in DOMAIN instructions
                                   /\ Upcoming = instructions[1].n
<1>1. instructions # <<>> => 1 \in DOMAIN instructions
                             /\ Head(instructions) = instructions[1]
  BY KnownTypes, TailFacts
<1>2. CASE instructions # <<>>
  <2>1. Upcoming = instructions[1].n
    BY <1>1, <1>2 DEF Upcoming
  <2>2. pc # "idle" => crt.n < instructions[1].n
    BY <1>1, <1>2 DEF Known, CancelInv, InOrder
  <2>3. QED
    BY <1>1, <1>2, <2>1, <2>2, KnownTypes
<1>3. CASE instructions = <<>>
  BY <1>3, KnownTypes DEF Upcoming
<1>4. QED
  BY <1>2, <1>3

-----------------------------------------------------------------------------
(* Steps of the queue.                                                     *)

\* A message is posted and received.
LEMMA ReceiveLinks ==
  ASSUME Known, Known', LinkInv, NEW p \in Posts, Says(p), Receive(p.m)
  PROVE  LinkInv' /\ (pc = "idle" => Upcoming <= Upcoming')
         /\ \A i \in 1 .. Len(posts') :
              i \in Upcoming .. Upcoming' - 1 => posts'[i].m.op \notin Operations
<1> DEFINE q == instructions
           c == [n |-> sent + 1, m |-> p.m]
<1>1. /\ sent' = sent + 1 /\ UNCHANGED <<pc, crt, runAt>>
      /\ q' = IF p.m.op \in Operations THEN Append(q, c) ELSE q
  BY DEF Receive, history
<1>2. /\ Len(posts') = sent + 1 /\ posts'[sent + 1] = p
      /\ \A i \in 1 .. sent : posts'[i] = posts[i]
  BY KnownTypes DEF Says, LinkInv, QueueLink
<1>3. CASE p.m.op \in Operations
  <2>1. /\ q' = Append(q, c) /\ q \in Seq(Commands)
    BY <1>1, <1>3, KnownTypes
  <2>2. /\ DOMAIN q' = DOMAIN q \cup {Len(q) + 1} /\ q'[Len(q) + 1] = c
        /\ \A k \in DOMAIN q : q'[k] = q[k]
        /\ q' # <<>> /\ Head(q') = IF q = <<>> THEN c ELSE Head(q)
    BY <2>1
  <2>3. Upcoming' = Upcoming
    BY <2>2 DEF Upcoming
  <2>4. \A k \in DOMAIN q : q[k].n \in 1 .. sent
    BY KnownTypes
  <2>5. QueueLink'
    <3>1. \A k \in DOMAIN q' : q'[k].m = posts'[q'[k].n].m
      <4>1. c.m = posts'[c.n].m
        BY <1>2
      <4>2. \A k \in DOMAIN q : q'[k].m = posts'[q'[k].n].m
        BY <1>2, <2>2, <2>4 DEF LinkInv, QueueLink
      <4>3. QED
        BY <2>2, <4>1, <4>2
    <3>2. ASSUME NEW i \in 1 .. sent + 1, Upcoming <= i, posts'[i].m.op \in Operations
          PROVE  \E k \in DOMAIN q' : q'[k].n = i
      <4>1. CASE i = sent + 1
        BY <2>2, <4>1
      <4>2. CASE i # sent + 1
        <5>1. i \in 1 .. sent
          BY <4>2, KnownTypes
        <5>2. PICK k \in DOMAIN q : q[k].n = i
          BY <1>2, <3>2, <5>1 DEF LinkInv, QueueLink
        <5>3. QED
          BY <2>2, <5>2
      <4>3. QED
        BY <4>1, <4>2
    <3>3. QED
      BY <1>1, <1>2, <2>3, <3>1, <3>2 DEF QueueLink
  <2>6. HandLink'
    <3>1. ASSUME pc # "idle"
          PROVE  crt.m = posts'[crt.n].m
      BY <1>2, <3>1, KnownTypes DEF LinkInv, HandLink
    <3>2. ASSUME pc # "idle", NEW i \in 1 .. sent + 1, crt.n < i, i < Upcoming
          PROVE  posts'[i].m.op \notin Operations
      <4>1. i \in 1 .. sent
        BY <3>2, KnownTypes, UpcomingFacts
      <4>2. QED
        BY <1>2, <3>2, <4>1 DEF LinkInv, HandLink
    <3>3. QED
      BY <1>1, <2>3, <3>1, <3>2 DEF HandLink
  <2>7. RunLink'
    BY <1>1, <2>3 DEF LinkInv, RunLink
  <2>8. QED
    BY <2>3, <2>5, <2>6, <2>7, UpcomingFacts DEF LinkInv
<1>4. CASE p.m.op \notin Operations
  <2>1. q' = q
    BY <1>1, <1>4
  <2>2. /\ Upcoming' \in Nat /\ Upcoming <= Upcoming'
        /\ \/ Upcoming' = Upcoming
           \/ Upcoming = sent + 1 /\ Upcoming' = sent + 2
    <3>1. Upcoming = IF q = <<>> THEN sent + 1 ELSE Head(q).n
      BY DEF Upcoming
    <3>2. Upcoming' = IF q = <<>> THEN sent + 2 ELSE Head(q).n
      BY <1>1, <2>1, KnownTypes DEF Upcoming
    <3>3. Upcoming \in Nat /\ sent \in Nat
      BY KnownTypes, UpcomingFacts
    <3>4. QED
      BY <3>1, <3>2, <3>3
  <2>3. ASSUME NEW i \in 1 .. sent + 1
        PROVE  i = sent + 1 => posts'[i].m.op \notin Operations
    BY <1>2, <1>4
  <2>4. QueueLink'
    <3>1. \A k \in DOMAIN q : q[k].m = posts'[q[k].n].m
      <4>1. \A k \in DOMAIN q : q[k].n \in 1 .. sent
        BY KnownTypes
      <4>2. QED
        BY <1>2, <4>1 DEF LinkInv, QueueLink
    <3>2. ASSUME NEW i \in 1 .. sent + 1, Upcoming' <= i, posts'[i].m.op \in Operations
          PROVE  \E k \in DOMAIN q : q[k].n = i
      <4>1. i \in 1 .. sent /\ Upcoming <= i
        BY <2>2, <2>3, <3>2, KnownTypes, UpcomingFacts
      <4>2. QED
        BY <1>2, <3>2, <4>1 DEF LinkInv, QueueLink
    <3>3. QED
      BY <1>1, <1>2, <2>1, <3>1, <3>2 DEF QueueLink
  <2>5. HandLink'
    <3>1. ASSUME pc # "idle"
          PROVE  crt.m = posts'[crt.n].m
      BY <1>2, <3>1, KnownTypes DEF LinkInv, HandLink
    <3>2. ASSUME pc # "idle", NEW i \in 1 .. sent + 1, crt.n < i, i < Upcoming'
          PROVE  posts'[i].m.op \notin Operations
      <4>1. CASE i = sent + 1
        BY <2>3, <4>1
      <4>2. CASE i # sent + 1
        <5>1. i \in 1 .. sent /\ i < Upcoming
          BY <2>2, <3>2, <4>2, KnownTypes, UpcomingFacts
        <5>2. QED
          BY <1>2, <3>2, <5>1 DEF LinkInv, HandLink
      <4>3. QED
        BY <4>1, <4>2
    <3>3. QED
      BY <1>1, <3>1, <3>2 DEF HandLink
  <2>6. RunLink'
    BY <1>1, <2>2, KnownTypes, UpcomingFacts DEF LinkInv, RunLink
  <2>7. ASSUME NEW i \in 1 .. Len(posts'), i \in Upcoming .. Upcoming' - 1
        PROVE  posts'[i].m.op \notin Operations
    BY <1>2, <2>2, <2>3, <2>7, KnownTypes, UpcomingFacts
  <2>8. QED
    BY <2>2, <2>4, <2>5, <2>6, <2>7 DEF LinkInv
<1>5. QED
  BY <1>3, <1>4

LEMMA TailSplit ==
  ASSUME NEW S, NEW q \in Seq(S), q # <<>>
  PROVE  LET t == Tail(q)
         IN  /\ 1 \in DOMAIN q /\ Head(q) = q[1]
             /\ \A k \in DOMAIN t : /\ k \in Nat \ {0} /\ k + 1 \in DOMAIN q
                                    /\ t[k] = q[k + 1]
             /\ \A k \in DOMAIN q :
                  k # 1 => /\ k - 1 \in DOMAIN t /\ t[k - 1] = q[k]
                           /\ t # <<>> /\ 2 \in DOMAIN q /\ (k = 2 \/ 2 < k)
             /\ t # <<>> => Head(t) = q[2] /\ 2 \in DOMAIN q
<1> DEFINE t == Tail(q)
<1>1. /\ t \in Seq(S) /\ Len(t) = Len(q) - 1 /\ Len(q) \in Nat /\ Len(q) > 0
      /\ DOMAIN q = 1 .. Len(q) /\ DOMAIN t = 1 .. Len(q) - 1
      /\ \A k \in 1 .. Len(q) - 1 : t[k] = q[k + 1]
      /\ Head(q) = q[1]
  OBVIOUS
<1>2. t # <<>> <=> Len(q) - 1 > 0
  <2>1. \A u \in Seq(S) : u # <<>> <=> Len(u) > 0
    OBVIOUS
  <2> HIDE DEF t
  <2>2. QED
    BY <1>1, <2>1
<1>3. t # <<>> => Head(t) = t[1]
  BY <1>1
<1> HIDE DEF t
<1>4. \A k \in DOMAIN t : k \in Nat \ {0} /\ k + 1 \in DOMAIN q /\ t[k] = q[k + 1]
  BY <1>1
<1>5. \A k \in DOMAIN q :
        k # 1 => /\ k - 1 \in DOMAIN t /\ t[k - 1] = q[k]
                 /\ t # <<>> /\ 2 \in DOMAIN q /\ (k = 2 \/ 2 < k)
  BY <1>1, <1>2
<1>6. t # <<>> => Head(t) = q[2] /\ 2 \in DOMAIN q
  BY <1>1, <1>2, <1>3
<1>7. QED
  BY <1>1, <1>4, <1>5, <1>6 DEF t

\* The head of the queue is taken; the next one is the next instruction posted.
LEMMA TakeLinks ==
  ASSUME Known, Known', LinkInv, pc = "idle", instructions # <<>>,
         instructions' = Tail(instructions),
         UNCHANGED <<sent, posts, runAt>>,
         \/ pc' = "idle"
         \/ pc' = "guard" /\ crt' = Head(instructions)
  PROVE  /\ LinkInv' /\ Upcoming < Upcoming'
         /\ \A i \in 1 .. sent :
              Upcoming < i /\ i < Upcoming' => posts[i].m.op \notin Operations
<1> DEFINE q == instructions
           t == Tail(instructions)
<1>1. /\ 1 \in DOMAIN q /\ Head(q) = q[1]
      /\ \A k \in DOMAIN t : /\ k \in Nat \ {0} /\ k + 1 \in DOMAIN q /\ t[k] = q[k + 1]
      /\ \A k \in DOMAIN q :
           k # 1 => /\ k - 1 \in DOMAIN t /\ t[k - 1] = q[k]
                    /\ t # <<>> /\ 2 \in DOMAIN q /\ (k = 2 \/ 2 < k)
      /\ t # <<>> => Head(t) = q[2] /\ 2 \in DOMAIN q
  BY KnownTypes, TailSplit
<1>2. Upcoming = q[1].n /\ Upcoming \in Nat \ {0} /\ Upcoming <= sent
  BY <1>1, KnownTypes, UpcomingFacts
<1>3. Upcoming' = IF t = <<>> THEN sent + 1 ELSE q[2].n
  BY <1>1 DEF Upcoming
<1>4. Upcoming < Upcoming' /\ Upcoming' \in Nat
  <2>1. t # <<>> => 1 \in DOMAIN q /\ 2 \in DOMAIN q /\ q[1].n < q[2].n /\ q[2].n \in Nat
    BY <1>1, KnownTypes
  <2>2. QED
    BY <1>2, <1>3, <2>1, KnownTypes
<1>5. ASSUME NEW i \in 1 .. sent, Upcoming < i, posts[i].m.op \in Operations
      PROVE  /\ ~(i < Upcoming')
             /\ \E k \in DOMAIN t : t[k].n = i
  <2>1. PICK k \in DOMAIN q : q[k].n = i
    <3>1. Upcoming <= i
      BY <1>2, <1>5
    <3>2. QED
      BY <1>5, <3>1 DEF LinkInv, QueueLink
  <2>2. k # 1
    BY <1>2, <1>5, <2>1
  <2>3. k - 1 \in DOMAIN t /\ t[k - 1] = q[k] /\ t # <<>> /\ 2 \in DOMAIN q
        /\ (k = 2 \/ 2 < k)
    BY <1>1, <2>2
  <2>4. q[2].n \in Nat /\ q[2].n <= i
    <3>1. q[2].n \in Nat /\ (2 < k => q[2].n < q[k].n) /\ q[k].n \in Nat
      BY <2>3, KnownTypes
    <3>2. QED
      BY <2>1, <2>3, <3>1
  <2>5. ~(i < Upcoming')
    BY <1>3, <2>3, <2>4
  <2>6. QED
    BY <2>1, <2>3, <2>5
<1>6. QueueLink'
  <2>1. \A k \in DOMAIN t : t[k].m = posts[t[k].n].m
    BY <1>1 DEF LinkInv, QueueLink
  <2>2. ASSUME NEW i \in 1 .. sent, Upcoming' <= i, posts[i].m.op \in Operations
        PROVE  \E k \in DOMAIN t : t[k].n = i
    <3>1. Upcoming < i
      BY <1>2, <1>4, <2>2
    <3>2. QED
      BY <1>5, <2>2, <3>1
  <2>3. QED
    BY <2>1, <2>2 DEF LinkInv, QueueLink
<1>7. \A i \in 1 .. sent :
        Upcoming < i /\ i < Upcoming' => posts[i].m.op \notin Operations
  BY <1>5
<1>8. HandLink'
  <2>1. CASE pc' = "guard"
    <3>1. crt' = q[1] /\ crt'.n = Upcoming
      BY <1>1, <1>2, <2>1
    <3>2. q[1].m = posts[q[1].n].m
      BY <1>1 DEF LinkInv, QueueLink
    <3>3. QED
      BY <1>7, <3>1, <3>2 DEF HandLink
  <2>2. QED
    BY <2>1 DEF HandLink
<1>9. RunLink'
  <2>1. runAt \in Nat /\ runAt < Upcoming
    BY KnownTypes DEF LinkInv, RunLink
  <2>2. pc' = "guard" => crt'.n = Upcoming
    BY <1>1, <1>2
  <2>3. QED
    BY <1>2, <1>4, <2>1, <2>2 DEF RunLink
<1>10. QED
  BY <1>4, <1>6, <1>7, <1>8, <1>9 DEF LinkInv

\* The queue is left alone.
LEMMA RestLinks ==
  ASSUME Known, Known', LinkInv,
         UNCHANGED <<instructions, sent, posts>>,
         pc' # "idle" => pc # "idle" /\ crt' = crt,
         \/ UNCHANGED runAt
         \/ pc # "idle" /\ pc' = "sleep" /\ runAt' = crt.n,
         pc \in {"idle", "sleep"} => pc' \in {"idle", "sleep"}
  PROVE  LinkInv' /\ Upcoming' = Upcoming
<1>1. Upcoming' = Upcoming
  BY DEF Upcoming
<1>2. QueueLink' /\ HandLink'
  BY <1>1 DEF LinkInv, QueueLink, HandLink
<1>3. RunLink'
  <2>1. /\ runAt \in Nat /\ Upcoming \in Nat
        /\ pc # "idle" => crt.n \in Nat /\ crt.n < Upcoming
    BY KnownTypes, UpcomingFacts
  <2>2. CASE UNCHANGED runAt
    BY <1>1, <2>1, <2>2 DEF LinkInv, RunLink
  <2>3. CASE pc # "idle" /\ pc' = "sleep" /\ runAt' = crt.n
    BY <2>1, <2>3 DEF RunLink
  <2>4. QED
    BY <2>2, <2>3
<1>4. QED
  BY <1>1, <1>2, <1>3 DEF LinkInv

-----------------------------------------------------------------------------
(* The ship.                                                               *)

\* While an engine is not stopped it is where the game played by hand is: ahead
\* of the instruction in hand until it is carried out, behind it after that.
Follows ==
  engine.valid =>
    /\ pc = "idle" => Same(engine, Played[Upcoming - 1])
    /\ pc = "sleep" => Same(engine, Played[crt.n])
    /\ pc \in {"guard", "inner", "move"} /\ crt.m.op # "run"
         => Same(engine, Played[crt.n - 1])
    /\ pc = "move" => ConditionHolds(level, engine, crt.m)
    /\ pc = "check" =>
         LET e == Played[crt.n - 1]
         IN  /\ ~IsFinished(e) /\ ConditionHolds(level, e, crt.m)
             /\ Same(engine, Shifted(e, crt.m.op))

FollowInv == LinkInv /\ IsPlayed /\ Follows

LEMMA KnownPlayable == Known => Playable
BY KnownTypes DEF Playable

\* A game that is over stays as it is.
LEMMA PlayedStays ==
  ASSUME Known, LinkInv, IsPlayed, NEW n \in 1 .. sent, runAt < n,
         \/ IsFinished(Played[n - 1])
         \/ ~ConditionHolds(level, Played[n - 1], posts[n].m)
         \/ posts[n].m.op \notin Moves \cup Turns
  PROVE  Played[n] = Played[n - 1]
<1>1. n \in 1 .. Len(posts) /\ ~(n <= runAt)
  BY KnownTypes DEF LinkInv, QueueLink
<1>2. QED
  BY <1>1 DEF IsPlayed, Carried, Perform

LEMMA PlayedTypes ==
  ASSUME Known, LinkInv, IsPlayed
  PROVE  \A k \in 0 .. sent : Played[k] \in EngineType
BY DEF LinkInv, QueueLink, IsPlayed

\* When the head is skipped, or taken, or carried out.
LEMMA PlayedUpcoming ==
  ASSUME Known, LinkInv, IsPlayed, NEW j \in 0 .. sent, NEW u \in Nat, j < u,
         u <= sent + 1, runAt <= j,
         \A i \in 1 .. sent : j < i /\ i < u => posts[i].m.op \notin Operations
  PROVE  Played[u - 1] = Played[j]
<1>1. /\ j \in Nat /\ u - 1 \in Nat /\ j <= u - 1 /\ u - 1 <= Len(posts)
      /\ Len(posts) = sent
  BY KnownTypes DEF LinkInv, QueueLink
<1>2. \A i \in 1 .. Len(posts) : j < i /\ i <= u - 1 => posts[i].m.op \notin Operations
  BY <1>1
<1>3. QED
  BY <1>1, <1>2, PlayedGap, KnownPlayable

LEMMA ReceiveFollows ==
  ASSUME Known, Known', FollowInv, NEW p \in Posts, Says(p), Receive(p.m)
  PROVE  FollowInv'
<1>1. LinkInv' /\ (pc = "idle" => Upcoming <= Upcoming')
      /\ \A i \in 1 .. Len(posts') :
           i \in Upcoming .. Upcoming' - 1 => posts'[i].m.op \notin Operations
  BY ReceiveLinks DEF FollowInv
<1>2. IsPlayed /\ IsPlayed' /\ Playable
  <2>1. Known' => Playable'
    BY KnownPlayable, PTL
  <2>2. Playable' => IsPlayed'
    BY PlayedFacts, PTL
  <2>3. QED
    BY <2>1, <2>2, KnownPlayable DEF FollowInv
<1>3. /\ UNCHANGED <<level, engine, pc, crt, runAt>> /\ sent' = sent + 1
      /\ Len(posts) = sent
  BY DEF Receive, history, FollowInv, LinkInv, QueueLink
<1>4. \A k \in 0 .. sent : Played'[k] = Played[k]
  BY <1>2, <1>3, PlayedGrows
<1>5. pc # "idle" => crt.n \in 0 .. sent /\ crt.n - 1 \in 0 .. sent
  BY KnownTypes
<1>6. ASSUME pc = "idle" PROVE Played'[Upcoming' - 1] = Played[Upcoming - 1]
  <2>1. /\ Upcoming \in Nat \ {0} /\ Upcoming <= sent + 1 /\ sent \in Nat
        /\ Upcoming <= Upcoming' /\ runAt < Upcoming /\ runAt \in Nat
    BY <1>1, <1>6, KnownTypes, UpcomingFacts DEF FollowInv, LinkInv, RunLink
  <2>2. Upcoming' \in Nat /\ Upcoming' <= sent' + 1
    <3>1. Known' => (Upcoming \in Nat \ {0} /\ Upcoming <= sent + 1)'
      BY UpcomingFacts, PTL
    <3>2. QED
      BY <3>1
  <2> DEFINE j == Upcoming - 1
             k == Upcoming' - 1
  <2>3. /\ j \in Nat /\ k \in Nat /\ j <= k /\ k <= Len(posts') /\ runAt <= j
        /\ j \in 0 .. sent
    <3>1. Len(posts') = sent'
      BY <1>1 DEF LinkInv, QueueLink
    <3>2. \A x, y, z \in Nat :
            x # 0 /\ x <= z + 1 /\ x <= y /\ y <= z + 2
              => /\ x - 1 \in Nat /\ y - 1 \in Nat /\ x - 1 <= y - 1 /\ y - 1 <= z + 1
                 /\ x - 1 \in 0 .. z
      OBVIOUS
    <3>3. runAt <= Upcoming - 1
      BY <2>1
    <3>4. Upcoming' <= sent + 2
      BY <1>3, <2>1, <2>2
    <3>5. QED
      BY <1>3, <2>1, <2>2, <3>1, <3>2, <3>3, <3>4
  <2>4. \A i \in 1 .. Len(posts') : j < i /\ i <= k => posts'[i].m.op \notin Operations
    <3> SUFFICES ASSUME NEW i \in 1 .. Len(posts'), j < i, i <= k
                 PROVE  posts'[i].m.op \notin Operations
      OBVIOUS
    <3>1. i \in Upcoming .. Upcoming' - 1
      <4>1. i \in Nat /\ Upcoming \in Nat /\ Upcoming' \in Nat
        BY <2>1, <2>2
      <4>2. \A x, y, z \in Nat : y - 1 < x /\ x <= z - 1 => x \in y .. z - 1
        OBVIOUS
      <4>3. QED
        BY <4>1, <4>2, Zenon
    <3>2. QED
      BY <1>1, <3>1
  <2>5. Playable' /\ IsPlayed'
    <3>1. Known' => Playable'
      BY KnownPlayable, PTL
    <3>2. QED
      BY <1>2, <3>1
  <2>6. Played'[k] = Played'[j]
    <3>1. Playable' /\ IsPlayed' => Gapless'
      BY PlayedGapless, PTL
    <3>2. Gapless'
      BY <2>5, <3>1
    <3>3. runAt' <= j
      BY <1>3, <2>3
    <3> HIDE DEF j, k
    <3>4. QED
      BY <2>3, <2>4, <3>2, <3>3 DEF Gapless
  <2>7. QED
    BY <1>4, <2>3, <2>6
<1>7. Follows'
  BY <1>3, <1>4, <1>5, <1>6 DEF Follows, FollowInv
<1>8. QED
  BY <1>1, <1>2, <1>7 DEF FollowInv

\* The step is none of the page and resets nothing.
Quiet == UNCHANGED <<level, sent, posts, runAt>>

LEMMA QuietPlayed ==
  ASSUME Quiet, IsPlayed
  PROVE  Played' = Played /\ IsPlayed'
<1>1. Played' = Played
  BY DEF Quiet, Played, NewEngine, StartPosition, Perform, ConditionHolds, TileAt,
         MatrixToVector
<1>2. IsPlayed'
  BY <1>1 DEF Quiet, IsPlayed, Carried, Perform, ConditionHolds, TileAt,
              MatrixToVector
<1>3. QED
  BY <1>1, <1>2

\* The instruction in hand, and the games before and after it.
LEMMA HandFacts ==
  ASSUME Known, FollowInv, pc # "idle"
  PROVE  LET e == Played[crt.n - 1]
         IN  /\ crt.n \in 1 .. sent /\ crt.m = posts[crt.n].m /\ crt.m \in Messages
             /\ e \in EngineType /\ engine \in EngineType
             /\ pc # "sleep" => runAt < crt.n
             /\ \/ IsFinished(e) \/ ~ConditionHolds(level, e, crt.m)
                \/ crt.m.op \notin Moves \cup Turns
                => (runAt < crt.n => Played[crt.n] = e)
             /\ ~IsFinished(e) /\ ConditionHolds(level, e, crt.m)
                => (runAt < crt.n =>
                     /\ crt.m.op \in Moves =>
                          Played[crt.n] = Checked(level, Shifted(e, crt.m.op))
                     /\ crt.m.op \in Turns => Played[crt.n] = Turned(e, crt.m.op))
<1> DEFINE e == Played[crt.n - 1]
           n == crt.n
<1>1. n \in 1 .. sent /\ crt.m \in Messages /\ engine \in EngineType
  <2>1. crt \in Commands /\ n \in Nat \ {0} /\ n <= sent /\ sent \in Nat
        /\ engine \in EngineType
    BY KnownTypes
  <2>2. QED
    BY <2>1, CommandFacts
<1>2. crt.m = posts[n].m /\ (pc # "sleep" => runAt < n)
  <2>1. crt.m = posts[n].m
    BY DEF FollowInv, LinkInv, HandLink
  <2>2. pc # "sleep" => pc \notin {"idle", "sleep"}
    OBVIOUS
  <2>3. pc # "sleep" => runAt < crt.n
    BY <2>2 DEF FollowInv, LinkInv, RunLink
  <2>4. QED
    BY <2>1, <2>3
<1>3. n - 1 \in 0 .. sent
  <2>1. sent \in Nat
    BY KnownTypes
  <2> HIDE DEF n
  <2>2. QED
    BY <1>1, <2>1
<1>4. e \in EngineType
  BY <1>3, PlayedTypes DEF FollowInv
<1>5. runAt < n => n \in 1 .. Len(posts) /\ ~(n <= runAt)
  BY <1>1, KnownTypes DEF FollowInv, LinkInv, QueueLink
<1>6. runAt < n => Played[n] = IF crt.m.op \in Moves \cup Turns
                               THEN Perform(level, e, crt.m) ELSE e
  BY <1>2, <1>5 DEF FollowInv, IsPlayed, Carried
<1>7. \A op : op \in Turns => op \notin Moves
  BY DEF Moves, Turns
<1> HIDE DEF e, n
<1>8. \/ IsFinished(e) \/ ~ConditionHolds(level, e, crt.m)
      \/ crt.m.op \notin Moves \cup Turns
      => (runAt < n => Played[n] = e)
  BY <1>6 DEF Perform
<1>9. ~IsFinished(e) /\ ConditionHolds(level, e, crt.m)
      => (runAt < n =>
           /\ crt.m.op \in Moves => Played[n] = Checked(level, Shifted(e, crt.m.op))
           /\ crt.m.op \in Turns => Played[n] = Turned(e, crt.m.op))
  BY <1>6, <1>7 DEF Perform
<1>10. QED
  BY <1>1, <1>2, <1>4, <1>8, <1>9 DEF e, n

LEMMA SkipFollows ==
  ASSUME Known, Known', FollowInv, SkipInstruction, Quiet
  PROVE  FollowInv'
<1>1. LinkInv' /\ Upcoming < Upcoming'
      /\ \A i \in 1 .. sent :
           Upcoming < i /\ i < Upcoming' => posts[i].m.op \notin Operations
  BY TakeLinks DEF FollowInv, SkipInstruction, Quiet
<1>2. Played' = Played /\ IsPlayed'
  BY QuietPlayed DEF FollowInv
<1> DEFINE n == Upcoming
<1>3. /\ n \in Nat \ {0} /\ n <= sent /\ Head(instructions).m = posts[n].m
      /\ sent \in Nat
  <2>1. /\ 1 \in DOMAIN instructions /\ n = instructions[1].n /\ n \in Nat \ {0}
        /\ Head(instructions) = instructions[1]
    BY UpcomingFacts, KnownTypes, TailFacts DEF SkipInstruction
  <2>2. instructions[1].m = posts[n].m
    BY <2>1 DEF FollowInv, LinkInv, QueueLink
  <2>3. QED
    BY <2>1, <2>2, KnownTypes
<1>4. Upcoming' \in Nat /\ Upcoming' <= sent + 1
  <2>1. Known' => (Upcoming \in Nat \ {0} /\ Upcoming <= sent + 1)'
    BY UpcomingFacts, PTL
  <2>2. QED
    BY <2>1 DEF Quiet
<1>5. runAt \in Nat /\ runAt < n
  BY KnownTypes DEF FollowInv, LinkInv, RunLink, SkipInstruction
<1>6. ASSUME engine.valid PROVE Played[n] = Played[n - 1] /\ Same(engine, Played[n - 1])
  <2>1. Same(engine, Played[n - 1]) /\ IsFinished(engine)
    BY <1>6 DEF FollowInv, Follows, SkipInstruction
  <2>2. IsFinished(Played[n - 1])
    BY <2>1 DEF Same, IsFinished
  <2>3. n \in 1 .. sent
    BY <1>3
  <2> HIDE DEF n
  <2>4. Played[n] = Played[n - 1]
    BY <1>5, <2>2, <2>3, PlayedStays DEF FollowInv
  <2>5. QED
    BY <2>1, <2>4
<1>7. Played[Upcoming' - 1] = Played[n]
  <2>1. n \in 0 .. sent /\ n < Upcoming' /\ runAt <= n
    BY <1>1, <1>3, <1>5
  <2>2. \A i \in 1 .. sent : n < i /\ i < Upcoming' => posts[i].m.op \notin Operations
    BY <1>1
  <2> HIDE DEF n
  <2>3. QED
    BY <1>4, <2>1, <2>2, PlayedUpcoming DEF FollowInv
<1>8. Follows'
  <2>1. engine' = engine /\ pc' = "idle"
    BY DEF SkipInstruction
  <2>2. engine.valid => Same(engine, Played[Upcoming' - 1])
    BY <1>6, <1>7
  <2>3. QED
    BY <1>2, <2>1, <2>2 DEF Follows
<1>9. QED
  BY <1>1, <1>2, <1>8 DEF FollowInv

LEMMA TakeFollows ==
  ASSUME Known, Known', FollowInv, TakeInstruction, Quiet
  PROVE  FollowInv'
<1>1. LinkInv'
  BY TakeLinks DEF FollowInv, TakeInstruction, Quiet
<1>2. Played' = Played /\ IsPlayed'
  BY QuietPlayed DEF FollowInv
<1>3. crt'.n = Upcoming /\ engine' = engine /\ pc' = "guard" /\ pc = "idle"
  BY DEF TakeInstruction, Upcoming
<1>4. Follows'
  BY <1>2, <1>3 DEF FollowInv, Follows
<1>5. QED
  BY <1>1, <1>2, <1>4 DEF FollowInv

LEMMA ResetFollows ==
  ASSUME Known, Known', FollowInv, ResetLevel, posts' = posts
  PROVE  FollowInv'
<1>1. LinkInv'
  BY RestLinks DEF FollowInv, ResetLevel
<1>2. IsPlayed'
  <2>1. Known' => Playable'
    BY KnownPlayable, PTL
  <2>2. Playable' => IsPlayed'
    BY PlayedFacts, PTL
  <2>3. QED
    BY <2>1, <2>2
<1>3. /\ level' = level /\ runAt' = crt.n /\ crt' = crt /\ pc' = "sleep"
      /\ engine' = Reset(level, engine)
  BY DEF ResetLevel
<1>4. Played'[crt.n] = NewEngine(level)
  <2>1. crt.n \in 0 .. Len(posts') /\ crt.n <= runAt'
    <3>1. crt.n \in Nat /\ crt.n <= sent /\ sent \in Nat /\ Len(posts) = sent
      BY KnownTypes DEF ResetLevel, FollowInv, LinkInv, QueueLink
    <3>2. QED
      BY <1>3, <3>1
  <2>2. NewEngine(level)' = NewEngine(level)
    BY <1>3 DEF NewEngine, StartPosition, VectorToMatrix
  <2>3. QED
    BY <1>2, <2>1, <2>2 DEF IsPlayed
<1>5. Same(engine', Played'[crt.n])
  <2>1. engine \in EngineType
    BY KnownTypes
  <2>2. QED
    BY <1>3, <1>4, <2>1, SameStart
<1>6. Follows'
  BY <1>3, <1>5 DEF Follows
<1>7. QED
  BY <1>1, <1>2, <1>6 DEF FollowInv

\* The other steps of an instruction: only the engine and the place differ.
LEMMA HandFollows ==
  ASSUME Known, Known', FollowInv, Quiet, UNCHANGED instructions,
         pc # "idle", pc' # "idle", crt' = crt, pc = "sleep" => pc' = "sleep",
         engine'.valid =>
           /\ pc' = "sleep" => Same(engine', Played[crt.n])
           /\ pc' \in {"guard", "inner", "move"} => Same(engine', Played[crt.n - 1])
           /\ pc' = "move" => ConditionHolds(level, engine', crt.m)
           /\ pc' = "check" =>
                LET e == Played[crt.n - 1]
                IN  /\ ~IsFinished(e) /\ ConditionHolds(level, e, crt.m)
                    /\ Same(engine', Shifted(e, crt.m.op))
  PROVE  FollowInv'
<1>1. LinkInv'
  BY RestLinks DEF FollowInv, Quiet
<1>2. Played' = Played /\ IsPlayed' /\ level' = level
  BY QuietPlayed DEF FollowInv, Quiet
<1>3. Follows'
  <2>1. \A e, m : ConditionHolds(level, e, m)' <=> ConditionHolds(level', e', m')
    BY DEF ConditionHolds, TileAt, MatrixToVector
  <2>2. QED
    BY <1>2, Zenon DEF Follows
<1>4. QED
  BY <1>1, <1>2, <1>3 DEF FollowInv

LEMMA WorkFollows ==
  ASSUME Known, Known', FollowInv, posts' = posts,
         Refused \/ TestColour \/ BeginOperation \/ Move \/ Check
  PROVE  FollowInv'
<1> DEFINE e == Played[crt.n - 1]
           op == crt.m.op
<1>1. /\ Quiet /\ UNCHANGED instructions /\ crt' = crt /\ level' = level
      /\ pc \in {"guard", "inner", "move", "check"}
      /\ pc' \in {"inner", "move", "check", "sleep"}
  <2>1. Quiet /\ UNCHANGED instructions /\ crt' = crt /\ level' = level
    BY DEF Refused, TestColour, BeginOperation, Move, Check, Quiet, history
  <2>2. /\ pc \in {"guard", "inner", "move", "check"}
        /\ pc' \in {"inner", "move", "check", "sleep"}
    BY DEF Refused, TestColour, BeginOperation, Move, Check
  <2>3. QED
    BY <2>1, <2>2
<1>2. /\ e \in EngineType /\ engine \in EngineType
      /\ \/ IsFinished(e) \/ ~ConditionHolds(level, e, crt.m)
         \/ op \notin Moves \cup Turns
         => Played[crt.n] = e
      /\ ~IsFinished(e) /\ ConditionHolds(level, e, crt.m)
         => /\ op \in Moves => Played[crt.n] = Checked(level, Shifted(e, op))
            /\ op \in Turns => Played[crt.n] = Turned(e, op)
  <2>1. runAt < crt.n
    BY <1>1, HandFacts
  <2>2. QED
    BY <1>1, <2>1, HandFacts
<1>3. ASSUME Same(engine, e)
      PROVE  /\ IsFinished(engine) <=> IsFinished(e)
             /\ ConditionHolds(level, engine, crt.m) <=> ConditionHolds(level, e, crt.m)
  BY <1>2, <1>3, SameTests
<1>4. engine.valid /\ pc \in {"guard", "inner", "move"} /\ op # "run"
        => Same(engine, e)
  BY DEF FollowInv, Follows
<1> DEFINE Goal == engine'.valid =>
             /\ pc' = "sleep" => Same(engine', Played[crt.n])
             /\ pc' \in {"guard", "inner", "move"} => Same(engine', e)
             /\ pc' = "move" => ConditionHolds(level, engine', crt.m)
             /\ pc' = "check" => /\ ~IsFinished(e) /\ ConditionHolds(level, e, crt.m)
                                 /\ Same(engine', Shifted(e, op))
<1>5. ASSUME Refused PROVE Goal
  <2>1. engine' = engine /\ pc' = "sleep" /\ IsFinished(engine) /\ op # "run"
        /\ pc \in {"guard", "inner", "move"}
    BY <1>5 DEF Refused
  <2> HIDE DEF e, op
  <2>2. engine.valid => Same(engine, Played[crt.n])
    BY <1>2, <1>3, <1>4, <2>1
  <2>3. QED
    BY <2>1, <2>2
<1>6. ASSUME TestColour PROVE Goal
  <2>1. /\ engine' = engine /\ op # "run" /\ pc \in {"guard", "inner", "move"}
        /\ \/ pc' = "inner"
           \/ pc' = "sleep" /\ ~ConditionHolds(level, engine, crt.m)
    BY <1>6 DEF TestColour
  <2> HIDE DEF e, op
  <2>2. engine.valid => Same(engine, e)
    BY <1>4, <2>1
  <2>3. engine.valid /\ ~ConditionHolds(level, engine, crt.m)
          => Same(engine, Played[crt.n])
    BY <1>2, <1>3, <2>2
  <2>4. QED
    BY <2>1, <2>2, <2>3
<1>7. ASSUME BeginOperation PROVE Goal
  <2>1. /\ ~IsFinished(engine) /\ op # "run" /\ pc \in {"guard", "inner", "move"}
        /\ ConditionHolds(level, engine, crt.m)
    BY <1>7 DEF BeginOperation, Known, Control, ConditionHolds
  <2>2. \/ op \in Turns /\ engine' = Turned(engine, op) /\ pc' = "sleep"
        \/ engine' = engine /\ pc' = "move"
    BY <1>7 DEF BeginOperation
  <2> HIDE DEF op, e
  <2>3. engine.valid
    BY <2>1 DEF IsFinished
  <2>4. Same(engine, e) /\ ~IsFinished(e) /\ ConditionHolds(level, e, crt.m)
    BY <1>3, <1>4, <2>1, <2>3
  <2>5. op \in Turns => Same(Turned(engine, op), Played[crt.n])
    BY <1>2, <2>4, SameTurn
  <2>6. QED
    BY <2>1, <2>2, <2>4, <2>5
<1>8. ASSUME Move PROVE Goal
  <2>1. /\ engine' = Shifted(engine, op) /\ pc' = "check" /\ pc = "move"
        /\ op \in Moves /\ ~engine.done
    BY <1>8 DEF Move, Known, Control
  <2>2. op # "run"
    BY <2>1 DEF Moves
  <2>3. engine'.valid = engine.valid
    BY <1>2, <2>1, ShiftedFields
  <2>4. engine.valid => Same(engine, e) /\ ConditionHolds(level, engine, crt.m)
    BY <1>4, <2>1, <2>2 DEF FollowInv, Follows
  <2> HIDE DEF op, e
  <2>5. ASSUME engine.valid
        PROVE  /\ ~IsFinished(e) /\ ConditionHolds(level, e, crt.m)
               /\ Same(engine', Shifted(e, op))
    <3>1. ~IsFinished(engine)
      BY <2>1, <2>5 DEF IsFinished
    <3>2. Same(engine', Shifted(e, op))
      BY <1>2, <2>1, <2>4, <2>5, SameShift
    <3>3. QED
      BY <1>3, <2>4, <2>5, <3>1, <3>2
  <2>6. QED
    BY <2>1, <2>3, <2>5
<1>9. ASSUME Check PROVE Goal
  <2>1. /\ engine' = Checked(level, engine) /\ pc' = "sleep" /\ pc = "check"
        /\ op \in Moves
    BY <1>9 DEF Check, Known, Control
  <2>2. engine'.valid => engine.valid
    BY <1>2, <2>1 DEF Checked, EngineType
  <2>3. engine.valid => /\ ~IsFinished(e) /\ ConditionHolds(level, e, crt.m)
                        /\ Same(engine, Shifted(e, op))
    BY <2>1 DEF FollowInv, Follows
  <2> HIDE DEF op, e
  <2>4. Shifted(e, op) \in EngineType
    BY <1>2, <2>1, ShiftedFields
  <2>5. engine.valid => Same(Checked(level, engine), Checked(level, Shifted(e, op)))
    BY <1>2, <2>3, <2>4, SameTests
  <2>6. engine.valid => Same(engine', Played[crt.n])
    BY <1>2, <2>1, <2>3, <2>5
  <2>7. QED
    BY <2>1, <2>2, <2>6
<1>10. Goal
  BY <1>5, <1>6, <1>7, <1>8, <1>9
<1> HIDE DEF Goal
<1>11. QED
  <2>1. engine'.valid =>
          /\ pc' = "sleep" => Same(engine', Played[crt.n])
          /\ pc' \in {"guard", "inner", "move"} => Same(engine', Played[crt.n - 1])
          /\ pc' = "move" => ConditionHolds(level, engine', crt.m)
          /\ pc' = "check" =>
                LET f == Played[crt.n - 1]
                IN  /\ ~IsFinished(f) /\ ConditionHolds(level, f, crt.m)
                    /\ Same(engine', Shifted(f, crt.m.op))
    BY <1>10, Zenon DEF Goal
  <2>2. pc # "idle" /\ pc' # "idle" /\ pc # "sleep"
    BY <1>1
  <2>3. QED
    BY <1>1, <2>1, <2>2, HandFollows

LEMMA EndFollows ==
  ASSUME Known, Known', FollowInv, EndInstruction, Quiet
  PROVE  FollowInv'
<1>1. LinkInv' /\ Upcoming' = Upcoming
  BY RestLinks DEF FollowInv, EndInstruction, Quiet
<1>2. Played' = Played /\ IsPlayed'
  BY QuietPlayed DEF FollowInv
<1>3. pc = "sleep" /\ pc' = "idle" /\ engine' = engine
  BY DEF EndInstruction
<1>4. /\ crt.n \in 0 .. sent /\ crt.n < Upcoming /\ Upcoming \in Nat
      /\ Upcoming <= sent + 1 /\ runAt <= crt.n
      /\ \A i \in 1 .. sent : crt.n < i /\ i < Upcoming => posts[i].m.op \notin Operations
  <2>1. crt.n \in 0 .. sent
    BY <1>3, KnownTypes
  <2>2. QED
    BY <1>3, <2>1, UpcomingFacts DEF FollowInv, LinkInv, RunLink, HandLink
<1>5. Played[Upcoming - 1] = Played[crt.n]
  BY <1>4, PlayedUpcoming DEF FollowInv
<1>6. engine.valid => Same(engine, Played[crt.n])
  BY <1>3 DEF FollowInv, Follows
<1>7. Follows'
  BY <1>1, <1>2, <1>3, <1>5, <1>6 DEF Follows
<1>8. QED
  BY <1>1, <1>2, <1>7 DEF FollowInv

\* The steps beside the instructions thread.
LEMMA BesideFollows ==
  ASSUME Known, Known', FollowInv, posts' = posts,
         \/ RunMainQueue \/ DismissPopup \/ NavigateBack \/ HandleEvent
         \/ UNCHANGED vars
  PROVE  FollowInv'
<1>1. /\ Quiet /\ UNCHANGED <<instructions, pc, crt>>
      /\ engine' = engine \/ engine' = Stopped(engine)
  BY DEF RunMainQueue, DismissPopup, NavigateBack, HandleEvent, vars, threadVars,
         history, Quiet
<1>2. LinkInv' /\ Upcoming' = Upcoming
  BY <1>1, RestLinks DEF FollowInv, Quiet
<1>3. Played' = Played /\ IsPlayed' /\ level' = level
  BY <1>1, QuietPlayed DEF FollowInv, Quiet
<1>4. Follows'
  <2>1. CASE engine' = engine
    <3>1. \A e, m : ConditionHolds(level, e, m)' <=> ConditionHolds(level', e', m')
      BY DEF ConditionHolds, TileAt, MatrixToVector
    <3>2. QED
      BY <1>1, <1>2, <1>3, <2>1, <3>1, Zenon DEF FollowInv, Follows
  <2>2. CASE engine' = Stopped(engine)
    <3>1. ~engine'.valid
      BY <2>2, KnownTypes, StoppedFields
    <3>2. QED
      BY <3>1 DEF Follows
  <2>3. QED
    BY <1>1, <2>1, <2>2
<1>5. QED
  BY <1>2, <1>3, <1>4 DEF FollowInv

LEMMA FollowStep ==
  ASSUME Known, Known', FollowInv, [SystemNext]_systemVars
  PROVE  FollowInv'
<1>1. CASE \E p \in Posts : Says(p) /\ Receive(p.m)
  BY <1>1, ReceiveFollows
<1>2. CASE posts' = posts /\ InstructionsThread
  <2>1. CASE ResetLevel
    BY <1>2, <2>1, ResetFollows
  <2>2. CASE SkipInstruction \/ TakeInstruction \/ EndInstruction
    <3>1. Quiet
      BY <1>2, <2>2 DEF SkipInstruction, TakeInstruction, EndInstruction, Quiet, history
    <3>2. QED
      BY <2>2, <3>1, SkipFollows, TakeFollows, EndFollows
  <2>3. CASE Refused \/ TestColour \/ BeginOperation \/ Move \/ Check
    BY <1>2, <2>3, WorkFollows
  <2>4. QED
    BY <1>2, <2>1, <2>2, <2>3 DEF InstructionsThread
<1>3. CASE posts' = posts /\ Steps /\ ~InstructionsThread
  BY <1>3, BesideFollows DEF Steps
<1>4. PageInv
  BY DEF Known
<1>5. QED
  BY <1>1, <1>2, <1>3, <1>4, SystemCases

LEMMA FollowStart ==
  ASSUME SystemInit, Known
  PROVE  FollowInv
<1>1. /\ posts = <<>> /\ sent = 0 /\ instructions = <<>> /\ pc = "idle" /\ runAt = 0
      /\ engine = NewEngine(level) /\ level \in Levels
  BY DEF SystemInit, Init, VMInit
<1>2. Upcoming = 1
  BY <1>1 DEF Upcoming
<1>3. LinkInv
  BY <1>1, <1>2 DEF LinkInv, QueueLink, HandLink, RunLink
<1>4. IsPlayed
  BY KnownPlayable, PlayedFacts
<1>5. Played[0] = NewEngine(level)
  BY <1>1, <1>4 DEF IsPlayed
<1>6. Follows
  <2>1. Same(engine, Played[Upcoming - 1])
    BY <1>1, <1>2, <1>5 DEF Same
  <2>2. QED
    BY <1>1, <2>1 DEF Follows
<1>7. QED
  BY <1>3, <1>4, <1>6 DEF FollowInv

\* Between two instructions, a game that is not stopped is where the
\* instructions of its run lead to, one after the other, for every level and
\* every program, however the threads, the stops and the runs interleave.
THEOREM ShipFollows == SystemSpec => []ShipFollowsPage
<1>1. SystemSpec => []Known
  <2>1. SystemSpec => []PageInv
    <3>1. SystemInit => PageInv
      BY VMStart DEF SystemInit
    <3>2. PageInv /\ [SystemNext]_systemVars => PageInv'
      BY SystemStep
    <3>3. QED
      BY <3>1, <3>2, PTL DEF SystemSpec
  <2>2. Known <=> (TypeOK /\ Control) /\ CancelInv /\ PageInv
    BY DEF Known
  <2>3. QED
    BY <2>1, <2>2, PageIsASession, SessionTypeCorrect, SessionInOrder, PTL
<1>2. SystemInit /\ Known => FollowInv
  BY FollowStart
<1>3. Known /\ Known' /\ FollowInv /\ [SystemNext]_systemVars => FollowInv'
  BY FollowStep
<1>4. Known /\ FollowInv => ShipFollowsPage
  BY DEF FollowInv, Follows, ShipFollowsPage, Same
<1>5. QED
  BY <1>1, <1>2, <1>3, <1>4, PTL DEF SystemSpec


-----------------------------------------------------------------------------
(* Meanings.                                                               *)

Values == [says: Seq(Instructions), ends: BOOLEAN]

LEMMA ValueFacts ==
  ASSUME NEW x \in Values
  PROVE  /\ x.says \in Seq(Instructions) /\ x.ends \in BOOLEAN
         /\ x = [says |-> x.says, ends |-> x.ends]
  BY DEF Values

LEMMA NothingType == Nothing \in Values /\ Nothing.says = <<>> /\ ~Nothing.ends
  BY DEF Nothing, Values

LEMMA ThenType ==
  ASSUME NEW x \in Values, NEW y \in Values
  PROVE  Then(x, y) \in Values
<1>1. x.says \o y.says \in Seq(Instructions) /\ y.ends \in BOOLEAN
  BY ValueFacts
<1>2. QED
  BY <1>1 DEF Then, Values

LEMMA ThenFacts ==
  ASSUME NEW x \in Values, NEW y \in Values
  PROVE  /\ x.ends => Then(x, y) = x
         /\ ~x.ends => /\ Then(x, y).says = x.says \o y.says
                       /\ Then(x, y).ends = y.ends
  BY DEF Then

LEMMA ValueEqual ==
  ASSUME NEW x \in Values, NEW y \in Values, x.says = y.says, x.ends = y.ends
  PROVE  x = y
  BY ValueFacts

LEMMA SaysNothing ==
  ASSUME NEW S, NEW s \in Seq(S)
  PROVE  s \o <<>> = s /\ <<>> \o s = s
  OBVIOUS

LEMMA ThenNothing ==
  ASSUME NEW x \in Values
  PROVE  Then(Nothing, x) = x /\ Then(x, Nothing) = x
<1>1. Then(Nothing, x) \in Values /\ Then(x, Nothing) \in Values
  BY ThenType, NothingType
<1>2. x.says \o <<>> = x.says /\ <<>> \o x.says = x.says
  BY ValueFacts, SaysNothing
<1>3. Then(Nothing, x) = x
  <2>1. Then(Nothing, x).says = <<>> \o x.says /\ Then(Nothing, x).ends = x.ends
    BY NothingType, ThenFacts
  <2>2. Then(Nothing, x).says = x.says
    BY <1>2, <2>1
  <2>3. QED
    BY <1>1, <2>1, <2>2, ValueEqual
<1>4. Then(x, Nothing) = x
  <2>1. CASE x.ends
    BY <2>1, NothingType, ThenFacts
  <2>2. CASE ~x.ends
    <3>1. Then(x, Nothing).says = x.says
      BY <1>2, <2>2, NothingType, ThenFacts
    <3>2. Then(x, Nothing).ends = x.ends
      BY <2>2, NothingType, ThenFacts, ValueFacts
    <3>3. QED
      BY <1>1, <3>1, <3>2, ValueEqual
  <2>3. QED
    BY <2>1, <2>2
<1>5. QED
  BY <1>3, <1>4

LEMMA ThenTogether ==
  ASSUME NEW x \in Values, NEW y \in Values, NEW z \in Values
  PROVE  Then(Then(x, y), z) = Then(x, Then(y, z))
<1>1. Then(x, y) \in Values /\ Then(y, z) \in Values
  BY ThenType
<1>2. CASE x.ends
  BY <1>1, <1>2, ThenFacts
<1>3. CASE ~x.ends /\ y.ends
  <2>1. Then(y, z) = y
    BY <1>3, ThenFacts
  <2>2. Then(x, y).ends
    BY <1>3, ThenFacts
  <2>3. Then(Then(x, y), z) = Then(x, y)
    BY <1>1, <2>2, ThenFacts
  <2>4. QED
    BY <2>1, <2>3
<1>4. CASE ~x.ends /\ ~y.ends
  <2> DEFINE l == Then(Then(x, y), z)
             r == Then(x, Then(y, z))
  <2>1. Then(x, y).says = x.says \o y.says /\ ~Then(x, y).ends
    BY <1>4, ThenFacts
  <2>2. Then(y, z).says = y.says \o z.says /\ Then(y, z).ends = z.ends
    BY <1>4, ThenFacts
  <2>a. l.says = Then(x, y).says \o z.says /\ l.ends = z.ends
    BY <1>1, <2>1, ThenFacts, Zenon
  <2>b. r.says = x.says \o Then(y, z).says /\ r.ends = Then(y, z).ends
    BY <1>1, <1>4, ThenFacts, Zenon
  <2>3. l.says = (x.says \o y.says) \o z.says /\ l.ends = z.ends
    BY <2>1, <2>a, Zenon
  <2>4. r.says = x.says \o (y.says \o z.says) /\ r.ends = z.ends
    BY <2>2, <2>b, Zenon
  <2>d. x.says \in Seq(Instructions) /\ y.says \in Seq(Instructions)
        /\ z.says \in Seq(Instructions)
    BY ValueFacts
  <2> DEFINE a == x.says
             b == y.says
             c == z.says
  <2>e. (a \o b) \o c = a \o (b \o c)
    <3> HIDE DEF a, b, c
    <3>1. QED
      BY <2>d, ConcatAssociative
  <2>c. (x.says \o y.says) \o z.says = x.says \o (y.says \o z.says)
    BY <2>e
  <2>5. l.says = r.says
    BY <2>3, <2>4, <2>c, Zenon
  <2>6. l \in Values /\ r \in Values
    BY <1>1, ThenType
  <2> HIDE DEF l, r
  <2>7. l = r
    BY <2>3, <2>4, <2>5, <2>6, ValueEqual
  <2>8. QED
    BY <2>7 DEF l, r
<1>5. QED
  BY <1>2, <1>3, <1>4, ValueFacts

\* The rounds of a loop.
LEMMA AgainIs ==
  ASSUME NEW x \in Values, NEW k \in Nat
  PROVE  \E r : /\ IsRecursion(r, Values, Nothing, k,
                               [q \in Values \X (1 .. k) |-> Then(x, q[1])])
                /\ Again(x, k) = r[k]
<1> DEFINE V == Values
           step == [q \in V \X (1 .. k) |-> Then(x, q[1])]
           Def(f) == f = [n \in 0 .. k |-> IF n = 0 THEN Nothing ELSE Then(x, f[n - 1])]
           r == CHOOSE f : Def(f)
<1>0. Nothing \in V
  BY NothingType
<1>1. step \in [V \X (1 .. k) -> V]
  BY ThenType
<1>2. \A v \in V : \A n \in 1 .. k : step[<<v, n>>] = Then(x, v)
  <2> HIDE DEF V
  <2>1. QED
    OBVIOUS
<1> HIDE DEF step, V
<1>3. PICK g : IsRecursion(g, V, Nothing, k, step)
  BY <1>0, <1>1, RecursionExists
<1>4. Def(g)
  <2>1. g \in [0 .. k -> V] /\ g[0] = Nothing
    BY <1>3 DEF IsRecursion
  <2>2. ASSUME NEW n \in 0 .. k, n # 0 PROVE g[n] = Then(x, g[n - 1])
    <3>1. n \in 1 .. k /\ n - 1 \in 0 .. k
      BY <2>2
    <3>2. QED
      BY <1>2, <1>3, <2>1, <3>1 DEF IsRecursion
  <2>3. g = [n \in 0 .. k |-> IF n = 0 THEN Nothing ELSE Then(x, g[n - 1])]
    BY <2>1, <2>2
  <2>4. QED
    BY <2>3, Zenon
<1>5. Def(r)
  <2> HIDE DEF Def
  <2>1. QED
    BY <1>4, Zenon
<1>6. Again(x, k) = r[k]
  BY Zenon DEF Again
<1> HIDE DEF r
<1>7. \A n \in 0 .. k : r[n] = IF n = 0 THEN Nothing ELSE Then(x, r[n - 1])
  BY <1>5, Zenon
<1>8. r = [n \in 0 .. k |-> r[n]]
  BY <1>5
<1>9. r[0] = Nothing
  BY <1>7
<1>10. \A n \in 1 .. k : r[n - 1] \in V => r[n] = step[<<r[n - 1], n>>]
  BY <1>2, <1>7
<1>11. IsRecursion(r, V, Nothing, k, step)
  BY <1>0, <1>1, <1>8, <1>9, <1>10, RecursionType
<1>12. QED
  BY <1>6, <1>11 DEF V, step

LEMMA AgainFacts ==
  ASSUME NEW x \in Values, NEW k \in Nat
  PROVE  /\ Again(x, k) \in Values
         /\ Again(x, 0) = Nothing
         /\ Again(x, k + 1) = Then(x, Again(x, k))
<1> DEFINE V == Values
           step(n) == [q \in V \X (1 .. n) |-> Then(x, q[1])]
<1>1. \A n \in Nat : \A v \in V : \A i \in 1 .. n : step(n)[<<v, i>>] = Then(x, v)
  <2> HIDE DEF V
  <2>1. QED
    OBVIOUS
<1>2. PICK f : IsRecursion(f, V, Nothing, k, step(k)) /\ Again(x, k) = f[k]
  BY AgainIs
<1>3. k + 1 \in Nat /\ k <= k + 1 /\ k + 1 \in 1 .. k + 1 /\ (k + 1) - 1 = k
      /\ k \in 0 .. k /\ k \in 0 .. k + 1 /\ \A n \in 1 .. k : n \in 1 .. k + 1
  OBVIOUS
<1>4. PICK g : IsRecursion(g, V, Nothing, k + 1, step(k + 1)) /\ Again(x, k + 1) = g[k + 1]
  BY <1>3, AgainIs
<1>5. PICK h : IsRecursion(h, V, Nothing, 0, step(0)) /\ Again(x, 0) = h[0]
  <2>1. 0 \in Nat
    OBVIOUS
  <2>2. QED
    BY <2>1, AgainIs
<1> HIDE DEF V
<1>6. f[k] \in V /\ g[k] \in V
  BY <1>2, <1>3, <1>4 DEF IsRecursion
<1>7. \A n \in 1 .. k : \A v \in V : step(k)[<<v, n>>] = step(k + 1)[<<v, n>>]
  BY <1>1, <1>3
<1>8. g[k + 1] = step(k + 1)[<<g[k], k + 1>>]
  BY <1>3, <1>4 DEF IsRecursion
<1>9. g[k + 1] = Then(x, g[k])
  BY <1>1, <1>3, <1>6, <1>8
<1> HIDE DEF step
<1>10. f[k] = g[k]
  <2> DEFINE m == k + 1
             s == step(k)
             t == step(m)
  <2>a. IsRecursion(f, V, Nothing, k, s) /\ IsRecursion(g, V, Nothing, m, t)
    BY <1>2, <1>4
  <2>b. m \in Nat /\ k <= m
    BY <1>3
  <2>c. SameSteps(s, t, V, k)
    BY <1>7 DEF SameSteps
  <2> HIDE DEF m, s, t
  <2>1. SameValues(f, g, k)
    BY <2>a, <2>b, <2>c, RecursionGrows
  <2>2. QED
    BY <1>3, <2>1 DEF SameValues
<1>11. h[0] = Nothing
  BY <1>5 DEF IsRecursion
<1>12. QED
  BY <1>2, <1>4, <1>5, <1>6, <1>9, <1>10, <1>11 DEF V


\* What the definition of Meaning says, block by block.
IsMeaning(means, p) ==
  /\ means \in [DOMAIN p.blocks \cup {Null} -> Values]
  /\ means[Null] = Nothing
  /\ \A b \in DOMAIN p.blocks :
       means[b] = Then(Own(p.blocks[b], means), means[p.blocks[b].next])

\* The meaning of a block depends on those of the blocks inside it.
LEMMA OwnSame ==
  ASSUME NEW block, NEW f, NEW g,
         f[block.branch] = g[block.branch], f[block.other] = g[block.other]
  PROVE  Own(block, f) = Own(block, g)
<1>1. f[Chosen(block)] = g[Chosen(block)]
  BY DEF Chosen
<1>2. QED
  BY <1>1, Zenon DEF Own

LEMMA OwnType ==
  ASSUME NEW p, IsProgram(p), NEW b \in DOMAIN p.blocks, NEW f,
         f[p.blocks[b].branch] \in Values, f[p.blocks[b].other] \in Values
  PROVE  Own(p.blocks[b], f) \in Values
<1> DEFINE block == p.blocks[b]
<1>1. /\ block.op \in Moves \cup Turns \cup ControlOps
      /\ block.colour \in {NoCondition} \cup 0 .. 5 /\ block.times \in Nat
  BY DEF IsProgram
<1>2. Rounds(block) \in Nat
  BY <1>1, ForeverAssumption DEF Rounds
<1>3. Again(f[block.branch], Rounds(block)) \in Values
  BY <1>2, AgainFacts
<1>4. f[Chosen(block)] \in Values
  BY DEF Chosen
<1>5. block.op \in Moves \cup Turns => [says |-> <<Instruction(block)>>, ends |-> FALSE] \in Values
  <2>1. block.op \in Moves \cup Turns => Instruction(block) \in Instructions
    BY <1>1 DEF Instruction, Instructions
  <2>2. QED
    BY <2>1 DEF Values
<1>6. [says |-> <<>>, ends |-> TRUE] \in Values
  BY DEF Values
<1> HIDE DEF block
<1>7. Own(block, f) \in Values
  BY <1>3, <1>4, <1>5, <1>6, NothingType, Zenon DEF Own
<1>8. QED
  BY <1>7 DEF block

LEMMA MeaningIs ==
  ASSUME NEW p, IsProgram(p)
  PROVE  IsMeaning(Meaning(p), p)
<1> DEFINE X == DOMAIN p.blocks \cup {Null}
           V == Values
           next(b) == p.blocks[b].next
           inside == [b \in X |-> IF b = Null THEN {}
                                  ELSE {next(b), p.blocks[b].branch, p.blocks[b].other}]
           one(f, b) == IF b = Null THEN Nothing
                        ELSE Then(Own(p.blocks[b], f), f[next(b)])
           step == [q \in [X -> V] \X X |-> one(q[1], q[2])]
           Def(f) == f = [b \in X |-> IF b = Null THEN Nothing
                                      ELSE Then(Own(p.blocks[b], f), f[p.blocks[b].next])]
           r == CHOOSE f : Def(f)
<1>1. /\ Null \notin DOMAIN p.blocks
      /\ \A b \in DOMAIN p.blocks : /\ next(b) \in X /\ p.blocks[b].branch \in X
                                    /\ p.blocks[b].other \in X
  BY DEF IsProgram
<1>2. /\ inside \in [X -> SUBSET X] /\ inside[Null] = {}
      /\ \A b \in X : b # Null =>
           inside[b] = {next(b), p.blocks[b].branch, p.blocks[b].other}
  BY <1>1
<1> HIDE DEF inside
<1>3. Grounded(X, inside)
  <2> SUFFICES ASSUME NEW S \in SUBSET X, S # {}
               PROVE  \E b \in S : inside[b] \cap S = {}
    BY DEF Grounded
  <2>1. CASE Null \in S
    BY <1>2, <2>1
  <2>2. CASE Null \notin S
    <3>1. S \in SUBSET DOMAIN p.blocks
      BY <2>2
    <3>2. PICK b \in S : \A c \in S :
            c \notin {p.blocks[b].next, p.blocks[b].branch, p.blocks[b].other}
      BY <3>1, Zenon DEF IsProgram
    <3>3. b \in X /\ b # Null
      BY <2>2
    <3>4. QED
      BY <1>2, <3>2, <3>3
  <2>3. QED
    BY <2>1, <2>2
<1>4. ASSUME NEW f, NEW b \in X, \A c \in inside[b] : f[c] \in V
      PROVE  one(f, b) \in V
  <2>1. CASE b = Null
    BY <2>1, NothingType
  <2>2. CASE b # Null
    <3>1. f[next(b)] \in V /\ f[p.blocks[b].branch] \in V /\ f[p.blocks[b].other] \in V
      BY <1>2, <1>4, <2>2
    <3>2. b \in DOMAIN p.blocks
      BY <2>2
    <3>3. Own(p.blocks[b], f) \in V
      BY <3>1, <3>2, OwnType
    <3>4. Then(Own(p.blocks[b], f), f[next(b)]) \in V
      BY <3>1, <3>3, ThenType
    <3>5. QED
      BY <2>2, <3>4
  <2>3. QED
    BY <2>1, <2>2
<1>5. ASSUME NEW f, NEW g, NEW b \in X, \A c \in inside[b] : f[c] = g[c]
      PROVE  one(f, b) = one(g, b)
  <2>1. CASE b = Null
    BY <2>1
  <2>2. CASE b # Null
    <3>1. f[next(b)] = g[next(b)] /\ f[p.blocks[b].branch] = g[p.blocks[b].branch]
          /\ f[p.blocks[b].other] = g[p.blocks[b].other]
      BY <1>2, <1>5, <2>2
    <3>2. Own(p.blocks[b], f) = Own(p.blocks[b], g)
      BY <3>1, OwnSame
    <3>3. QED
      BY <2>2, <3>1, <3>2
  <2>3. QED
    BY <2>1, <2>2
<1>6. \A f \in [X -> V] : \A b \in X : /\ step[<<f, b>>] = one(f, b)
                                       /\ <<f, b>> \in [X -> V] \X X
  <2> HIDE DEF X, V, one
  <2>1. QED
    OBVIOUS
<1>7. ASSUME NEW f \in [X -> V], NEW b \in X PROVE one(f, b) \in V
  <2>1. \A c \in inside[b] : f[c] \in V
    <3> HIDE DEF X, V
    <3>1. QED
      BY <1>2
  <2> HIDE DEF one, X, V
  <2>2. QED
    BY <1>4, <2>1
<1>8. step \in [[X -> V] \X X -> V]
  <2> HIDE DEF X, V, one
  <2>1. QED
    BY <1>7
<1>9. LooksInside(X, V, inside, step)
  <2> SUFFICES ASSUME NEW f \in [X -> V], NEW g \in [X -> V], NEW b \in X,
                      \A c \in inside[b] : f[c] = g[c]
               PROVE  step[<<f, b>>] = step[<<g, b>>]
    BY Zenon DEF LooksInside
  <2> HIDE DEF X, V, one, step
  <2>1. one(f, b) = one(g, b)
    BY <1>5
  <2>2. QED
    BY <1>6, <2>1
<1>10. PICK g : IsTreeRecursion(g, X, V, step)
  <2>1. Nothing \in V
    BY NothingType
  <2> HIDE DEF X, V, step
  <2>2. QED
    BY <1>2, <1>3, <1>8, <1>9, <2>1, TreeRecursionExists
<1>11. Def(g)
  <2>1. g \in [X -> V] /\ \A b \in X : g[b] = one(g, b)
    <3> HIDE DEF X, V, one, step
    <3>1. QED
      BY <1>6, <1>10 DEF IsTreeRecursion
  <2>2. g = [b \in X |-> one(g, b)]
    <3> HIDE DEF X, V, one
    <3>1. QED
      BY <2>1
  <2>3. QED
    BY <2>2, Zenon
<1>12. Def(r)
  <2> HIDE DEF Def
  <2>1. QED
    BY <1>11, Zenon
<1>13. Meaning(p) = r
  BY Zenon DEF Meaning
<1> HIDE DEF r
<1>14. r = [b \in X |-> one(r, b)]
  BY <1>12, Zenon
<1>15. \A b \in X : r[b] = one(r, b)
  <2> HIDE DEF one, X
  <2>1. QED
    BY <1>14, Zenon
<1>16. \A b \in X : r[b] \in V
  <2> DEFINE S == {b \in X : r[b] \notin V}
  <2>1. SUFFICES ASSUME S # {} PROVE FALSE
    OBVIOUS
  <2>2. PICK b \in S : inside[b] \cap S = {}
    <3>1. S \in SUBSET X
      OBVIOUS
    <3> HIDE DEF S, X
    <3>2. QED
      BY <1>3, <2>1, <3>1 DEF Grounded
  <2>3. b \in X /\ inside[b] \in SUBSET X
    <3> HIDE DEF X, V
    <3>1. QED
      BY <1>2
  <2>4. \A c \in inside[b] : r[c] \in V
    <3> HIDE DEF X, V
    <3>1. QED
      BY <2>2, <2>3
  <2> HIDE DEF one, X, V
  <2>5. one(r, b) \in V
    BY <1>4, <2>3, <2>4
  <2>6. QED
    BY <1>15, <2>3, <2>5
<1>17. r \in [X -> V]
  <2> HIDE DEF one, X, V
  <2>1. r = [b \in X |-> r[b]]
    BY <1>14, <1>15
  <2>2. QED
    BY <1>16, <2>1
<1>18. r[Null] = Nothing
  BY <1>15
<1>19. ASSUME NEW b \in DOMAIN p.blocks
       PROVE  r[b] = Then(Own(p.blocks[b], r), r[p.blocks[b].next])
  <2>1. b \in X /\ b # Null
    BY <1>1
  <2>2. r[b] = one(r, b)
    BY <1>15, <2>1
  <2>3. QED
    BY <2>1, <2>2
<1>20. IsMeaning(r, p)
  BY <1>17, <1>18, <1>19 DEF IsMeaning
<1>21. QED
  BY <1>13, <1>20


-----------------------------------------------------------------------------
(* What a stack has left.                                                  *)

\* A loop that is entered has its counter, no other block has one.
GoodFrame(f) ==
  /\ f \in Frames
  /\ ~f.isLoop => f.loopCounter = Unset
  /\ f.isLoop => /\ f.loopCounter \in Nat /\ f.block \in Ids
                 /\ program.blocks[f.block].op \in Loops

GoodStack(s) == s \in Stacks /\ \A k \in 1 .. Len(s) : GoodFrame(s[k])

\* An empty branch is there only inside a loop or at the end of a script.
NoLooseEnd(s) ==
  s # <<>> /\ Top(s).block = Null => Len(s) = 1 \/ s[Len(s) - 1].isLoop

M(b) == Meaning(program)[b]

LEMMA MFacts ==
  ASSUME program \in Programs
  PROVE  /\ \A b \in Ids \cup {Null} : M(b) \in Values
         /\ M(Null) = Nothing
         /\ \A b \in Ids :
              M(b) = Then(Own(program.blocks[b], Meaning(program)), M(program.blocks[b].next))
<1>1. IsProgram(program)
  BY ProgramsAssumption
<1>2. IsMeaning(Meaning(program), program)
  BY <1>1, MeaningIs
<1>3. QED
  BY <1>2 DEF IsMeaning, M, Ids

LEMMA SequenceCut ==
  ASSUME NEW S, NEW s \in Seq(S), NEW n \in 0 .. Len(s)
  PROVE  /\ SubSeq(s, 1, n) \in Seq(S) /\ Len(SubSeq(s, 1, n)) = n
         /\ \A i \in 1 .. n : SubSeq(s, 1, n)[i] = s[i]
  OBVIOUS

LEMMA SequenceAppend ==
  ASSUME NEW S, NEW u \in Seq(S), NEW f \in S
  PROVE  /\ Append(u, f) \in Seq(S) /\ Len(Append(u, f)) = Len(u) + 1
         /\ Append(u, f) # <<>>
         /\ Append(u, f)[Len(u) + 1] = f
         /\ \A i \in 1 .. Len(u) : Append(u, f)[i] = u[i]
         /\ SubSeq(Append(u, f), 1, Len(u)) = u
<1>1. /\ Append(u, f) \in Seq(S) /\ Len(Append(u, f)) = Len(u) + 1
      /\ Append(u, f) # <<>>
      /\ Append(u, f)[Len(u) + 1] = f
      /\ \A i \in 1 .. Len(u) : Append(u, f)[i] = u[i]
  OBVIOUS
<1> DEFINE v == Append(u, f)
           w == SubSeq(v, 1, Len(u))
<1>2. Len(u) \in Nat /\ Len(u) \in 0 .. Len(v)
  BY <1>1
<1>3. w \in Seq(S) /\ Len(w) = Len(u) /\ \A i \in 1 .. Len(u) : w[i] = v[i]
  <2> HIDE DEF v
  <2>1. v \in Seq(S)
    BY <1>1 DEF v
  <2>2. QED
    BY <1>2, <2>1, SequenceCut
<1>4. w = u
  <2>1. \A i \in 1 .. Len(u) : w[i] = u[i]
    BY <1>1, <1>3
  <2> HIDE DEF w
  <2>2. QED
    BY <1>3, <2>1
<1>5. QED
  BY <1>1, <1>4

LEMMA SequenceTop ==
  ASSUME NEW S, NEW s \in Seq(S), s # <<>>
  PROVE  /\ Below(s) \in Seq(S) /\ Len(Below(s)) = Len(s) - 1
         /\ Len(s) \in Nat \ {0} /\ Top(s) \in S
         /\ \A i \in 1 .. Len(s) - 1 : Below(s)[i] = s[i]
         /\ s = Append(Below(s), Top(s))
<1>1. Len(s) \in Nat \ {0} /\ Len(s) - 1 \in 0 .. Len(s) /\ Len(s) \in 1 .. Len(s)
  OBVIOUS
<1>2. Below(s) \in Seq(S) /\ Len(Below(s)) = Len(s) - 1
      /\ \A i \in 1 .. Len(s) - 1 : Below(s)[i] = s[i]
  BY <1>1, SequenceCut DEF Below
<1>3. Top(s) \in S
  BY <1>1 DEF Top
<1> DEFINE u == Below(s)
           v == Append(u, Top(s))
<1>4. v \in Seq(S) /\ Len(v) = Len(s) /\ v[Len(s)] = Top(s)
      /\ \A i \in 1 .. Len(s) - 1 : v[i] = s[i]
  <2> HIDE DEF u
  <2>1. u \in Seq(S) /\ Len(u) = Len(s) - 1 /\ \A i \in 1 .. Len(s) - 1 : u[i] = s[i]
    BY <1>2 DEF u
  <2>2. /\ v \in Seq(S) /\ Len(v) = Len(u) + 1
        /\ v[Len(u) + 1] = Top(s) /\ \A i \in 1 .. Len(u) : v[i] = u[i]
    BY <1>3, <2>1, SequenceAppend
  <2> HIDE DEF v
  <2>3. QED
    BY <1>1, <2>1, <2>2
<1>5. v = s
  <2> HIDE DEF v
  <2>1. \A i \in 1 .. Len(s) : v[i] = s[i]
    BY <1>1, <1>4 DEF Top
  <2>2. QED
    BY <1>4, <2>1
<1>6. QED
  BY <1>1, <1>2, <1>3, <1>5

LEMMA PendingType ==
  ASSUME program \in Programs, NEW f, GoodFrame(f)
  PROVE  /\ Pending(program, f) \in Values /\ OnTop(program, f) \in Values
         /\ f.isLoop => OnTop(program, f) = Pending(program, f)
         /\ ~f.isLoop /\ f.block # Null =>
              /\ OnTop(program, f) = M(f.block)
              /\ Pending(program, f) = M(program.blocks[f.block].next)
         /\ f.isLoop => Pending(program, f) =
              Then(Again(M(program.blocks[f.block].branch), f.loopCounter),
                   M(program.blocks[f.block].next))
         /\ f.block = Null => OnTop(program, f) = Nothing
<1> DEFINE block == program.blocks[f.block]
<1>0. f.block \in Ids \cup {Null} /\ f.isLoop \in BOOLEAN /\ Unset \notin Nat
  BY DEF GoodFrame, Frames, Unset
<1>1. Null \notin Ids /\ (f.block # Null => /\ M(block.branch) \in Values
                                            /\ M(block.next) \in Values
                                            /\ M(f.block) \in Values)
  BY <1>0, MFacts, ProgramFacts
<1>2. CASE f.block = Null
  <2>1. ~f.isLoop
    BY <1>1, <1>2 DEF GoodFrame
  <2>2. Pending(program, f) = Nothing /\ OnTop(program, f) = Nothing
    BY <1>2 DEF Pending, OnTop
  <2>3. QED
    BY <1>2, <2>1, <2>2, NothingType
<1>3. CASE f.block # Null /\ ~f.isLoop
  <2>1. f.loopCounter = Unset
    BY <1>3 DEF GoodFrame
  <2>2. Pending(program, f) = M(block.next) /\ OnTop(program, f) = M(f.block)
    BY <1>3, <2>1 DEF Pending, OnTop, M
  <2>3. QED
    BY <1>1, <1>3, <2>2
<1>4. CASE f.block # Null /\ f.isLoop
  <2>1. f.loopCounter \in Nat /\ f.loopCounter # Unset
    BY <1>0, <1>4 DEF GoodFrame
  <2>2. /\ Pending(program, f) = Then(Again(M(block.branch), f.loopCounter), M(block.next))
        /\ OnTop(program, f) = Pending(program, f)
    BY <1>4, <2>1 DEF Pending, OnTop, M
  <2>3. Again(M(block.branch), f.loopCounter) \in Values
    BY <1>1, <1>4, <2>1, AgainFacts
  <2>4. Then(Again(M(block.branch), f.loopCounter), M(block.next)) \in Values
    BY <1>1, <1>4, <2>3, ThenType
  <2> HIDE DEF block
  <2>5. QED
    BY <1>4, <2>2, <2>4 DEF block
<1>5. QED
  BY <1>0, <1>2, <1>3, <1>4


\* The frames of a stack, one after the other.
LEMMA RestIs ==
  ASSUME program \in Programs, NEW s, GoodStack(s)
  PROVE  IsRecursion(Rest(program, s), Values, Nothing, Len(s),
                     [q \in Values \X (1 .. Len(s)) |-> Then(Pending(program, s[q[2]]), q[1])])
<1> DEFINE V == Values
           n == Len(s)
           P(i) == Pending(program, s[i])
           step == [q \in V \X (1 .. n) |-> Then(P(q[2]), q[1])]
           Def(f) == f = [k \in 0 .. Len(s) |->
                            IF k = 0 THEN Nothing
                            ELSE Then(Pending(program, s[k]), f[k - 1])]
           r == CHOOSE f : Def(f)
<1>0. Nothing \in V /\ n \in Nat /\ \A i \in 1 .. n : P(i) \in V
  BY NothingType, PendingType DEF GoodStack, Stacks
<1>1. step \in [V \X (1 .. n) -> V]
  <2>1. \A v \in V : \A i \in 1 .. n : Then(P(i), v) \in V
    BY <1>0, ThenType
  <2> HIDE DEF V, P, n
  <2>2. QED
    BY <2>1
<1>2. \A v \in V : \A i \in 1 .. n : step[<<v, i>>] = Then(P(i), v)
  <2> HIDE DEF V, P, n
  <2>1. QED
    OBVIOUS
<1> HIDE DEF step, V
<1>3. PICK g : IsRecursion(g, V, Nothing, n, step)
  BY <1>0, <1>1, RecursionExists
<1>4. Def(g)
  <2>1. g \in [0 .. n -> V] /\ g[0] = Nothing
    BY <1>3 DEF IsRecursion
  <2>2. ASSUME NEW k \in 0 .. n, k # 0 PROVE g[k] = Then(P(k), g[k - 1])
    <3>1. k \in 1 .. n /\ k - 1 \in 0 .. n
      BY <1>0, <2>2
    <3>2. g[k] = step[<<g[k - 1], k>>] /\ g[k - 1] \in V
      BY <1>3, <2>1, <3>1 DEF IsRecursion
    <3> HIDE DEF P, n
    <3>3. QED
      BY <1>2, <3>1, <3>2
  <2>3. g = [k \in 0 .. n |-> IF k = 0 THEN Nothing ELSE Then(P(k), g[k - 1])]
    <3> HIDE DEF P, n
    <3>1. QED
      BY <2>1, <2>2
  <2>4. QED
    BY <2>3, Zenon
<1>5. Def(r)
  <2> HIDE DEF Def
  <2>1. QED
    BY <1>4, Zenon
<1>6. Rest(program, s) = r
  BY Zenon DEF Rest
<1> HIDE DEF r
<1>7. \A k \in 0 .. n : r[k] = IF k = 0 THEN Nothing ELSE Then(P(k), r[k - 1])
  BY <1>5, Zenon
<1> HIDE DEF P, n
<1>8. r = [k \in 0 .. n |-> r[k]]
  BY <1>5, Zenon DEF n
<1>9. r[0] = Nothing
  BY <1>0, <1>7
<1>10. \A k \in 1 .. n : r[k - 1] \in V => r[k] = step[<<r[k - 1], k>>]
  BY <1>0, <1>2, <1>7
<1>11. IsRecursion(r, V, Nothing, n, step)
  BY <1>0, <1>1, <1>8, <1>9, <1>10, RecursionType
<1>12. QED
  BY <1>6, <1>11 DEF V, n, step, P

IsRest(s, r) ==
  /\ Len(s) \in Nat
  /\ r \in [0 .. Len(s) -> Values] /\ r[0] = Nothing
  /\ \A k \in 1 .. Len(s) : r[k] = Then(Pending(program, s[k]), r[k - 1])

LEMMA RestHolds ==
  ASSUME program \in Programs, NEW s, GoodStack(s)
  PROVE  Len(s) \in Nat /\ IsRest(s, Rest(program, s))
<1> DEFINE V == Values
           n == Len(s)
           P(i) == Pending(program, s[i])
           r == Rest(program, s)
           step == [q \in V \X (1 .. n) |-> Then(P(q[2]), q[1])]
<1>0. n \in Nat
  BY DEF GoodStack, Stacks
<1>1. IsRecursion(r, V, Nothing, n, step)
  BY RestIs, Zenon
<1>2. \A v \in V : \A i \in 1 .. n : step[<<v, i>>] = Then(P(i), v)
  <2> HIDE DEF V, P, n
  <2>1. QED
    OBVIOUS
<1>3. r \in [0 .. n -> V] /\ r[0] = Nothing
  <2> HIDE DEF step, V, P, n, r
  <2>1. QED
    BY <1>1 DEF IsRecursion
<1>4. ASSUME NEW k \in 1 .. n PROVE r[k] = Then(P(k), r[k - 1])
  <2> HIDE DEF step, V, P, n, r
  <2>1. k - 1 \in 0 .. n
    BY <1>0
  <2>2. r[k] = step[<<r[k - 1], k>>] /\ r[k - 1] \in V
    BY <1>1, <1>3, <2>1 DEF IsRecursion
  <2>3. QED
    BY <1>2, <2>2
<1>5. QED
  BY <1>0, <1>3, <1>4 DEF IsRest

\* The frames of two stacks that agree up to level n have the same left.
LEMMA RestPrefix ==
  ASSUME program \in Programs, NEW s, GoodStack(s), NEW u, GoodStack(u),
         Len(s) <= Len(u), \A k \in 1 .. Len(s) : s[k] = u[k]
  PROVE  \A k \in 0 .. Len(s) : Rest(program, s)[k] = Rest(program, u)[k]
<1> DEFINE V == Values
           n == Len(s)
           m == Len(u)
           f == Rest(program, s)
           g == Rest(program, u)
           a == [q \in V \X (1 .. n) |-> Then(Pending(program, s[q[2]]), q[1])]
           b == [q \in V \X (1 .. m) |-> Then(Pending(program, u[q[2]]), q[1])]
<1>1. n \in Nat /\ m \in Nat /\ n <= m
  BY RestHolds
<1>2. IsRecursion(f, V, Nothing, n, a)
  BY RestIs, Zenon
<1>3. IsRecursion(g, V, Nothing, m, b)
  BY RestIs, Zenon
<1>4. \A v \in V : \A i \in 1 .. n : a[<<v, i>>] = Then(Pending(program, s[i]), v)
  <2> HIDE DEF V, n
  <2>1. QED
    OBVIOUS
<1>5. \A v \in V : \A i \in 1 .. m : b[<<v, i>>] = Then(Pending(program, u[i]), v)
  <2> HIDE DEF V, m
  <2>1. QED
    OBVIOUS
<1>6. SameSteps(a, b, V, n)
  <2>1. \A i \in 1 .. n : i \in 1 .. m /\ s[i] = u[i]
    BY <1>1
  <2> HIDE DEF a, b, V, n, m
  <2>2. QED
    BY <1>4, <1>5, <2>1 DEF SameSteps
<1>7. SameValues(f, g, n)
  <2> HIDE DEF a, b, V, n, m, f, g
  <2>1. QED
    BY <1>1, <1>2, <1>3, <1>6, RecursionGrows
<1>8. QED
  BY <1>7 DEF SameValues

\* Frames that have nothing left make no difference.
LEMMA RestGap ==
  ASSUME program \in Programs, NEW s, GoodStack(s),
         NEW n \in Nat, NEW m \in Nat, n <= m, m <= Len(s),
         \A k \in 1 .. Len(s) : n < k /\ k <= m => Pending(program, s[k]) = Nothing
  PROVE  Rest(program, s)[m] = Rest(program, s)[n]
<1> DEFINE r == Rest(program, s)
           T == {d \in 0 .. m - n : r[n + d] = r[n]}
<1>0. Len(s) \in Nat /\ m - n \in Nat
  BY RestHolds
<1>1. 0 \in T
  BY <1>0
<1>2. ASSUME NEW d \in 0 .. (m - n) - 1, d \in T PROVE d + 1 \in T
  <2> DEFINE k == n + (d + 1)
  <2>1. /\ k \in 1 .. Len(s) /\ n < k /\ k <= m /\ k - 1 = n + d
        /\ d + 1 \in 0 .. m - n /\ k - 1 \in 0 .. Len(s)
    BY <1>0
  <2> HIDE DEF k
  <2>6. Pending(program, s[k]) = Nothing
    BY <2>1
  <2>7. IsRest(s, r)
    BY RestHolds
  <2>2. r[k] = Then(Nothing, r[k - 1]) /\ r[k - 1] \in Values
    <3> HIDE DEF r
    <3>1. QED
      BY <2>1, <2>6, <2>7 DEF IsRest
  <2>3. r[k] = r[k - 1]
    BY <2>2, ThenNothing
  <2>4. r[n + d] = r[n]
    BY <1>2
  <2>5. QED
    BY <2>1, <2>3, <2>4 DEF k
<1> HIDE DEF T
<1>3. \A d \in 0 .. m - n : d \in T
  BY <1>0, <1>1, <1>2, BoundedInduction
<1>4. m - n \in 0 .. m - n /\ n + (m - n) = m
  BY <1>0
<1>5. QED
  BY <1>3, <1>4 DEF T



\* What is left below the stack s, and by s itself.
RestOf(s) == Rest(program, s)[Len(s)]
LeftOf(s) == IF s = <<>> THEN Nothing
             ELSE Then(OnTop(program, Top(s)), Rest(program, s)[Len(s) - 1])

\* Another frame may be put on the stack.
Open(s) == \A k \in 1 .. Len(s) : s[k].block # Null

LEMMA LeftSays ==
  ASSUME NEW s
  PROVE  Left(program, s) = LeftOf(s).says
  BY NothingType DEF Left, LeftOf

LEMMA RestValues ==
  ASSUME program \in Programs, NEW s, GoodStack(s)
  PROVE  /\ Len(s) \in Nat /\ s \in Seq(Frames)
         /\ \A k \in 0 .. Len(s) : Rest(program, s)[k] \in Values
         /\ Rest(program, s)[0] = Nothing
         /\ RestOf(s) \in Values
<1>1. IsRest(s, Rest(program, s)) /\ Len(s) \in Nat
  BY RestHolds
<1>2. s \in Seq(Frames)
  BY DEF GoodStack, Stacks
<1> DEFINE r == Rest(program, s)
<1> HIDE DEF r
<1>3. r \in [0 .. Len(s) -> Values] /\ r[0] = Nothing
  BY <1>1 DEF IsRest, r
<1>4. \A k \in 0 .. Len(s) : r[k] \in Values
  BY <1>3
<1>5. Len(s) \in 0 .. Len(s)
  BY <1>1
<1>6. QED
  BY <1>1, <1>2, <1>3, <1>4, <1>5 DEF RestOf, r

LEMMA CutFacts ==
  ASSUME program \in Programs, NEW s, GoodStack(s), NEW n \in 0 .. Len(s)
  PROVE  /\ GoodStack(SubSeq(s, 1, n)) /\ Len(SubSeq(s, 1, n)) = n
         /\ \A i \in 1 .. n : SubSeq(s, 1, n)[i] = s[i]
         /\ RestOf(SubSeq(s, 1, n)) = Rest(program, s)[n]
         /\ n < Len(s) => Open(SubSeq(s, 1, n))
<1> DEFINE u == SubSeq(s, 1, n)
<1>1. s \in Seq(Frames) /\ Len(s) \in Nat /\ n \in Nat /\ n <= Len(s)
  BY RestValues
<1>2. u \in Seq(Frames) /\ Len(u) = n /\ \A i \in 1 .. n : u[i] = s[i]
  BY <1>1, SequenceCut
<1> HIDE DEF u
<1>3. \A i \in 1 .. n - 1 : i \in 1 .. n /\ s[i].block # Null
  BY <1>1 DEF GoodStack, Stacks
<1>4. GoodStack(u)
  <2>1. u \in Stacks
    BY <1>2, <1>3 DEF Stacks
  <2>2. \A k \in 1 .. Len(u) : GoodFrame(u[k])
    BY <1>1, <1>2 DEF GoodStack
  <2>3. QED
    BY <2>1, <2>2 DEF GoodStack
<1>5. Rest(program, u)[n] = Rest(program, s)[n]
  <2>1. Len(u) <= Len(s) /\ \A k \in 1 .. Len(u) : u[k] = s[k]
    BY <1>1, <1>2
  <2>2. \A k \in 0 .. Len(u) : Rest(program, u)[k] = Rest(program, s)[k]
    BY <1>4, <2>1, RestPrefix
  <2>3. n \in 0 .. Len(u)
    BY <1>1, <1>2
  <2>4. QED
    BY <2>2, <2>3
<1>6. n < Len(s) => Open(u)
  <2>1. n < Len(s) => \A i \in 1 .. n : i \in 1 .. Len(s) - 1
    BY <1>1
  <2>2. QED
    BY <1>2, <2>1 DEF Open, GoodStack, Stacks
<1>7. QED
  BY <1>2, <1>4, <1>5, <1>6 DEF u, RestOf

LEMMA PushFacts ==
  ASSUME program \in Programs, NEW u, GoodStack(u), Open(u), NEW f, GoodFrame(f)
  PROVE  /\ GoodStack(Append(u, f)) /\ RestOf(u) \in Values
         /\ Append(u, f) # <<>> /\ Top(Append(u, f)) = f /\ Below(Append(u, f)) = u
         /\ Len(Append(u, f)) = Len(u) + 1
         /\ \A i \in 1 .. Len(u) : Append(u, f)[i] = u[i]
         /\ RestOf(Append(u, f)) = Then(Pending(program, f), RestOf(u))
         /\ LeftOf(Append(u, f)) = Then(OnTop(program, f), RestOf(u))
         /\ RestOf(Append(u, f)) \in Values /\ LeftOf(Append(u, f)) \in Values
<1> DEFINE s == Append(u, f)
<1>1. u \in Seq(Frames) /\ Len(u) \in Nat /\ RestOf(u) \in Values /\ f \in Frames
  BY RestValues DEF GoodFrame
<1>2. /\ s \in Seq(Frames) /\ Len(s) = Len(u) + 1 /\ s # <<>>
      /\ s[Len(u) + 1] = f /\ \A i \in 1 .. Len(u) : s[i] = u[i]
      /\ SubSeq(s, 1, Len(u)) = u
  BY <1>1, SequenceAppend
<1> HIDE DEF s
<1>3. GoodStack(s)
  <2>1. \A k \in 1 .. Len(s) : k = Len(u) + 1 \/ k \in 1 .. Len(u)
    BY <1>1, <1>2
  <2>2. \A k \in 1 .. Len(s) - 1 : s[k].block # Null
    BY <1>1, <1>2 DEF Open
  <2>3. \A k \in 1 .. Len(s) : GoodFrame(s[k])
    BY <1>2, <2>1 DEF GoodStack
  <2>4. QED
    BY <1>2, <2>2, <2>3 DEF GoodStack, Stacks
<1>4. Rest(program, s)[Len(u)] = RestOf(u)
  <2>1. Len(u) \in 0 .. Len(s)
    BY <1>1, <1>2
  <2>2. QED
    BY <1>2, <1>3, <2>1, CutFacts
<1>5. Len(s) - 1 = Len(u) /\ Len(s) \in 1 .. Len(s)
  BY <1>1, <1>2
<1>6. RestOf(s) = Then(Pending(program, f), RestOf(u))
  <2>1. IsRest(s, Rest(program, s))
    BY <1>3, RestHolds
  <2>2. Rest(program, s)[Len(s)] = Then(Pending(program, s[Len(s)]), Rest(program, s)[Len(s) - 1])
    BY <1>5, <2>1, Zenon DEF IsRest
  <2>3. QED
    BY <1>2, <1>4, <1>5, <2>2 DEF RestOf
<1>7. Top(s) = f /\ Below(s) = u
  BY <1>2, <1>5 DEF Top, Below
<1>8. LeftOf(s) = Then(OnTop(program, f), RestOf(u))
  BY <1>2, <1>4, <1>5, <1>7 DEF LeftOf
<1>9. RestOf(s) \in Values /\ LeftOf(s) \in Values
  BY <1>1, <1>6, <1>8, PendingType, ThenType
<1>10. QED
  BY <1>1, <1>2, <1>3, <1>6, <1>7, <1>8, <1>9 DEF s

\* A stack is its top on what is below it.
LEMMA TopOfStack ==
  ASSUME program \in Programs, NEW s, GoodStack(s), s # <<>>
  PROVE  /\ GoodStack(Below(s)) /\ Open(Below(s)) /\ GoodFrame(Top(s))
         /\ Len(s) \in Nat \ {0} /\ Len(Below(s)) = Len(s) - 1
         /\ \A i \in 1 .. Len(s) - 1 : Below(s)[i] = s[i]
         /\ RestOf(Below(s)) \in Values
         /\ RestOf(Below(s)) = Rest(program, s)[Len(s) - 1]
         /\ RestOf(s) = Then(Pending(program, Top(s)), RestOf(Below(s)))
         /\ LeftOf(s) = Then(OnTop(program, Top(s)), RestOf(Below(s)))
         /\ RestOf(s) \in Values /\ LeftOf(s) \in Values
<1>1. s \in Seq(Frames) /\ Len(s) \in Nat
  BY RestValues
<1>2. Len(s) \in Nat \ {0} /\ s = Append(Below(s), Top(s))
  BY <1>1, SequenceTop
<1>3. Len(s) - 1 \in 0 .. Len(s) /\ Len(s) - 1 < Len(s) /\ Len(s) \in 1 .. Len(s)
  BY <1>2
<1>4. GoodStack(Below(s)) /\ Open(Below(s)) /\ Len(Below(s)) = Len(s) - 1
      /\ RestOf(Below(s)) = Rest(program, s)[Len(s) - 1]
      /\ \A i \in 1 .. Len(s) - 1 : Below(s)[i] = s[i]
  BY <1>3, CutFacts, Zenon DEF Below
<1>5. GoodFrame(Top(s))
  BY <1>3 DEF GoodStack, Top
<1>6. /\ RestOf(Append(Below(s), Top(s))) = Then(Pending(program, Top(s)), RestOf(Below(s)))
      /\ LeftOf(Append(Below(s), Top(s))) = Then(OnTop(program, Top(s)), RestOf(Below(s)))
      /\ RestOf(Append(Below(s), Top(s))) \in Values
      /\ LeftOf(Append(Below(s), Top(s))) \in Values
      /\ RestOf(Below(s)) \in Values
  BY <1>4, <1>5, PushFacts
<1>7. QED
  BY <1>2, <1>4, <1>5, <1>6

LEMMA FreshFrame ==
  ASSUME program \in Programs, NEW b \in Ids \cup {Null}
  PROVE  /\ GoodFrame(Fresh(b)) /\ OnTop(program, Fresh(b)) = M(b)
         /\ M(b) \in Values /\ Fresh(b).block = b /\ ~Fresh(b).isLoop
<1>1. Fresh(b) \in Frames /\ Fresh(b).block = b /\ ~Fresh(b).isLoop
      /\ Fresh(b).loopCounter = Unset
  BY DEF Fresh, Frames, Unset
<1>2. GoodFrame(Fresh(b))
  BY <1>1 DEF GoodFrame
<1>3. M(b) \in Values /\ M(Null) = Nothing
  BY MFacts
<1>4. OnTop(program, Fresh(b)) = M(b)
  BY <1>1, <1>2, <1>3, PendingType
<1>5. QED
  BY <1>1, <1>2, <1>3, <1>4


\* Blocks that end their branch have nothing left.
LEMMA LastBlock ==
  ASSUME program \in Programs, NEW f, GoodFrame(f), ~f.isLoop, f.block \in Ids
  PROVE  /\ NextOf(f.block) \in Ids \cup {Null}
         /\ Pending(program, f) = M(NextOf(f.block))
         /\ NextOf(f.block) = Null => Pending(program, f) = Nothing
<1>1. f.block # Null /\ NextOf(f.block) \in Ids \cup {Null}
  BY ProgramFacts DEF NextOf
<1>2. Pending(program, f) = M(NextOf(f.block))
  BY <1>1, PendingType DEF NextOf
<1>3. QED
  BY <1>1, <1>2, MFacts

LEMMA UnwoundLeft ==
  ASSUME program \in Programs, NEW s, GoodStack(s), s # <<>>
  PROVE  /\ GoodStack(Unwound(s)) /\ NoLooseEnd(Unwound(s))
         /\ LeftOf(Unwound(s)) = RestOf(Below(s))
<1> DEFINE levels == {i \in 1 .. Len(s) - 1 :
                        s[i].isLoop \/ NextOf(s[i].block) # Null}
           k == Highest(levels)
           r == Rest(program, s)
<1>1. /\ Len(s) \in Nat \ {0} /\ RestOf(Below(s)) = r[Len(s) - 1]
      /\ r[0] = Nothing /\ IsRest(s, r)
  BY TopOfStack, RestValues, RestHolds
<1>2. \A i \in 1 .. Len(s) - 1 : i \in 1 .. Len(s) /\ GoodFrame(s[i]) /\ s[i].block \in Ids
  <2>1. \A i \in 1 .. Len(s) - 1 : i \in 1 .. Len(s)
    BY <1>1
  <2>2. \A i \in 1 .. Len(s) - 1 : s[i].block \in Ids \cup {Null} /\ s[i].block # Null
    BY <2>1 DEF GoodStack, GoodFrame, Frames, Stacks
  <2>3. QED
    BY <2>1, <2>2 DEF GoodStack
<1>3. ASSUME NEW n \in 0 .. Len(s) - 1, \A i \in levels : i <= n
      PROVE  r[Len(s) - 1] = r[n]
  <2>1. \A i \in 1 .. Len(s) : n < i /\ i <= Len(s) - 1 => Pending(program, s[i]) = Nothing
    <3>1. TAKE i \in 1 .. Len(s)
    <3>2. HAVE n < i /\ i <= Len(s) - 1
    <3>3. i \in 1 .. Len(s) - 1 /\ i \notin levels
      BY <1>1, <1>3, <3>2
    <3>4. ~s[i].isLoop /\ NextOf(s[i].block) = Null
      BY <3>3
    <3>5. QED
      BY <1>2, <3>3, <3>4, LastBlock
  <2>2. n \in Nat /\ Len(s) - 1 \in Nat /\ n <= Len(s) - 1 /\ Len(s) - 1 <= Len(s)
    BY <1>1
  <2>3. QED
    BY <2>1, <2>2, RestGap
<1>4. CASE levels = {}
  <2>1. Unwound(s) = <<>>
    BY <1>4 DEF Unwound
  <2>2. r[Len(s) - 1] = r[0]
    BY <1>1, <1>3, <1>4
  <2>3. GoodStack(<<>>)
    BY DEF GoodStack, Stacks
  <2>4. QED
    BY <1>1, <2>1, <2>2, <2>3 DEF NoLooseEnd, LeftOf
<1>5. CASE levels # {}
  <2>1. k \in levels /\ \A i \in levels : k >= i
    <3>1. Len(s) - 1 \in Nat /\ levels \in SUBSET (1 .. Len(s) - 1)
      BY <1>1
    <3> HIDE DEF levels
    <3>2. QED
      BY <1>5, <3>1, HighestOf
  <2>2. k \in 1 .. Len(s) - 1 /\ (s[k].isLoop \/ NextOf(s[k].block) # Null)
    BY <2>1
  <2>3. Unwound(s) = IF s[k].isLoop THEN SubSeq(s, 1, k)
                     ELSE Append(SubSeq(s, 1, k - 1), Fresh(NextOf(s[k].block)))
    BY <1>5 DEF Unwound
  <2>4. r[Len(s) - 1] = r[k]
    <3>1. k \in 0 .. Len(s) - 1 /\ \A i \in levels : i <= k
      BY <1>1, <2>1, <2>2
    <3> HIDE DEF levels, k, r
    <3>2. QED
      BY <1>3, <3>1
  <2> HIDE DEF k, levels
  <2>5. /\ k \in 0 .. Len(s) /\ k - 1 \in 0 .. Len(s) /\ k - 1 < Len(s) /\ k \in 1 .. Len(s)
        /\ GoodFrame(s[k]) /\ s[k].block \in Ids
    BY <1>1, <1>2, <2>2
  <2> DEFINE u == SubSeq(s, 1, k - 1)
  <2>6. GoodStack(u) /\ Open(u) /\ RestOf(u) = r[k - 1] /\ RestOf(u) \in Values
    BY <2>5, CutFacts, RestValues
  <2>7. r[k] = Then(Pending(program, s[k]), r[k - 1])
    BY <1>1, <2>5 DEF IsRest
  <2>8. CASE s[k].isLoop
    <3> DEFINE v == SubSeq(s, 1, k)
    <3>1. GoodStack(v) /\ Len(v) = k /\ v[k] = s[k] /\ RestOf(v) = r[k]
      <4>1. k \in 1 .. k
        BY <2>5
      <4>2. QED
        BY <2>5, <4>1, CutFacts
    <3>2. v # <<>> /\ Top(v) = s[k]
      BY <2>5, <3>1 DEF Top
    <3> HIDE DEF v
    <3>3. /\ RestOf(v) = Then(Pending(program, Top(v)), RestOf(Below(v)))
          /\ LeftOf(v) = Then(OnTop(program, Top(v)), RestOf(Below(v)))
      BY <3>1, <3>2, TopOfStack
    <3>4. OnTop(program, s[k]) = Pending(program, s[k])
      BY <2>5, <2>8, PendingType
    <3>5. LeftOf(v) = r[k]
      BY <3>1, <3>2, <3>3, <3>4
    <3>6. NoLooseEnd(v)
      BY <2>5, <3>2, ProgramFacts DEF NoLooseEnd
    <3>7. Unwound(s) = v
      BY <2>3, <2>8 DEF v
    <3>8. QED
      BY <1>1, <2>4, <3>1, <3>5, <3>6, <3>7
  <2>9. CASE ~s[k].isLoop
    <3> DEFINE next == NextOf(s[k].block)
               v == Append(u, Fresh(next))
    <3>1. next # Null /\ next \in Ids \cup {Null} /\ Pending(program, s[k]) = M(next)
      BY <2>2, <2>5, <2>9, LastBlock
    <3>2. GoodFrame(Fresh(next)) /\ OnTop(program, Fresh(next)) = M(next)
          /\ Fresh(next).block = next
      BY <3>1, FreshFrame
    <3> HIDE DEF next, u
    <3>3. GoodStack(v) /\ Top(v) = Fresh(next) /\ LeftOf(v) = Then(M(next), RestOf(u))
      BY <2>6, <3>2, PushFacts
    <3>4. LeftOf(v) = r[k]
      BY <2>6, <2>7, <3>1, <3>3
    <3>5. NoLooseEnd(v)
      BY <3>1, <3>2, <3>3 DEF NoLooseEnd
    <3>6. Unwound(s) = v
      BY <2>3, <2>9 DEF u, next
    <3>7. QED
      BY <1>1, <2>4, <3>3, <3>4, <3>5, <3>6
  <2>10. QED
    BY <2>8, <2>9
<1>6. QED
  BY <1>4, <1>5

LEMMA GoToLeft ==
  ASSUME program \in Programs, NEW s, GoodStack(s), s # <<>>, NEW b \in Ids \cup {Null}
  PROVE  /\ GoodStack(GoTo(s, b)) /\ NoLooseEnd(GoTo(s, b))
         /\ LeftOf(GoTo(s, b)) = Then(M(b), RestOf(Below(s)))
<1> DEFINE u == Below(s)
           v == Append(u, Fresh(b))
<1>1. GoodStack(u) /\ Open(u) /\ RestOf(u) \in Values
  BY TopOfStack
<1>2. GoodFrame(Fresh(b)) /\ OnTop(program, Fresh(b)) = M(b) /\ Fresh(b).block = b
  BY FreshFrame
<1> HIDE DEF u
<1>3. /\ GoodStack(v) /\ v # <<>> /\ Top(v) = Fresh(b) /\ Below(v) = u
      /\ LeftOf(v) = Then(M(b), RestOf(u))
  BY <1>1, <1>2, PushFacts
<1> HIDE DEF v
<1>4. GoTo(s, b) = IF b = Null THEN Unwound(v) ELSE v
  BY DEF GoTo, v, u
<1>5. CASE b = Null
  <2>1. GoodStack(Unwound(v)) /\ NoLooseEnd(Unwound(v)) /\ LeftOf(Unwound(v)) = RestOf(u)
    BY <1>3, UnwoundLeft
  <2>2. Then(M(b), RestOf(u)) = RestOf(u)
    BY <1>1, <1>5, MFacts, ThenNothing
  <2>3. QED
    BY <1>4, <1>5, <2>1, <2>2 DEF u
<1>6. CASE b # Null
  <2>1. NoLooseEnd(v)
    BY <1>2, <1>3, <1>6 DEF NoLooseEnd
  <2>2. QED
    BY <1>3, <1>4, <1>6, <2>1 DEF u
<1>7. QED
  BY <1>5, <1>6

LEMMA EnterLeft ==
  ASSUME program \in Programs, NEW s, GoodStack(s), Open(s), NEW b \in Ids \cup {Null}
  PROVE  /\ GoodStack(Enter(s, b)) /\ NoLooseEnd(Enter(s, b))
         /\ LeftOf(Enter(s, b)) = Then(M(b), RestOf(s))
<1> DEFINE v == Append(s, Fresh(b))
<1>1. GoodFrame(Fresh(b)) /\ OnTop(program, Fresh(b)) = M(b) /\ Fresh(b).block = b
  BY FreshFrame
<1>2. /\ GoodStack(v) /\ v # <<>> /\ Top(v) = Fresh(b) /\ Below(v) = s
      /\ LeftOf(v) = Then(M(b), RestOf(s)) /\ RestOf(s) \in Values
  BY <1>1, PushFacts
<1> HIDE DEF v
<1>3. Enter(s, b) = IF b = Null THEN Unwound(v) ELSE v
  BY DEF Enter, v
<1>4. CASE b = Null
  <2>1. GoodStack(Unwound(v)) /\ NoLooseEnd(Unwound(v)) /\ LeftOf(Unwound(v)) = RestOf(s)
    BY <1>2, UnwoundLeft
  <2>2. Then(M(b), RestOf(s)) = RestOf(s)
    BY <1>2, <1>4, MFacts, ThenNothing
  <2>3. QED
    BY <1>3, <1>4, <2>1, <2>2
<1>5. CASE b # Null
  <2>1. NoLooseEnd(v)
    BY <1>1, <1>2, <1>5 DEF NoLooseEnd
  <2>2. QED
    BY <1>2, <1>3, <1>5, <2>1
<1>6. QED
  BY <1>4, <1>5


LEMMA OwnCases ==
  ASSUME NEW block, NEW means
  PROVE  /\ block.op \in Moves \cup Turns =>
              Own(block, means) = [says |-> <<Instruction(block)>>, ends |-> FALSE]
         /\ block.op \in Loops =>
              Own(block, means) = Again(means[block.branch], Rounds(block))
         /\ block.op = "if" => Own(block, means) = means[Chosen(block)]
         /\ block.op \in Stops => Own(block, means) = [says |-> <<>>, ends |-> TRUE]
         /\ block.op \in {"hat", "wait", "stop other scripts"} =>
              Own(block, means) = Nothing
<1>1. CASE block.op \in Moves \cup Turns
  <2>1. block.op \notin Loops \cup Stops \cup {"if", "hat", "wait", "stop other scripts"}
    BY <1>1 DEF Moves, Turns, Loops, Stops
  <2>2. QED
    BY <1>1, <2>1 DEF Own
<1>2. CASE block.op \in Loops
  <2>1. block.op \notin Moves \cup Turns \cup Stops
                         \cup {"if", "hat", "wait", "stop other scripts"}
    BY <1>2 DEF Moves, Turns, Loops, Stops
  <2>2. QED
    BY <1>2, <2>1 DEF Own
<1>3. CASE block.op = "if"
  <2>1. block.op \notin Moves \cup Turns \cup Stops \cup Loops
    BY <1>3 DEF Moves, Turns, Loops, Stops
  <2>2. QED
    BY <1>3, <2>1 DEF Own
<1>4. CASE block.op \in Stops
  <2>1. block.op \notin Moves \cup Turns \cup Loops
                         \cup {"if", "hat", "wait", "stop other scripts"}
    BY <1>4 DEF Moves, Turns, Loops, Stops
  <2>2. QED
    BY <1>4, <2>1 DEF Own
<1>5. CASE block.op \in {"hat", "wait", "stop other scripts"}
  <2>1. block.op \notin Moves \cup Turns \cup Loops \cup Stops \cup {"if"}
    BY <1>5 DEF Moves, Turns, Loops, Stops
  <2>2. QED
    BY <1>5, <2>1 DEF Own
<1>6. QED
  BY <1>1, <1>2, <1>3, <1>4, <1>5

\* A block on top that is not a loop under way.
LEMMA BlockLeft ==
  ASSUME program \in Programs, NEW s, GoodStack(s), s # <<>>,
         Top(s).block # Null, ~Top(s).isLoop
  PROVE  LET block == program.blocks[Top(s).block]
         IN  /\ Top(s).block \in Ids /\ Open(s)
             /\ M(block.next) \in Values /\ RestOf(Below(s)) \in Values
             /\ Own(block, Meaning(program)) \in Values
             /\ RestOf(s) = Then(M(block.next), RestOf(Below(s)))
             /\ LeftOf(s) = Then(Own(block, Meaning(program)),
                                 Then(M(block.next), RestOf(Below(s))))
<1> DEFINE f == Top(s)
           block == program.blocks[f.block]
           own == Own(block, Meaning(program))
<1>1. /\ GoodFrame(f) /\ RestOf(Below(s)) \in Values
      /\ RestOf(s) = Then(Pending(program, f), RestOf(Below(s)))
      /\ LeftOf(s) = Then(OnTop(program, f), RestOf(Below(s)))
  BY TopOfStack
<1>2. f.block \in Ids
  BY <1>1 DEF GoodFrame, Frames
<1>3. OnTop(program, f) = M(f.block) /\ Pending(program, f) = M(block.next)
  BY <1>1, PendingType
<1>4. M(f.block) = Then(own, M(block.next))
  BY <1>2, MFacts
<1>5. block.next \in Ids \cup {Null} /\ block.branch \in Ids \cup {Null}
      /\ block.other \in Ids \cup {Null}
  BY <1>2, ProgramFacts
<1>6. M(block.next) \in Values /\ M(block.branch) \in Values /\ M(block.other) \in Values
  BY <1>5, MFacts
<1>7. own \in Values
  <2>1. IsProgram(program)
    BY ProgramsAssumption
  <2>2. QED
    BY <1>2, <1>6, <2>1, OwnType DEF M, Ids
<1>8. Open(s)
  <2>1. s \in Stacks /\ Len(s) \in Nat
    BY RestValues DEF GoodStack
  <2>2. \A i \in 1 .. Len(s) : i = Len(s) \/ i \in 1 .. Len(s) - 1
    BY <2>1
  <2>3. QED
    BY <2>1, <2>2 DEF Stacks, Open, Top
<1> HIDE DEF own, block, f
<1>9. Then(Then(own, M(block.next)), RestOf(Below(s)))
        = Then(own, Then(M(block.next), RestOf(Below(s))))
  BY <1>1, <1>6, <1>7, ThenTogether
<1>10. QED
  BY <1>1, <1>2, <1>3, <1>4, <1>6, <1>7, <1>8, <1>9 DEF own, block, f

\* A loop stands for a round, if one is left, and itself with a round less.
LEMMA LoopedLeft ==
  ASSUME program \in Programs, NEW s, GoodStack(s), s # <<>>,
         Top(s).block # Null, program.blocks[Top(s).block].op \in Loops
  PROVE  /\ GoodStack(Looped(s)) /\ NoLooseEnd(Looped(s)) /\ LeftOf(Looped(s)) = LeftOf(s)
<1> DEFINE f == Top(s)
           block == program.blocks[f.block]
           count == IF f.loopCounter = Unset THEN Rounds(block) ELSE f.loopCounter
           left == count - 1
           frame == [f EXCEPT !.loopCounter = left, !.isLoop = TRUE]
           u == Below(s)
           v == Append(u, frame)
<1>1. /\ GoodFrame(f) /\ GoodStack(u) /\ Open(u) /\ RestOf(u) \in Values
      /\ LeftOf(s) = Then(OnTop(program, f), RestOf(u))
  BY TopOfStack
<1>2. f \in Frames /\ f.block \in Ids /\ f.isLoop \in BOOLEAN
  BY <1>1 DEF GoodFrame, Frames
<1>3. /\ block.next \in Ids \cup {Null} /\ block.branch \in Ids \cup {Null}
      /\ block.times \in Nat
  BY <1>2, ProgramFacts
<1>4. M(block.next) \in Values /\ M(block.branch) \in Values
  BY <1>3, MFacts
<1>5. count \in Nat /\ OnTop(program, f) = Then(Again(M(block.branch), count), M(block.next))
  <2>1. CASE f.isLoop
    <3>1. f.loopCounter \in Nat
      BY <1>1, <2>1 DEF GoodFrame
    <3>2. count = f.loopCounter
      BY <3>1 DEF Unset
    <3>3. QED
      BY <1>1, <2>1, <3>1, <3>2, PendingType
  <2>2. CASE ~f.isLoop
    <3>1. f.loopCounter = Unset
      BY <1>1, <2>2 DEF GoodFrame
    <3>2. count = Rounds(block)
      BY <3>1
    <3>3. Rounds(block) \in Nat
      BY <1>3, ForeverAssumption DEF Rounds
    <3>4. OnTop(program, f) = M(f.block)
      BY <1>1, <2>2, PendingType
    <3>5. M(f.block) = Then(Own(block, Meaning(program)), M(block.next))
      BY <1>2, MFacts
    <3>6. Own(block, Meaning(program)) = Again(M(block.branch), Rounds(block))
      <4> HIDE DEF block, f
      <4>1. block.op \in Loops
        BY DEF block, f
      <4>2. QED
        BY <4>1, OwnCases, Zenon DEF M
    <3>7. QED
      BY <3>2, <3>3, <3>4, <3>5, <3>6
  <2>3. QED
    BY <1>2, <2>1, <2>2
<1>6. Looped(s) = IF left >= 0 THEN Enter(v, block.branch) ELSE GoTo(s, block.next)
  BY DEF Looped
<1>7. CASE left >= 0
  <2>1. left \in Nat /\ count = left + 1
    BY <1>5, <1>7
  <2>2. /\ frame \in Frames /\ frame.block = f.block /\ frame.isLoop
        /\ frame.loopCounter = left
    <3>1. left \in Int
      BY <2>1
    <3> HIDE DEF left, f
    <3>2. QED
      BY <1>2, <3>1 DEF Frames
  <2> HIDE DEF frame, left, u
  <2>3. GoodFrame(frame)
    BY <1>2, <2>1, <2>2 DEF GoodFrame
  <2>4. Pending(program, frame) = Then(Again(M(block.branch), left), M(block.next))
        /\ Pending(program, frame) \in Values
    BY <2>2, <2>3, PendingType
  <2>5. /\ GoodStack(v) /\ RestOf(v) = Then(Pending(program, frame), RestOf(u))
        /\ v # <<>> /\ Len(v) = Len(u) + 1 /\ Top(v) = frame
        /\ \A i \in 1 .. Len(u) : v[i] = u[i]
    BY <1>1, <2>3, PushFacts
  <2>6. Open(v)
    <3>0. Len(u) \in Nat
      BY <1>1, RestValues
    <3> HIDE DEF v
    <3>1. \A i \in 1 .. Len(v) : i \in 1 .. Len(u) \/ i = Len(v)
      BY <2>5, <3>0
    <3>2. \A i \in 1 .. Len(v) : v[i].block # Null
      BY <1>1, <2>2, <2>5, <3>1 DEF Open, Top
    <3>3. QED
      BY <3>2 DEF Open
  <2> HIDE DEF v
  <2>7. /\ GoodStack(Enter(v, block.branch)) /\ NoLooseEnd(Enter(v, block.branch))
        /\ LeftOf(Enter(v, block.branch)) = Then(M(block.branch), RestOf(v))
    BY <1>3, <2>5, <2>6, EnterLeft
  <2> DEFINE x == M(block.branch)
             y == M(block.next)
             z == RestOf(u)
             a == Again(x, left)
  <2>8. x \in Values /\ y \in Values /\ z \in Values /\ a \in Values
        /\ Again(x, count) = Then(x, a)
    BY <1>1, <1>4, <2>1, AgainFacts
  <2>9. Then(Then(Then(x, a), y), z) = Then(x, Then(Then(a, y), z))
    <3> HIDE DEF x, y, z, a
    <3>1. Then(a, y) \in Values
      BY <2>8, ThenType
    <3>2. Then(Then(x, a), y) = Then(x, Then(a, y))
      BY <2>8, ThenTogether
    <3>3. QED
      BY <2>8, <3>1, <3>2, ThenTogether
  <2>10. LeftOf(Enter(v, block.branch)) = LeftOf(s)
    BY <1>1, <1>5, <2>4, <2>5, <2>7, <2>8, <2>9
  <2>11. QED
    BY <1>6, <1>7, <2>7, <2>10
<1>8. CASE ~(left >= 0)
  <2>1. count = 0
    BY <1>5, <1>8
  <2>2. Again(M(block.branch), count) = Nothing
    BY <1>4, <2>1, AgainFacts
  <2>3. OnTop(program, f) = M(block.next)
    BY <1>4, <1>5, <2>2, ThenNothing
  <2>4. /\ GoodStack(GoTo(s, block.next)) /\ NoLooseEnd(GoTo(s, block.next))
        /\ LeftOf(GoTo(s, block.next)) = Then(M(block.next), RestOf(u))
    BY <1>3, GoToLeft
  <2>5. QED
    BY <1>1, <1>6, <1>8, <2>3, <2>4
<1>9. QED
  BY <1>7, <1>8


\* The blocks that are not loops.
LEMMA NotALoop ==
  ASSUME program \in Programs, NEW s, GoodStack(s), s # <<>>, Top(s).block # Null,
         program.blocks[Top(s).block].op \notin Loops
  PROVE  ~Top(s).isLoop
<1>1. GoodFrame(Top(s))
  BY TopOfStack
<1>2. Top(s).isLoop \in BOOLEAN
  BY <1>1 DEF GoodFrame, Frames
<1>3. QED
  BY <1>1, <1>2 DEF GoodFrame

LEMMA ExecutedLeft ==
  ASSUME program \in Programs, NEW s, GoodStack(s), s # <<>>, Top(s).block # Null
  PROVE  LET block == program.blocks[Top(s).block]
             gone == GoTo(s, block.next)
             inside == Enter(s, Chosen(block))
         IN  /\ GoodStack(gone) /\ NoLooseEnd(gone)
             /\ block.op \in Moves \cup Turns =>
                  LeftOf(s).says = <<Instruction(block)>> \o LeftOf(gone).says
             /\ block.op \in {"hat", "stop other scripts"} => LeftOf(gone) = LeftOf(s)
             /\ block.op = "if" => /\ GoodStack(inside) /\ NoLooseEnd(inside)
                                   /\ LeftOf(inside) = LeftOf(s)
             /\ block.op \in Stops => LeftOf(s).says = <<>>
             /\ block.op = "wait" => LeftOf(s) = RestOf(s)
<1> DEFINE block == program.blocks[Top(s).block]
           gone == GoTo(s, block.next)
           inside == Enter(s, Chosen(block))
           own == Own(block, Meaning(program))
           next == Then(M(block.next), RestOf(Below(s)))
<1>0. Top(s).block \in Ids
  <2>1. GoodFrame(Top(s))
    BY TopOfStack
  <2>2. QED
    BY <2>1 DEF GoodFrame, Frames
<1>1. block.next \in Ids \cup {Null} /\ Chosen(block) \in Ids \cup {Null}
  BY <1>0, ProgramFacts DEF Chosen
<1>2. GoodStack(gone) /\ NoLooseEnd(gone) /\ LeftOf(gone) = next
  BY <1>1, GoToLeft
<1>3. ASSUME block.op \notin Loops
      PROVE  /\ LeftOf(s) = Then(own, next) /\ RestOf(s) = next
             /\ own \in Values /\ next \in Values /\ Open(s)
  <2>1. ~Top(s).isLoop
    BY <1>3, NotALoop
  <2>2. /\ LeftOf(s) = Then(own, next) /\ RestOf(s) = next /\ own \in Values /\ Open(s)
        /\ M(block.next) \in Values /\ RestOf(Below(s)) \in Values
    BY <2>1, BlockLeft
  <2>3. next \in Values
    BY <2>2, ThenType
  <2> HIDE DEF next, own
  <2>4. QED
    BY <2>2, <2>3
<1> HIDE DEF own, next, block
<1>4. block.op \in {"if", "hat", "wait", "stop other scripts"} \cup Moves \cup Turns \cup Stops
        => block.op \notin Loops
  BY DEF Moves, Turns, Loops, Stops
<1>5. ASSUME block.op \in Moves \cup Turns
      PROVE  LeftOf(s).says = <<Instruction(block)>> \o LeftOf(gone).says
  <2>1. own = [says |-> <<Instruction(block)>>, ends |-> FALSE]
    BY <1>5, OwnCases DEF own
  <2>2. own.says = <<Instruction(block)>> /\ ~own.ends
    BY <2>1
  <2>3. LeftOf(s) = Then(own, next) /\ own \in Values /\ next \in Values
    BY <1>3, <1>4, <1>5
  <2>4. Then(own, next).says = own.says \o next.says
    BY <2>2, <2>3, ThenFacts
  <2>5. QED
    BY <1>2, <2>2, <2>3, <2>4
<1>6. ASSUME block.op \in {"hat", "wait", "stop other scripts"}
      PROVE  LeftOf(s) = next /\ RestOf(s) = next
  <2>1. own = Nothing
    BY <1>6, OwnCases DEF own
  <2>2. LeftOf(s) = Then(own, next) /\ RestOf(s) = next /\ next \in Values
    BY <1>3, <1>4, <1>6
  <2>3. QED
    BY <2>1, <2>2, ThenNothing
<1>7. ASSUME block.op = "if"
      PROVE  GoodStack(inside) /\ NoLooseEnd(inside) /\ LeftOf(inside) = LeftOf(s)
  <2>1. own = M(Chosen(block))
    BY <1>7, OwnCases DEF own, M
  <2>2. LeftOf(s) = Then(own, next) /\ RestOf(s) = next /\ Open(s)
    BY <1>3, <1>4, <1>7
  <2>3. GoodStack(inside) /\ NoLooseEnd(inside)
        /\ LeftOf(inside) = Then(M(Chosen(block)), RestOf(s))
    BY <1>1, <2>2, EnterLeft
  <2>4. QED
    BY <2>1, <2>2, <2>3
<1>8. ASSUME block.op \in Stops PROVE LeftOf(s).says = <<>>
  <2>1. own = [says |-> <<>>, ends |-> TRUE]
    BY <1>8, OwnCases DEF own
  <2>2. own.says = <<>> /\ own.ends
    BY <2>1
  <2>3. LeftOf(s) = Then(own, next) /\ own \in Values /\ next \in Values
    BY <1>3, <1>4, <1>8
  <2>4. Then(own, next) = own
    BY <2>2, <2>3, ThenFacts
  <2>5. QED
    BY <2>2, <2>3, <2>4
<1>9. QED
  BY <1>2, <1>5, <1>6, <1>7, <1>8 DEF block

\* An empty branch makes way for the loop it is in, or is the end.
LEMMA EmptyLeft ==
  ASSUME program \in Programs, NEW s, GoodStack(s), s # <<>>, Top(s).block = Null,
         NoLooseEnd(s)
  PROVE  /\ GoodStack(Below(s)) /\ NoLooseEnd(Below(s)) /\ LeftOf(Below(s)) = LeftOf(s)
<1> DEFINE u == Below(s)
<1>1. /\ GoodStack(u) /\ GoodFrame(Top(s)) /\ RestOf(u) \in Values
      /\ Len(s) \in Nat \ {0} /\ Len(u) = Len(s) - 1
      /\ \A i \in 1 .. Len(s) - 1 : u[i] = s[i]
      /\ LeftOf(s) = Then(OnTop(program, Top(s)), RestOf(u))
      /\ Open(u) /\ u \in Seq(Frames)
  BY TopOfStack, RestValues
<1>2. LeftOf(s) = RestOf(u)
  BY <1>1, PendingType, ThenNothing
<1> HIDE DEF u
<1>3. CASE Len(s) = 1
  <2>1. u = <<>>
    BY <1>1, <1>3
  <2>2. RestOf(u) = Nothing
    BY <2>1, <1>1, RestValues DEF RestOf
  <2>3. QED
    BY <1>1, <1>2, <2>1, <2>2 DEF LeftOf, NoLooseEnd, u
<1>4. CASE Len(s) # 1
  <2>1. s[Len(s) - 1].isLoop
    BY <1>4 DEF NoLooseEnd
  <2>2. Len(u) \in 1 .. Len(s) - 1 /\ Len(u) \in 1 .. Len(u)
    BY <1>1, <1>4
  <2>3. u # <<>> /\ Top(u) = s[Len(s) - 1]
    BY <1>1, <2>2 DEF Top
  <2>4. Top(u).block # Null
    BY <2>2 , <1>1 DEF Open, Top
  <2>5. /\ GoodFrame(Top(u))
        /\ RestOf(u) = Then(Pending(program, Top(u)), RestOf(Below(u)))
        /\ LeftOf(u) = Then(OnTop(program, Top(u)), RestOf(Below(u)))
    BY <1>1, <2>3, TopOfStack
  <2>6. OnTop(program, Top(u)) = Pending(program, Top(u))
    BY <2>1, <2>3, <2>5, PendingType
  <2>7. QED
    BY <1>1, <1>2, <2>4, <2>5, <2>6 DEF NoLooseEnd, u
<1>5. QED
  BY <1>3, <1>4

\* A timer leaves its thread with what is below the wait block.
LEMMA ResumedLeft ==
  ASSUME program \in Programs, NEW s, GoodStack(s), s # <<>>, Top(s).block # Null,
         program.blocks[Top(s).block].op = "wait"
  PROVE  /\ GoodStack(Resumed(s)) /\ NoLooseEnd(Resumed(s)) /\ LeftOf(Resumed(s)) = LeftOf(s)
<1> DEFINE levels == {i \in DOMAIN s : \/ NextOf(s[i].block) # Null
                                       \/ i = 1
                                       \/ i > 1 /\ s[i - 1].isLoop}
           k == Highest(levels)
           r == Rest(program, s)
           next == NextOf(s[k].block)
           u == SubSeq(s, 1, k - 1)
           v == Append(u, Fresh(next))
<1>1. /\ Len(s) \in Nat \ {0} /\ DOMAIN s = 1 .. Len(s) /\ IsRest(s, r)
      /\ RestOf(s) = r[Len(s)]
  BY TopOfStack, RestValues, RestHolds DEF RestOf
<1>0. Len(s) \in Nat \ {0}
  BY <1>1
<1>2. LeftOf(s) = r[Len(s)] /\ ~Top(s).isLoop
  <2>1. program.blocks[Top(s).block].op \notin Loops
    BY DEF Loops
  <2>2. ~Top(s).isLoop
    BY <2>1, NotALoop
  <2>3. QED
    BY <1>1, <2>2, ExecutedLeft
<1>3. \A i \in 1 .. Len(s) : GoodFrame(s[i]) /\ s[i].block \in Ids
  <2>1. \A i \in 1 .. Len(s) : i = Len(s) \/ i \in 1 .. Len(s) - 1
    BY <1>0
  <2>2. \A i \in 1 .. Len(s) : s[i].block # Null
    BY <2>1 DEF GoodStack, Stacks, Top
  <2>3. QED
    BY <2>2 DEF GoodStack, GoodFrame, Frames
<1>4. k \in levels /\ \A i \in levels : k >= i
  <2>1. 1 \in levels /\ levels \in SUBSET (1 .. Len(s))
    BY <1>1
  <2> HIDE DEF levels
  <2>2. QED
    BY <1>1, <2>1, HighestOf
<1>5. k \in 1 .. Len(s) /\ (next # Null \/ k = 1 \/ (k > 1 /\ s[k - 1].isLoop))
  BY <1>1, <1>4
<1>6. \A i \in 1 .. Len(s) : k < i => NextOf(s[i].block) = Null /\ ~s[i - 1].isLoop
  <2>1. TAKE i \in 1 .. Len(s)
  <2>2. HAVE k < i
  <2>3. i \notin levels
    <3> HIDE DEF levels, k
    <3>1. ASSUME i \in levels PROVE FALSE
      <4>1. k >= i
        BY <1>4, <3>1
      <4>2. QED
        BY <1>0, <1>5, <2>2, <4>1
    <3>2. QED
      BY <3>1
  <2>4. i > 1
    BY <1>5, <2>2
  <2>5. QED
    BY <1>1, <2>3, <2>4
<1> HIDE DEF k, levels, next
<1>7. \A i \in 1 .. Len(s) : k <= i => ~s[i].isLoop
  <2>1. TAKE i \in 1 .. Len(s)
  <2>2. HAVE k <= i
  <2>3. CASE i = Len(s)
    BY <1>2, <2>3 DEF Top
  <2>4. CASE i # Len(s)
    <3>1. i + 1 \in 1 .. Len(s) /\ k < i + 1 /\ (i + 1) - 1 = i
      BY <1>0, <1>5, <2>2, <2>4
    <3>2. QED
      BY <1>6, <3>1
  <2>5. QED
    BY <2>3, <2>4
<1>8. r[Len(s)] = r[k]
  <2>1. \A i \in 1 .. Len(s) : k < i /\ i <= Len(s) => Pending(program, s[i]) = Nothing
    <3>1. TAKE i \in 1 .. Len(s)
    <3>2. HAVE k < i /\ i <= Len(s)
    <3>3. k <= i
      BY <1>5, <3>2
    <3>4. QED
      BY <1>3, <1>6, <1>7, <3>2, <3>3, LastBlock
  <2>2. k \in Nat /\ Len(s) \in Nat /\ k <= Len(s) /\ Len(s) <= Len(s)
    BY <1>1, <1>5
  <2>3. QED
    BY <2>1, <2>2, RestGap
<1>9. r[k] = Then(M(next), r[k - 1]) /\ next \in Ids \cup {Null}
  <2>1. k <= k
    BY <1>5
  <2>2. r[k] = Then(Pending(program, s[k]), r[k - 1])
    BY <1>1, <1>5 DEF IsRest
  <2>3. Pending(program, s[k]) = M(next) /\ next \in Ids \cup {Null}
    BY <1>3, <1>5, <1>7, <2>1, LastBlock DEF next
  <2>4. QED
    BY <2>2, <2>3
<1>10. /\ GoodStack(u) /\ Open(u) /\ Len(u) = k - 1 /\ RestOf(u) = r[k - 1]
       /\ \A i \in 1 .. k - 1 : u[i] = s[i]
  <2>1. k - 1 \in 0 .. Len(s) /\ k - 1 < Len(s)
    BY <1>1, <1>5
  <2>2. QED
    BY <2>1, CutFacts
<1>11. GoodFrame(Fresh(next)) /\ OnTop(program, Fresh(next)) = M(next)
       /\ Fresh(next).block = next
  BY <1>9, FreshFrame
<1> HIDE DEF u
<1>12. /\ GoodStack(v) /\ v # <<>> /\ Top(v) = Fresh(next) /\ Len(v) = Len(u) + 1
       /\ \A i \in 1 .. Len(u) : v[i] = u[i]
       /\ LeftOf(v) = Then(M(next), RestOf(u))
  BY <1>10, <1>11, PushFacts
<1> HIDE DEF v
<1>13. NoLooseEnd(v)
  <2>1. Len(v) = k
    BY <1>5, <1>10, <1>12
  <2>2. CASE next # Null
    BY <1>11, <1>12, <2>2 DEF NoLooseEnd
  <2>3. CASE k = 1
    BY <2>1, <2>3 DEF NoLooseEnd
  <2>4. CASE k > 1 /\ s[k - 1].isLoop
    <3>1. k - 1 \in 1 .. k - 1
      BY <1>5, <2>4
    <3>2. v[k - 1] = s[k - 1]
      BY <1>10, <1>12, <3>1
    <3>3. QED
      BY <2>1, <2>4, <3>2 DEF NoLooseEnd
  <2>5. QED
    BY <1>5, <2>2, <2>3, <2>4
<1>14. Resumed(s) = v
  BY DEF Resumed, v, u, next, k, levels
<1>15. QED
  BY <1>2, <1>8, <1>9, <1>10, <1>12, <1>13, <1>14

\* A thread begins with its script.
LEMMA StartLeft ==
  ASSUME program \in Programs, NEW top \in Ids
  PROVE  /\ GoodStack(<<Fresh(top)>>) /\ NoLooseEnd(<<Fresh(top)>>)
         /\ LeftOf(<<Fresh(top)>>) = M(top)
<1>1. GoodStack(<<>>) /\ Open(<<>>)
  BY DEF GoodStack, Stacks, Open
<1>2. GoodFrame(Fresh(top)) /\ OnTop(program, Fresh(top)) = M(top) /\ M(top) \in Values
      /\ Fresh(top).block = top
  BY FreshFrame
<1>3. RestOf(<<>>) = Nothing
  BY <1>1, RestValues DEF RestOf
<1>4. <<Fresh(top)>> = Append(<<>>, Fresh(top))
  OBVIOUS
<1>5. /\ GoodStack(<<Fresh(top)>>) /\ Top(<<Fresh(top)>>) = Fresh(top)
      /\ LeftOf(<<Fresh(top)>>) = Then(M(top), Nothing)
  BY <1>1, <1>2, <1>3, <1>4, PushFacts
<1>6. top # Null
  BY ProgramFacts
<1>7. QED
  BY <1>2, <1>5, <1>6, ThenNothing DEF NoLooseEnd


-----------------------------------------------------------------------------
(* What a thread has posted.                                               *)

Speaks(q, id) == q.thread = id /\ q.m.op \in Moves \cup Turns

SaidBy(ps, id) ==
  LET said[k \in 0 .. Len(ps)] ==
        IF k = 0 THEN <<>>
        ELSE IF ps[k].thread = id /\ ps[k].m.op \in Moves \cup Turns
             THEN Append(said[k - 1], Instruction(ps[k].m))
             ELSE said[k - 1]
  IN  said[Len(ps)]

LEMMA SaidByPosts ==
  ASSUME NEW id
  PROVE  Said(id) = SaidBy(posts, id)
  BY Zenon DEF Said, SaidBy

Sayings == Seq(Instructions)

SaidNext(ps, id, v, k) ==
  IF Speaks(ps[k], id) THEN Append(v, Instruction(ps[k].m)) ELSE v

SaidSteps(ps, id) ==
  [q \in Sayings \X (1 .. Len(ps)) |-> SaidNext(ps, id, q[1], q[2])]

\* The posts are messages.
Speakable(ps) ==
  /\ Len(ps) \in Nat
  /\ \A k \in 1 .. Len(ps) :
       ps[k].m.op \in Moves \cup Turns => Instruction(ps[k].m) \in Instructions

LEMMA SaidStepsFacts ==
  ASSUME NEW ps, Speakable(ps), NEW id
  PROVE  /\ SaidSteps(ps, id) \in [Sayings \X (1 .. Len(ps)) -> Sayings]
         /\ \A v \in Sayings : \A k \in 1 .. Len(ps) :
              SaidSteps(ps, id)[<<v, k>>] = SaidNext(ps, id, v, k)
<1>1. ASSUME NEW v \in Sayings, NEW k \in 1 .. Len(ps)
      PROVE  SaidNext(ps, id, v, k) \in Sayings
  <2>1. Speaks(ps[k], id) => Instruction(ps[k].m) \in Instructions
    BY DEF Speakable, Speaks
  <2>2. \A i \in Instructions : Append(v, i) \in Sayings
    BY DEF Sayings
  <2>3. QED
    BY <2>1, <2>2 DEF SaidNext
<1>2. QED
  BY <1>1 DEF SaidSteps

LEMMA SaidIs ==
  ASSUME NEW ps, Speakable(ps), NEW id
  PROVE  \E r : /\ IsRecursion(r, Sayings, <<>>, Len(ps), SaidSteps(ps, id))
                /\ SaidBy(ps, id) = r[Len(ps)]
<1> DEFINE n == Len(ps)
           step == SaidSteps(ps, id)
           Def(f) == f = [k \in 0 .. Len(ps) |->
                            IF k = 0 THEN <<>>
                            ELSE IF ps[k].thread = id /\ ps[k].m.op \in Moves \cup Turns
                                 THEN Append(f[k - 1], Instruction(ps[k].m))
                                 ELSE f[k - 1]]
           r == CHOOSE f : Def(f)
<1>0. <<>> \in Sayings /\ n \in Nat
  BY DEF Speakable, Sayings
<1>1. /\ step \in [Sayings \X (1 .. n) -> Sayings]
      /\ \A v \in Sayings : \A k \in 1 .. n : step[<<v, k>>] = SaidNext(ps, id, v, k)
  BY SaidStepsFacts
<1> HIDE DEF step
<1>3. PICK g : IsRecursion(g, Sayings, <<>>, n, step)
  BY <1>0, <1>1, RecursionExists
<1>4. Def(g)
  <2>1. g \in [0 .. n -> Sayings] /\ g[0] = <<>>
    BY <1>3 DEF IsRecursion
  <2>2. ASSUME NEW k \in 0 .. n, k # 0 PROVE g[k] = SaidNext(ps, id, g[k - 1], k)
    <3>1. k \in 1 .. n /\ k - 1 \in 0 .. n
      BY <1>0, <2>2
    <3>2. QED
      BY <1>1, <1>3, <2>1, <3>1 DEF IsRecursion
  <2>3. g = [k \in 0 .. n |-> IF k = 0 THEN <<>> ELSE SaidNext(ps, id, g[k - 1], k)]
    BY <2>1, <2>2
  <2>4. QED
    BY <2>3, Zenon DEF SaidNext, Speaks
<1>5. Def(r)
  <2> HIDE DEF Def
  <2>1. QED
    BY <1>4, Zenon
<1>6. SaidBy(ps, id) = r[n]
  BY Zenon DEF SaidBy
<1> HIDE DEF r
<1>7. \A k \in 0 .. n : r[k] = IF k = 0 THEN <<>> ELSE SaidNext(ps, id, r[k - 1], k)
  BY <1>5, Zenon DEF SaidNext, Speaks
<1>8. r = [k \in 0 .. n |-> r[k]]
  BY <1>5
<1> HIDE DEF n
<1>9. r[0] = <<>>
  BY <1>0, <1>7
<1>10. \A k \in 1 .. n : r[k - 1] \in Sayings => r[k] = step[<<r[k - 1], k>>]
  BY <1>0, <1>1, <1>7
<1>11. IsRecursion(r, Sayings, <<>>, n, step)
  BY <1>0, <1>1, <1>8, <1>9, <1>10, RecursionType
<1>12. QED
  BY <1>6, <1>11 DEF n, step

LEMMA SaidType ==
  ASSUME NEW ps, Speakable(ps), NEW id
  PROVE  SaidBy(ps, id) \in Sayings
<1>1. PICK r : /\ IsRecursion(r, Sayings, <<>>, Len(ps), SaidSteps(ps, id))
               /\ SaidBy(ps, id) = r[Len(ps)]
  BY SaidIs
<1>2. Len(ps) \in 0 .. Len(ps)
  BY DEF Speakable
<1>3. QED
  BY <1>1, <1>2 DEF IsRecursion

LEMMA SaidAppended ==
  ASSUME NEW S, NEW ps \in Seq(S), NEW q \in S,
         Speakable(ps), Speakable(Append(ps, q)), NEW id
  PROVE  SaidBy(Append(ps, q), id) =
           IF Speaks(q, id) THEN Append(SaidBy(ps, id), Instruction(q.m))
           ELSE SaidBy(ps, id)
<1> DEFINE qs == Append(ps, q)
           n == Len(ps)
           m == Len(qs)
           s == SaidSteps(ps, id)
           t == SaidSteps(qs, id)
<1>1. n \in Nat /\ m = n + 1 /\ qs[m] = q /\ \A k \in 1 .. n : qs[k] = ps[k]
  OBVIOUS
<1> HIDE DEF qs
<1>2. PICK f : IsRecursion(f, Sayings, <<>>, n, s) /\ SaidBy(ps, id) = f[n]
  BY SaidIs
<1>3. PICK g : IsRecursion(g, Sayings, <<>>, m, t) /\ SaidBy(qs, id) = g[m]
  BY SaidIs DEF qs
<1>4. /\ \A v \in Sayings : \A k \in 1 .. n : s[<<v, k>>] = SaidNext(ps, id, v, k)
      /\ \A v \in Sayings : \A k \in 1 .. m : t[<<v, k>>] = SaidNext(qs, id, v, k)
  BY SaidStepsFacts DEF qs
<1> HIDE DEF n, m, s, t
<1>5. SameSteps(s, t, Sayings, n)
  <2>1. \A k \in 1 .. n : k \in 1 .. m
    BY <1>1
  <2>2. \A v \in Sayings : \A k \in 1 .. n : SaidNext(ps, id, v, k) = SaidNext(qs, id, v, k)
    BY <1>1 DEF SaidNext
  <2>3. QED
    BY <1>4, <2>1, <2>2 DEF SameSteps
<1>6. f[n] = g[n]
  <2>1. SameValues(f, g, n)
    <3>1. m \in Nat /\ n <= m
      BY <1>1
    <3>2. QED
      BY <1>1, <1>2, <1>3, <1>5, <3>1, RecursionGrows
  <2>2. n \in 0 .. n
    BY <1>1
  <2>3. QED
    BY <2>1, <2>2 DEF SameValues
<1>7. g[m] = SaidNext(qs, id, g[n], m)
  <2>1. m \in 1 .. m /\ m - 1 = n /\ n \in 0 .. m
    BY <1>1
  <2>2. g[n] \in Sayings /\ g[m] = t[<<g[n], m>>]
    BY <1>3, <2>1 DEF IsRecursion
  <2>3. QED
    BY <1>4, <2>1, <2>2
<1>8. QED
  BY <1>1, <1>2, <1>3, <1>6, <1>7 DEF SaidNext, qs

LEMMA SaidNothing ==
  ASSUME NEW ps, Speakable(ps), NEW id, \A k \in 1 .. Len(ps) : ~Speaks(ps[k], id)
  PROVE  SaidBy(ps, id) = <<>>
<1> DEFINE n == Len(ps)
<1>1. PICK r : IsRecursion(r, Sayings, <<>>, n, SaidSteps(ps, id)) /\ SaidBy(ps, id) = r[n]
  BY SaidIs
<1>2. n \in Nat /\ \A v \in Sayings : \A k \in 1 .. n : SaidSteps(ps, id)[<<v, k>>] = v
  <2>1. \A v \in Sayings : \A k \in 1 .. n :
          SaidSteps(ps, id)[<<v, k>>] = SaidNext(ps, id, v, k)
    BY SaidStepsFacts
  <2>2. n \in Nat /\ \A k \in 1 .. n : ~Speaks(ps[k], id)
    BY DEF Speakable
  <2> HIDE DEF n
  <2>3. QED
    BY <2>1, <2>2 DEF SaidNext
<1> HIDE DEF n
<1> DEFINE T == {k \in 0 .. n : r[k] = <<>>}
<1>3. 0 \in T
  BY <1>1, <1>2 DEF IsRecursion
<1>4. ASSUME NEW k \in 0 .. n - 1, k \in T PROVE k + 1 \in T
  <2>1. k + 1 \in 1 .. n /\ k + 1 \in 0 .. n /\ (k + 1) - 1 = k
    BY <1>2
  <2>2. r[k] = <<>> /\ <<>> \in Sayings
    BY <1>4 DEF Sayings
  <2>3. r[k + 1] = SaidSteps(ps, id)[<<r[k], k + 1>>]
    BY <1>1, <2>1 DEF IsRecursion
  <2>4. QED
    BY <1>2, <2>1, <2>2, <2>3
<1>5. \A k \in 0 .. n : k \in T
  <2> HIDE DEF T
  <2>1. QED
    BY <1>2, <1>3, <1>4, BoundedInduction
<1>6. n \in 0 .. n
  BY <1>2
<1>7. QED
  BY <1>1, <1>5, <1>6


-----------------------------------------------------------------------------
(* Threads keep to their scripts.                                          *)

\* Thread t, which has posted said, has the rest of its script on its stack.
Fits(t, said) ==
  ~t.isKilled =>
    /\ GoodStack(t.stack) /\ NoLooseEnd(t.stack)
    /\ t.promise => /\ t.stack # <<>>
                    /\ program.blocks[Top(t.stack).block].op = "wait"
    /\ said \o LeftOf(t.stack).says = M(t.topBlock).says

\* A thread that came to its end does not go on.
Halts(t, ends) == t.id \in ends => t.stack = <<>> /\ ~t.promise

ScriptInv ==
  /\ \A t \in threads : /\ Fits(t, SaidBy(posts, t.id)) /\ Halts(t, ended)
                        /\ t.topBlock = started[t.id]
  /\ \A t, u \in threads : t.id = u.id => t = u
  /\ \A id \in ended : id \in 1 .. Len(started) /\ SaidBy(posts, id) = M(started[id]).says

LEMMA PostsSpeakable ==
  ASSUME posts \in Seq(Posts)
  PROVE  Speakable(posts)
<1>1. Len(posts) \in Nat /\ \A k \in 1 .. Len(posts) : posts[k] \in Posts
  OBVIOUS
<1>2. \A m \in Messages : m.op \in Moves \cup Turns => Instruction(m) \in Instructions
  BY SessionAssumption DEF Instruction, Instructions
<1>3. QED
  BY <1>1, <1>2 DEF Speakable, Posts

\* Who posts what in a step.
LEMMA SaidStep ==
  ASSUME PageInv, PageInv', program' = program, NEW p \in Posts, Says(p), NEW id
  PROVE  SaidBy(posts', id) =
           IF Speaks(p, id) THEN Append(SaidBy(posts, id), Instruction(p.m))
           ELSE SaidBy(posts, id)
<1>1. Posts' = Posts
  BY SameProgram DEF Posts
<1>2. posts \in Seq(Posts) /\ posts' \in Seq(Posts)
  BY <1>1 DEF PageInv
<1>3. Speakable(posts)
  BY <1>2, PostsSpeakable
<1>4. Speakable(posts)'
  <2>1. (posts \in Seq(Posts))' => Speakable(posts)'
    BY PostsSpeakable, PTL
  <2>2. QED
    BY <1>1, <1>2, <2>1
<1>5. Speakable(Append(posts, p))
  BY <1>4 DEF Speakable, Says
<1>6. QED
  BY <1>2, <1>3, <1>5, SaidAppended DEF Says

LEMMA SaidTypes ==
  ASSUME PageInv, NEW id
  PROVE  SaidBy(posts, id) \in Seq(Instructions)
  BY PostsSpeakable, SaidType DEF PageInv, Sayings

\* The thread that starts next has posted nothing.
LEMMA NewSaidNothing ==
  ASSUME PageInv
  PROVE  SaidBy(posts, Len(started) + 1) = <<>>
<1>1. Len(posts) \in Nat /\ DOMAIN posts = 1 .. Len(posts) /\ Len(started) \in Nat
      /\ \A k \in 1 .. Len(posts) : posts[k].thread \in Nat
  BY PostFacts DEF PageInv, MachineInv, VMTypeOK
<1>2. \A k \in 1 .. Len(posts) : posts[k].thread <= Len(started)
  BY <1>1 DEF PageInv, SilenceInv
<1>3. \A k \in 1 .. Len(posts) : posts[k].thread # Len(started) + 1
  BY <1>1, <1>2
<1>4. QED
  BY <1>3, PostsSpeakable, SaidNothing DEF PageInv, Speaks

\* A step that stops threads and moves some on.
LEMMA ScriptsGoOn ==
  ASSUME PageInv, PageInv', ScriptInv, UNCHANGED <<program, started>>,
         \A u \in threads' : \E t \in threads :
           /\ Later(t, u) /\ Fits(u, SaidBy(posts', u.id)) /\ Halts(u, ended'),
         \A id \in ended' : /\ id \in 1 .. Len(started)
                            /\ SaidBy(posts', id) = M(started[id]).says
  PROVE  ScriptInv'
<1>1. \A u \in threads' : u.topBlock = started[u.id]
  BY DEF Later, ScriptInv
<1>2. \A u, w \in threads' : u.id = w.id => u = w
  <2>1. TAKE u, w \in threads'
  <2>2. HAVE u.id = w.id
  <2>3. PICK t \in threads : Later(t, u)
    OBVIOUS
  <2>4. PICK s \in threads : Later(s, w)
    OBVIOUS
  <2>5. t = s
    <3>1. \A a, b \in threads : a.id = b.id => a = b
      BY DEF ScriptInv
    <3>2. t.id = s.id
      BY <2>2, <2>3, <2>4 DEF Later
    <3>3. QED
      BY <3>1, <3>2
  <2>6. u.place = w.place
    BY <2>3, <2>4, <2>5 DEF Later
  <2>7. Distinct'
    BY DEF PageInv, MachineInv
  <2>8. QED
    BY <2>6, <2>7 DEF Distinct
<1>3. Ids' = Ids /\ Frames' = Frames /\ Stacks' = Stacks
  BY SameProgram
<1>4. ASSUME NEW t \in threads', Fits(t, SaidBy(posts', t.id))
      PROVE  Fits(t, SaidBy(posts, t.id))'
  BY <1>3, <1>4 DEF Fits, GoodStack, GoodFrame, LeftOf, M
<1>5. \A id \in ended' : (id \in 1 .. Len(started) /\ SaidBy(posts, id) = M(started[id]).says)'
  BY DEF M
<1>6. QED
  BY <1>1, <1>2, <1>4, <1>5 DEF ScriptInv, Halts


\* Nobody posts an instruction.
Silent == \A id : SaidBy(posts', id) = SaidBy(posts, id)

LEMMA SilentSteps ==
  ASSUME PageInv, PageInv', program' = program,
         posts' = posts \/ \E p \in Posts : Says(p) /\ p.m.op \notin Moves \cup Turns
  PROVE  Silent
<1>1. CASE posts' = posts
  BY <1>1 DEF Silent
<1>2. ASSUME NEW p \in Posts, Says(p), p.m.op \notin Moves \cup Turns PROVE Silent
  <2>1. \A id : ~Speaks(p, id)
    BY <1>2 DEF Speaks
  <2>2. QED
    BY <1>2, <2>1, SaidStep DEF Silent
<1>3. QED
  BY <1>1, <1>2

LEMMA StoppedFits ==
  ASSUME ScriptInv, threads \in SUBSET Threads, NEW t \in threads, NEW said
  PROVE  /\ Later(t, Retired(t)) /\ Fits(Retired(t), said) /\ Halts(Retired(t), ended)
<1>1. /\ Retired(t).id = t.id /\ Retired(t).promise = t.promise
      /\ Retired(t).isKilled /\ Retired(t).stack = <<>> /\ Later(t, Retired(t))
  <2>1. t \in Threads
    OBVIOUS
  <2>2. QED
    BY <2>1 DEF Retired, Threads, Later
<1>2. QED
  BY <1>1 DEF Fits, Halts, ScriptInv

LEMMA ScriptsQuiet ==
  ASSUME PageInv, PageInv', ScriptInv, UNCHANGED <<program, started, ended>>, Silent,
         \A u \in threads' :
           \/ u \in threads
           \/ \E t \in threads : u = Retired(t)
           \/ \E t \in threads :
                Later(t, u) /\ Fits(u, SaidBy(posts, t.id)) /\ Halts(u, ended)
  PROVE  ScriptInv'
<1>1. threads \in SUBSET Threads
  BY DEF PageInv, MachineInv, VMTypeOK
<1>2. ASSUME NEW u \in threads'
      PROVE  \E t \in threads :
               Later(t, u) /\ Fits(u, SaidBy(posts', u.id)) /\ Halts(u, ended')
  <2>0. SaidBy(posts', u.id) = SaidBy(posts, u.id) /\ ended' = ended
    BY DEF Silent
  <2>1. CASE u \in threads
    <3>1. Fits(u, SaidBy(posts, u.id)) /\ Halts(u, ended)
      BY <2>1 DEF ScriptInv
    <3>2. Later(u, u)
      BY DEF Later
    <3>3. QED
      BY <2>0, <2>1, <3>1, <3>2
  <2>2. CASE \E t \in threads : u = Retired(t)
    BY <1>1, <2>0, <2>2, StoppedFits
  <2>3. CASE \E t \in threads :
               Later(t, u) /\ Fits(u, SaidBy(posts, t.id)) /\ Halts(u, ended)
    <3>1. PICK t \in threads :
            Later(t, u) /\ Fits(u, SaidBy(posts, t.id)) /\ Halts(u, ended)
      BY <2>3
    <3>2. u.id = t.id
      BY <3>1 DEF Later
    <3>3. QED
      BY <2>0, <3>1, <3>2
  <2>4. QED
    BY <2>1, <2>2, <2>3
<1>3. \A id \in ended' : id \in 1 .. Len(started) /\ SaidBy(posts', id) = M(started[id]).says
  BY DEF ScriptInv, Silent
<1>4. QED
  BY <1>2, <1>3, ScriptsGoOn

\* A thread starts.
LEMMA ScriptsStart ==
  ASSUME PageInv, PageInv', ScriptInv, UNCHANGED <<program, ended>>, Silent,
         NEW top \in Ids, NEW place, NEW click, NEW gone,
         started' = Append(started, top),
         threads' = (threads \ gone)
                      \cup {NewThread(Len(started) + 1, place, top, click)}
  PROVE  ScriptInv'
<1> DEFINE n == Len(started)
           new == NewThread(n + 1, place, top, click)
<1>1. /\ program \in Programs /\ started \in Seq(Ids) /\ n \in Nat
      /\ \A t \in threads : t.id \in 1 .. n
  BY ThreadFacts DEF PageInv, MachineInv, VMTypeOK, Numbered
<1>2. /\ Len(started') = n + 1 /\ started'[n + 1] = top
      /\ \A id \in 1 .. n : started'[id] = started[id] /\ id # n + 1 /\ id \in 1 .. n + 1
  BY <1>1
<1>3. /\ new.id = n + 1 /\ new.topBlock = top /\ ~new.promise /\ new.stack = <<Fresh(top)>>
      /\ new.isKilled = FALSE
  BY DEF NewThread
<1> HIDE DEF new, n
<1>4. M(top) \in Values /\ GoodStack(<<Fresh(top)>>) /\ NoLooseEnd(<<Fresh(top)>>)
      /\ LeftOf(<<Fresh(top)>>) = M(top)
  <2>1. top \in Ids \cup {Null}
    OBVIOUS
  <2>2. QED
    BY <1>1, <2>1, MFacts, StartLeft
<1>5. SaidBy(posts, n + 1) = <<>>
  BY NewSaidNothing DEF n
<1>6. Fits(new, SaidBy(posts, n + 1))
  <2>1. <<>> \o M(top).says = M(top).says
    BY <1>4, ValueFacts, SaysNothing
  <2>2. QED
    BY <1>3, <1>4, <1>5, <2>1 DEF Fits
<1>7. \A id \in ended : id \in 1 .. n /\ SaidBy(posts, id) = M(started[id]).says
  BY DEF ScriptInv, n
<1>8. Halts(new, ended)
  BY <1>2, <1>3, <1>7 DEF Halts
<1>9. Ids' = Ids /\ Frames' = Frames /\ Stacks' = Stacks
  BY SameProgram
<1>10. ASSUME NEW t, Fits(t, SaidBy(posts, t.id))
       PROVE  Fits(t, SaidBy(posts', t.id)) /\ Fits(t, SaidBy(posts, t.id))
  BY <1>10 DEF Silent
<1>11. ASSUME NEW t \in threads', Fits(t, SaidBy(posts', t.id))
       PROVE  Fits(t, SaidBy(posts, t.id))'
  BY <1>9, <1>11 DEF Fits, GoodStack, GoodFrame, LeftOf, M
<1>12. \A t \in threads' : t \in threads \/ t = new
  BY DEF new, n
<1>13. ASSUME NEW t \in threads'
       PROVE  (Fits(t, SaidBy(posts, t.id)) /\ Halts(t, ended) /\ t.topBlock = started[t.id])'
  <2>1. CASE t \in threads
    <3>1. Fits(t, SaidBy(posts, t.id)) /\ Halts(t, ended) /\ t.topBlock = started[t.id]
      BY <2>1 DEF ScriptInv
    <3>2. t.topBlock = started'[t.id]
      BY <1>1, <1>2, <2>1, <3>1 DEF n
    <3>3. QED
      BY <1>10, <1>11, <3>1, <3>2 DEF Halts
  <2>2. CASE t = new
    <3>1. Fits(t, SaidBy(posts, t.id)) /\ Halts(t, ended) /\ t.topBlock = started'[t.id]
      BY <1>2, <1>3, <1>6, <1>8, <2>2
    <3>2. QED
      BY <1>10, <1>11, <3>1 DEF Halts
  <2>3. QED
    BY <1>12, <2>1, <2>2
<1>14. \A t, u \in threads' : t.id = u.id => t = u
  <2>1. \A t, u \in threads : t.id = u.id => t = u
    BY DEF ScriptInv
  <2>2. \A t \in threads : t.id # n + 1
    BY <1>1, <1>2 DEF n
  <2>3. QED
    BY <1>3, <1>12, <2>1, <2>2
<1>15. \A id \in ended' : (id \in 1 .. Len(started) /\ SaidBy(posts, id) = M(started[id]).says)'
  <2>1. TAKE id \in ended'
  <2>2. id \in 1 .. n /\ SaidBy(posts, id) = M(started[id]).says
    BY <1>7
  <2>3. id \in 1 .. Len(started') /\ started'[id] = started[id]
    BY <1>2, <2>2
  <2>4. QED
    BY <2>2, <2>3 DEF M, Silent
<1>16. QED
  BY <1>13, <1>14, <1>15 DEF ScriptInv


\* The thread of the turn goes on as t.
LEMMA ScriptsContinue ==
  ASSUME PageInv, PageInv', ScriptInv, UNCHANGED <<program, started>>, turn # 0,
         NEW t \in Threads, Later(Crt, t),
         NEW others, others = Others \/ others = {Retired(u) : u \in Others},
         Continue(t, others),
         Fits(t, SaidBy(posts', t.id)),
         \A id : id # Crt.id => SaidBy(posts', id) = SaidBy(posts, id),
         t.stack = <<>> => ~t.promise /\ SaidBy(posts', t.id) = M(t.topBlock).says
  PROVE  ScriptInv'
<1>1. /\ Crt \in threads /\ Crt.stack # <<>> /\ threads \in SUBSET Threads
      /\ MachineInv
  BY CrtFacts DEF PageInv, MachineInv, VMTypeOK
<1>2. t.id = Crt.id /\ t.topBlock = Crt.topBlock
  BY DEF Later
<1>3. Crt.id \notin ended /\ Crt.topBlock = started[Crt.id]
  BY <1>1 DEF ScriptInv, Halts
<1>4. Crt.id \in 1 .. Len(started)
  <2>1. Crt \in Threads /\ Crt.id <= Len(started) /\ Len(started) \in Nat
    BY <1>1 DEF MachineInv, Numbered, VMTypeOK
  <2>2. Crt.id \in Nat \ {0}
    BY <2>1, ThreadFacts
  <2>3. QED
    BY <2>1, <2>2
<1>5. ended' = IF t.stack = <<>> THEN ended \cup {t.id} ELSE ended
  BY DEF Continue
<1>6. \A u \in threads' : u \in others \/ u = t
  BY DEF Continue
<1>7. \A u, w \in threads : u.id = w.id => u = w
  BY DEF ScriptInv
<1>8. Halts(t, ended')
  BY <1>2, <1>3, <1>5 DEF Halts
<1>9. ASSUME NEW u \in others
      PROVE  \E w \in threads :
               Later(w, u) /\ Fits(u, SaidBy(posts', u.id)) /\ Halts(u, ended')
  <2>1. PICK w \in Others : u = w \/ u = Retired(w)
    <3>1. CASE others = Others
      BY <3>1
    <3>2. CASE others = {Retired(v) : v \in Others}
      BY <3>2
    <3>3. QED
      BY <3>1, <3>2
  <2>2. w \in threads /\ w # Crt
    BY DEF Others
  <2>3. w.id # Crt.id
    BY <1>1, <1>7, <2>2
  <2>4. Later(w, u) /\ Fits(u, SaidBy(posts, w.id)) /\ Halts(u, ended)
    <3>1. CASE u = w
      BY <2>2, <3>1 DEF ScriptInv, Later
    <3>2. CASE u = Retired(w)
      BY <1>1, <2>2, <3>2, StoppedFits
    <3>3. QED
      BY <2>1, <3>1, <3>2
  <2>5. u.id = w.id
    BY <2>4 DEF Later
  <2>6. SaidBy(posts', u.id) = SaidBy(posts, w.id)
    BY <2>3, <2>5
  <2>7. Halts(u, ended')
    BY <1>2, <1>5, <2>3, <2>4, <2>5 DEF Halts
  <2>8. QED
    BY <2>2, <2>4, <2>6, <2>7
<1>10. \A u \in threads' : \E w \in threads :
         Later(w, u) /\ Fits(u, SaidBy(posts', u.id)) /\ Halts(u, ended')
  BY <1>1, <1>6, <1>8, <1>9
<1>11. \A id \in ended' : /\ id \in 1 .. Len(started)
                          /\ SaidBy(posts', id) = M(started[id]).says
  <2>1. TAKE id \in ended'
  <2>2. CASE id \in ended
    BY <1>3, <2>2 DEF ScriptInv
  <2>3. CASE id \notin ended
    BY <1>2, <1>3, <1>4, <1>5, <2>3
  <2>4. QED
    BY <2>2, <2>3
<1>12. QED
  BY <1>10, <1>11, ScriptsGoOn

\* The thread of the turn is left with stack s.
LEMMA ScriptsMove ==
  ASSUME PageInv, PageInv', ScriptInv, UNCHANGED <<program, started>>, turn # 0,
         NEW s, s \in Stacks, GoodStack(s), NoLooseEnd(s),
         NEW others, others = Others \/ others = {Retired(u) : u \in Others},
         Continue(WithStack(s), others),
         \A id : id # Crt.id => SaidBy(posts', id) = SaidBy(posts, id),
         SaidBy(posts', Crt.id) \in Seq(Instructions),
         SaidBy(posts', Crt.id) \o LeftOf(s).says
           = SaidBy(posts, Crt.id) \o LeftOf(Crt.stack).says
  PROVE  ScriptInv'
<1> DEFINE t == WithStack(s)
<1>1. Crt \in threads /\ Crt \in Threads /\ ~Crt.isKilled /\ ~Crt.promise
  BY CrtFacts DEF PageInv
<1>2. /\ t \in Threads /\ Later(Crt, t) /\ ~t.isKilled /\ t.stack = s /\ ~t.promise
  BY <1>1, SteppedFacts DEF WithStack
<1>3. t.id = Crt.id /\ t.topBlock = Crt.topBlock
  BY <1>2 DEF Later
<1> HIDE DEF t
<1>4. SaidBy(posts, Crt.id) \o LeftOf(Crt.stack).says = M(Crt.topBlock).says
  <2>1. Fits(Crt, SaidBy(posts, Crt.id))
    BY <1>1 DEF ScriptInv
  <2>2. QED
    BY <1>1, <2>1 DEF Fits
<1>5. SaidBy(posts', t.id) \o LeftOf(t.stack).says = M(t.topBlock).says
  BY <1>2, <1>3, <1>4
<1>6. Fits(t, SaidBy(posts', t.id))
  BY <1>2, <1>5 DEF Fits
<1>7. t.stack = <<>> => ~t.promise /\ SaidBy(posts', t.id) = M(t.topBlock).says
  <2>1. HAVE t.stack = <<>>
  <2>2. LeftOf(t.stack).says = <<>>
    BY <2>1, NothingType DEF LeftOf
  <2>3. SaidBy(posts', t.id) \o <<>> = SaidBy(posts', t.id)
    BY <1>3, SaysNothing
  <2>4. QED
    BY <1>2, <1>5, <2>2, <2>3
<1>8. Continue(t, others)
  BY DEF t
<1>9. QED
  BY <1>2, <1>6, <1>7, <1>8, ScriptsContinue

LEMMA InstructionScripts ==
  ASSUME PageInv, PageInv', ScriptInv, StepInstruction
  PROVE  ScriptInv'
<1> DEFINE s == Crt.stack
           block == program.blocks[Top(s).block]
           gone == GoTo(s, block.next)
           said == SaidBy(posts, Crt.id)
           i == Instruction(block)
<1>1. /\ turn # 0 /\ UNCHANGED <<program, started>> /\ Top(s).block # Null
      /\ block.op \in Moves \cup Turns /\ Continue(WithStack(gone), Others)
      /\ CrtBlock = block
  BY DEF StepInstruction, AtBlock, CrtBlock
<1>2. Crt \in threads /\ s # <<>> /\ s \in Stacks /\ ~Crt.isKilled /\ program \in Programs
  BY <1>1, CrtFacts DEF PageInv, MachineInv, VMTypeOK
<1>3. GoodStack(s)
  BY <1>2 DEF ScriptInv, Fits
<1>4. /\ GoodStack(gone) /\ NoLooseEnd(gone)
      /\ LeftOf(s).says = <<i>> \o LeftOf(gone).says
  BY <1>1, <1>2, <1>3, ExecutedLeft
<1>5. gone \in Stacks
  BY <1>4 DEF GoodStack
<1>6. PICK p \in Posts : /\ Says(p) /\ p.m.op \in Moves \cup Turns /\ p.thread = Crt.id
                         /\ Instruction(p.m) = i
  <2> DEFINE m == [op |-> CrtBlock.op, colour |-> CrtBlock.colour,
                   block |-> Named(CrtBlock)]
             p == [thread |-> Crt.id, m |-> m, at |-> Top(Crt.stack).block,
                   outer |-> Crt.stack[1].block]
  <2>1. p \in Posts /\ Says(p) /\ p.m.op \in Moves \cup Turns /\ p.thread = Crt.id
    BY SaidBlock
  <2>2. Instruction(p.m) = i
    BY <1>1 DEF Instruction
  <2>3. QED
    BY <2>1, <2>2
<1>7. \A id : Speaks(p, id) <=> id = Crt.id
  BY <1>6 DEF Speaks
<1>8. \A id : id # Crt.id => SaidBy(posts', id) = SaidBy(posts, id)
  BY <1>1, <1>6, <1>7, SaidStep
<1>9. SaidBy(posts', Crt.id) = Append(said, i)
  BY <1>1, <1>6, <1>7, SaidStep
<1>10. said \in Seq(Instructions) /\ i \in Instructions
  <2>1. p.m \in Messages
    BY DEF Posts
  <2>2. i \in Instructions
    BY <1>6, <2>1, SessionAssumption DEF Instruction, Instructions
  <2>3. QED
    BY <2>2, SaidTypes
<1>11. LeftOf(gone).says \in Seq(Instructions)
  <2>1. LeftOf(gone) \in Values
    <3>1. CASE gone = <<>>
      BY <3>1, NothingType DEF LeftOf
    <3>2. CASE gone # <<>>
      <4> HIDE DEF gone
      <4>1. QED
        BY <1>2, <1>4, <3>2, TopOfStack
    <3>3. QED
      BY <3>1, <3>2
  <2>2. QED
    BY <2>1, ValueFacts
<1> DEFINE rest == LeftOf(gone).says
<1>12. Append(said, i) \in Seq(Instructions)
       /\ Append(said, i) \o rest = said \o (<<i>> \o rest)
  <2> HIDE DEF said, i, rest
  <2>1. <<i>> \in Seq(Instructions) /\ Append(said, i) \in Seq(Instructions)
    BY <1>10
  <2>2. Append(said, i) = said \o <<i>>
    BY <1>10
  <2>3. rest \in Seq(Instructions)
    BY <1>11 DEF rest
  <2>4. (said \o <<i>>) \o rest = said \o (<<i>> \o rest)
    BY <1>10, <2>1, <2>3, ConcatAssociative
  <2>5. QED
    BY <2>1, <2>2, <2>4
<1>13. SaidBy(posts', Crt.id) \o LeftOf(gone).says = said \o LeftOf(s).says
  BY <1>4, <1>9, <1>12
<1> HIDE DEF gone, said, i, block
<1>14. SaidBy(posts', Crt.id) \in Seq(Instructions)
  BY <1>9, <1>12
<1>15. QED
  BY <1>1, <1>4, <1>5, <1>8, <1>13, <1>14, ScriptsMove DEF said


\* The thread of the turn, and a step of it that posts nothing.
LEMMA CrtScript ==
  ASSUME PageInv, ScriptInv, turn # 0
  PROVE  /\ Crt \in threads /\ Crt \in Threads /\ ~Crt.isKilled /\ ~Crt.promise
         /\ Crt.stack # <<>> /\ GoodStack(Crt.stack) /\ NoLooseEnd(Crt.stack)
         /\ program \in Programs
         /\ SaidBy(posts, Crt.id) \in Seq(Instructions)
         /\ SaidBy(posts, Crt.id) \o LeftOf(Crt.stack).says = M(Crt.topBlock).says
<1>1. /\ Crt \in threads /\ Crt \in Threads /\ ~Crt.isKilled /\ ~Crt.promise
      /\ Crt.stack # <<>>
  BY CrtFacts DEF PageInv
<1>2. Fits(Crt, SaidBy(posts, Crt.id))
  BY <1>1 DEF ScriptInv
<1>3. program \in Programs
  BY DEF PageInv, MachineInv, VMTypeOK
<1>4. QED
  BY <1>1, <1>2, <1>3, SaidTypes DEF Fits

LEMMA ScriptsTurn ==
  ASSUME PageInv, PageInv', ScriptInv, UNCHANGED <<program, started, posts>>, turn # 0,
         NEW s, GoodStack(s), NoLooseEnd(s), LeftOf(s) = LeftOf(Crt.stack),
         NEW others, others = Others \/ others = {Retired(u) : u \in Others},
         Continue(WithStack(s), others)
  PROVE  ScriptInv'
<1>1. SaidBy(posts, Crt.id) \in Seq(Instructions)
  BY SaidTypes
<1>2. s \in Stacks
  BY DEF GoodStack
<1>3. QED
  BY <1>1, <1>2, ScriptsMove

LEMMA EmptyBranchScripts ==
  ASSUME PageInv, PageInv', ScriptInv, StepEmptyBranch
  PROVE  ScriptInv'
<1> DEFINE s == Crt.stack
           u == Below(s)
           t == WithStack(u)
<1>1. /\ turn # 0 /\ Top(s).block = Null /\ UNCHANGED <<program, started, posts>>
      /\ IF u = <<>> THEN Continue(t, Others)
         ELSE threads' = Others \cup {t} /\ UNCHANGED <<turn, ended>>
  BY DEF StepEmptyBranch
<1>2. GoodStack(u) /\ NoLooseEnd(u) /\ LeftOf(u) = LeftOf(s)
  BY <1>1, CrtScript, EmptyLeft
<1>3. CASE u = <<>>
  BY <1>1, <1>2, <1>3, ScriptsTurn
<1>4. CASE u # <<>>
  <2>1. threads' = Others \cup {t} /\ ended' = ended
    BY <1>1, <1>4
  <2>2. u \in Stacks
    BY <1>2 DEF GoodStack
  <2>3. Crt \in threads /\ Later(Crt, t) /\ ~t.promise /\ t.stack = u /\ t.id = Crt.id
        /\ t.topBlock = Crt.topBlock
    <3>1. Crt \in Threads /\ ~Crt.promise /\ Crt \in threads
      BY <1>1, CrtScript
    <3> HIDE DEF u
    <3>2. QED
      BY <2>2, <3>1, SteppedFacts DEF WithStack, Later
  <2> HIDE DEF t, u
  <2>4. Fits(t, SaidBy(posts, Crt.id))
    BY <1>1, <1>2, <2>3, CrtScript DEF Fits
  <2>5. Halts(t, ended)
    <3>1. Crt.id \notin ended
      BY <1>1, <2>3, CrtScript DEF ScriptInv, Halts
    <3>2. QED
      BY <2>3, <3>1 DEF Halts
  <2>6. Silent
    BY <1>1 DEF Silent
  <2>7. \A w \in threads' :
           \/ w \in threads
           \/ \E v \in threads :
                Later(v, w) /\ Fits(w, SaidBy(posts, v.id)) /\ Halts(w, ended)
    <3>1. \A w \in threads' : w \in threads \/ w = t
      BY <2>1 DEF Others
    <3>2. QED
      BY <2>3, <2>4, <2>5, <3>1
  <2>8. QED
    BY <1>1, <2>1, <2>6, <2>7, ScriptsQuiet
<1>5. QED
  BY <1>3, <1>4

LEMMA ControlScripts ==
  ASSUME PageInv, PageInv', ScriptInv, StepControl
  PROVE  ScriptInv'
<1> DEFINE s == Crt.stack
           u == CASE CrtBlock.op \in Loops -> Looped(s)
                  [] CrtBlock.op = "if"  -> Enter(s, Chosen(CrtBlock))
                  [] CrtBlock.op = "hat" -> GoTo(s, CrtBlock.next)
<1>1. /\ turn # 0 /\ Top(s).block # Null /\ UNCHANGED <<program, started, posts>>
      /\ CrtBlock = program.blocks[Top(s).block]
      /\ CrtBlock.op \in Loops \cup {"hat", "if"}
      /\ Continue(WithStack(u), Others)
  BY DEF StepControl, AtBlock, CrtBlock
<1>2. GoodStack(s) /\ s # <<>> /\ program \in Programs
  BY <1>1, CrtScript
<1>3. GoodStack(u) /\ NoLooseEnd(u) /\ LeftOf(u) = LeftOf(s)
  <2>1. CASE CrtBlock.op \in Loops
    <3>1. u = Looped(s)
      BY <2>1 DEF Loops
    <3> HIDE DEF u
    <3>2. QED
      BY <1>1, <1>2, <2>1, <3>1, LoopedLeft
  <2>2. CASE CrtBlock.op = "if"
    <3>1. u = Enter(s, Chosen(CrtBlock))
      BY <2>2 DEF Loops
    <3> HIDE DEF u
    <3>2. QED
      BY <1>1, <1>2, <2>2, <3>1, ExecutedLeft
  <2>3. CASE CrtBlock.op = "hat"
    <3>1. u = GoTo(s, CrtBlock.next)
      BY <2>3 DEF Loops
    <3> HIDE DEF u
    <3>2. QED
      BY <1>1, <1>2, <2>3, <3>1, ExecutedLeft
  <2>4. QED
    BY <1>1, <2>1, <2>2, <2>3
<1> HIDE DEF u
<1>4. QED
  BY <1>1, <1>3, ScriptsTurn

LEMMA WaitScripts ==
  ASSUME PageInv, PageInv', ScriptInv, StepWait
  PROVE  ScriptInv'
<1> DEFINE t == [Crt EXCEPT !.promise = TRUE]
<1>1. /\ turn # 0 /\ Top(Crt.stack).block # Null
      /\ program.blocks[Top(Crt.stack).block].op = "wait"
      /\ UNCHANGED <<program, started, posts>> /\ Continue(t, Others)
  BY DEF StepWait, AtBlock, CrtBlock
<1>2. /\ Crt \in Threads /\ GoodStack(Crt.stack) /\ NoLooseEnd(Crt.stack)
      /\ Crt.stack # <<>>
      /\ SaidBy(posts, Crt.id) \o LeftOf(Crt.stack).says = M(Crt.topBlock).says
  BY <1>1, CrtScript
<1>3. /\ t \in Threads /\ Later(Crt, t) /\ t.stack = Crt.stack
      /\ t.id = Crt.id /\ t.topBlock = Crt.topBlock
  <2>1. Crt.stack \in Stacks
    BY <1>2, ThreadFacts
  <2>2. /\ Later(Crt, t) /\ t.stack = Crt.stack /\ t \in Threads
    BY <1>1, <1>2, <2>1, SteppedFacts
  <2>3. QED
    BY <2>2 DEF Later
<1> HIDE DEF t
<1>4. Fits(t, SaidBy(posts', t.id))
  BY <1>1, <1>2, <1>3 DEF Fits
<1>5. QED
  BY <1>1, <1>2, <1>3, <1>4, ScriptsContinue

LEMMA StopScripts ==
  ASSUME PageInv, PageInv', ScriptInv, StepStop
  PROVE  ScriptInv'
<1> DEFINE s == Crt.stack
           silenced == {Retired(u) : u \in Others}
<1>1. /\ turn # 0 /\ Top(s).block # Null /\ UNCHANGED <<program, started, posts>>
      /\ CrtBlock = program.blocks[Top(s).block]
  BY DEF StepStop, AtBlock, CrtBlock
<1>2. /\ GoodStack(s) /\ s # <<>> /\ program \in Programs /\ Crt \in Threads
      /\ Crt \in threads /\ ~Crt.promise
      /\ SaidBy(posts, Crt.id) \in Seq(Instructions)
      /\ SaidBy(posts, Crt.id) \o LeftOf(s).says = M(Crt.topBlock).says
  BY <1>1, CrtScript
<1>3. CrtBlock.op \in Stops => SaidBy(posts, Crt.id) = M(Crt.topBlock).says
  <2>1. HAVE CrtBlock.op \in Stops
  <2>2. LeftOf(s).says = <<>>
    BY <1>1, <1>2, <2>1, ExecutedLeft
  <2>3. SaidBy(posts, Crt.id) \o <<>> = SaidBy(posts, Crt.id)
    BY <1>2, SaysNothing
  <2>4. QED
    BY <1>2, <2>2, <2>3
<1>4. CASE CrtBlock.op = "stop all" /\ Continue(Retired(Crt), silenced)
  <2> DEFINE t == Retired(Crt)
  <2>1. /\ t \in Threads /\ Later(Crt, t) /\ t.isKilled /\ t.id = Crt.id
        /\ t.topBlock = Crt.topBlock /\ ~t.promise
    <3>1. t \in Threads /\ Later(Crt, t) /\ t.isKilled
      BY <1>2, RetiredFacts
    <3>2. t.promise = Crt.promise
      BY <1>2 DEF Retired, Threads
    <3> HIDE DEF t
    <3>3. QED
      BY <1>2, <3>1, <3>2 DEF Later
  <2> HIDE DEF t
  <2>2. Fits(t, SaidBy(posts', t.id))
    BY <2>1 DEF Fits
  <2>3. SaidBy(posts', t.id) = M(t.topBlock).says
    BY <1>1, <1>3, <1>4, <2>1 DEF Stops
  <2>4. Continue(t, silenced)
    BY <1>4 DEF t
  <2> HIDE DEF silenced
  <2>5. silenced = Others \/ silenced = {Retired(u) : u \in Others}
    BY DEF silenced
  <2>6. QED
    BY <1>1, <2>1, <2>2, <2>3, <2>4, <2>5, ScriptsContinue
<1>5. CASE CrtBlock.op = "stop this script" /\ Continue(WithStack(<<>>), Others)
  <2>1. GoodStack(<<>>) /\ NoLooseEnd(<<>>) /\ LeftOf(<<>>).says = <<>> /\ <<>> \in Stacks
    BY NothingType DEF GoodStack, NoLooseEnd, Stacks, LeftOf
  <2>2. SaidBy(posts', Crt.id) \o LeftOf(<<>>).says = SaidBy(posts, Crt.id) \o LeftOf(s).says
    <3>1. LeftOf(s).says = <<>>
      BY <1>1, <1>2, <1>5, ExecutedLeft DEF Stops
    <3>2. QED
      BY <1>1, <2>1, <3>1
  <2>3. SaidBy(posts', Crt.id) \in Seq(Instructions)
    BY <1>1, <1>2
  <2>4. \A id : id # Crt.id => SaidBy(posts', id) = SaidBy(posts, id)
    BY <1>1
  <2>5. QED
    BY <1>1, <1>5, <2>1, <2>2, <2>3, <2>4, ScriptsMove
<1>6. CASE /\ CrtBlock.op = "stop other scripts"
           /\ Continue(WithStack(GoTo(s, CrtBlock.next)), silenced)
  <2> DEFINE u == GoTo(s, CrtBlock.next)
  <2>1. GoodStack(u) /\ NoLooseEnd(u) /\ LeftOf(u) = LeftOf(s)
    BY <1>1, <1>2, <1>6, ExecutedLeft
  <2> HIDE DEF u, silenced
  <2>2. silenced = Others \/ silenced = {Retired(v) : v \in Others}
    BY DEF silenced
  <2>3. Continue(WithStack(u), silenced)
    BY <1>6 DEF u
  <2>4. QED
    BY <1>1, <2>1, <2>2, <2>3, ScriptsTurn
<1>7. QED
  BY <1>4, <1>5, <1>6 DEF StepStop


LEMMA StepScripts ==
  ASSUME PageInv, PageInv', ScriptInv, StepThread
  PROVE  ScriptInv'
  BY EmptyBranchScripts, InstructionScripts, ControlScripts, WaitScripts, StopScripts
     DEF StepThread

\* All threads are stopped.
LEMMA StoppedScripts ==
  ASSUME PageInv, PageInv', ScriptInv, GreenFlag \/ StopAll
  PROVE  ScriptInv'
<1>1. /\ UNCHANGED <<program, started, ended>>
      /\ threads' = {Retired(t) : t \in threads}
  BY DEF GreenFlag, StopAll
<1>2. posts' = posts \/ \E p \in Posts : Says(p) /\ p.m.op \notin Moves \cup Turns
  <2>1. CASE GreenFlag
    BY <2>1 DEF GreenFlag
  <2>2. CASE StopAll
    <3> DEFINE p == [thread |-> Len(started), m |-> Button("stop"),
                     at |-> Null, outer |-> Null]
    <3>1. program \in Programs /\ Len(started) \in Nat
      BY DEF PageInv, MachineInv, VMTypeOK
    <3>2. p \in Posts /\ Says(p)
      BY <2>2, <3>1, ButtonPosts DEF StopAll, Post, Says
    <3>3. p.m.op \notin Moves \cup Turns
      BY DEF Button, Moves, Turns
    <3>4. QED
      BY <3>2, <3>3
  <2>3. QED
    BY <2>1, <2>2
<1>3. Silent
  BY <1>1, <1>2, SilentSteps
<1>4. \A u \in threads' : \E t \in threads : u = Retired(t)
  BY <1>1
<1>5. QED
  BY <1>1, <1>3, <1>4, ScriptsQuiet

LEMMA ToggleScripts ==
  ASSUME PageInv, PageInv', ScriptInv, NEW top \in Ids, ToggleScript(top)
  PROVE  ScriptInv'
<1> DEFINE mine == {t \in threads : t.topBlock = top /\ t.stack # <<>>}
           old  == Foremost(mine)
<1>1. UNCHANGED <<program, ended, posts>> /\ threads \in SUBSET Threads
  BY DEF ToggleScript, PageInv, MachineInv, VMTypeOK
<1>2. Silent
  BY <1>1 DEF Silent
<1>3. CASE mine = {}
  <2>1. Push(top, TRUE)
    BY <1>3 DEF ToggleScript
  <2>2. /\ started' = Append(started, top)
        /\ threads' = (threads \ {})
                        \cup {NewThread(Len(started) + 1, Len(started) + 1, top, TRUE)}
    BY <2>1 DEF Push
  <2>3. QED
    BY <1>1, <1>2, <2>2, ScriptsStart
<1>4. CASE mine # {}
  <2>1. threads' = (threads \ {old}) \cup {Retired(old)} /\ started' = started
    BY <1>4 DEF ToggleScript
  <2>2. old \in threads
    <3>1. mine \in SUBSET Threads /\ mine \subseteq threads
      BY <1>1
    <3> HIDE DEF mine
    <3>2. QED
      BY <1>4, <3>1, ForemostOf
  <2> HIDE DEF old
  <2>3. \A u \in threads' : u \in threads \/ \E t \in threads : u = Retired(t)
    BY <2>1, <2>2
  <2>4. QED
    BY <1>1, <1>2, <2>1, <2>3, ScriptsQuiet
<1>5. QED
  BY <1>3, <1>4

LEMMA HatScripts ==
  ASSUME PageInv, PageInv', ScriptInv, StartHat
  PROVE  ScriptInv'
<1> DEFINE top  == Head(scripts)
           n    == Len(started)
           mine == {t \in threads : t.topBlock = top /\ ~t.stackClick}
           old  == Foremost(mine)
           p    == [thread |-> n + 1, m |-> Button("run"), at |-> Null, outer |-> Null]
<1>1. UNCHANGED <<program, ended>> /\ scripts # <<>>
  BY DEF StartHat
<1>2. program \in Programs /\ scripts \in Seq(Ids) /\ n \in Nat
  BY DEF PageInv, MachineInv, VMTypeOK
<1>3. top \in Ids
  BY <1>1, <1>2
<1>4. CASE ~IsHat(program, top)
  <2>1. UNCHANGED <<threads, started, posts>>
    BY <1>4 DEF StartHat
  <2>2. Silent
    BY <2>1 DEF Silent
  <2>3. QED
    BY <1>1, <2>1, <2>2, ScriptsQuiet
<1>5. CASE IsHat(program, top)
  <2>1. p \in Posts /\ Says(p)
    BY <1>2, <1>5, ButtonPosts DEF StartHat, Post, Says
  <2>2. p.m.op \notin Moves \cup Turns
    BY DEF Button, Moves, Turns
  <2>3. Silent
    BY <1>1, <2>1, <2>2, SilentSteps
  <2>4. PICK gone, place : /\ started' = Append(started, top)
                           /\ threads' = (threads \ gone)
                                           \cup {NewThread(n + 1, place, top, FALSE)}
    <3>1. CASE mine = {}
      <4>1. /\ started' = Append(started, top)
            /\ threads' = (threads \ {}) \cup {NewThread(n + 1, n + 1, top, FALSE)}
        BY <1>5, <3>1 DEF StartHat, Push
      <4>2. QED
        BY <4>1
    <3>2. CASE mine # {}
      <4>1. /\ started' = Append(started, top)
            /\ threads' = (threads \ {old}) \cup {NewThread(n + 1, old.place, top, FALSE)}
        BY <1>5, <3>2 DEF StartHat
      <4>2. QED
        BY <4>1
    <3>3. QED
      BY <3>1, <3>2
  <2> HIDE DEF top
  <2>5. QED
    BY <1>1, <1>3, <2>3, <2>4, ScriptsStart
<1>6. QED
  BY <1>4, <1>5

LEMMA PassScripts ==
  ASSUME PageInv, PageInv', ScriptInv, BeginPass
  PROVE  ScriptInv'
<1>1. UNCHANGED <<program, started, ended, posts>> /\ threads' \subseteq threads
  BY DEF BeginPass
<1>2. Silent
  BY <1>1 DEF Silent
<1>3. QED
  BY <1>1, <1>2, ScriptsQuiet

LEMMA TimerScripts ==
  ASSUME PageInv, PageInv', ScriptInv, Resolve
  PROVE  ScriptInv'
<1>1. UNCHANGED <<program, started, ended, posts>> /\ program \in Programs
      /\ threads \in SUBSET Threads
  BY DEF Resolve, PageInv, MachineInv, VMTypeOK
<1>2. Silent
  BY <1>1 DEF Silent
<1>3. PICK t \in threads :
        /\ t.promise
        /\ LET stack == IF t.stack = <<>> THEN <<Fresh(Null)>> ELSE Resumed(t.stack)
           IN  threads' = (threads \ {t})
                            \cup {[t EXCEPT !.promise = FALSE, !.stack = stack]}
  BY DEF Resolve
<1> DEFINE stack == IF t.stack = <<>> THEN <<Fresh(Null)>> ELSE Resumed(t.stack)
           u == [t EXCEPT !.promise = FALSE, !.stack = stack]
<1>4. /\ u.stack = stack /\ u.promise = FALSE /\ u.id = t.id /\ u.topBlock = t.topBlock
      /\ u.isKilled = t.isKilled /\ Later(t, u)
  <2>1. t \in Threads
    BY <1>1
  <2> HIDE DEF stack
  <2>2. QED
    BY <2>1 DEF Threads, Later
<1>5. threads' = (threads \ {t}) \cup {u}
  BY <1>3
<1>6. Fits(t, SaidBy(posts, t.id)) /\ Halts(t, ended)
  BY DEF ScriptInv
<1>7. ~t.isKilled =>
        /\ GoodStack(stack) /\ NoLooseEnd(stack) /\ LeftOf(stack) = LeftOf(t.stack)
  <2>1. HAVE ~t.isKilled
  <2>2. /\ GoodStack(t.stack) /\ t.stack # <<>>
        /\ program.blocks[Top(t.stack).block].op = "wait"
    BY <1>3, <1>6, <2>1 DEF Fits
  <2>3. Top(t.stack).block # Null
    BY <1>1, <1>3, <2>2, ThreadFacts
  <2>4. stack = Resumed(t.stack)
    BY <2>2
  <2>5. QED
    BY <1>1, <2>2, <2>3, <2>4, ResumedLeft
<1> HIDE DEF stack, u
<1>8. Fits(u, SaidBy(posts, t.id))
  BY <1>4, <1>6, <1>7 DEF Fits
<1>9. Halts(u, ended)
  BY <1>3, <1>4, <1>6 DEF Halts
<1>10. \A w \in threads' :
         \/ w \in threads
         \/ \E v \in threads :
              Later(v, w) /\ Fits(w, SaidBy(posts, v.id)) /\ Halts(w, ended)
  BY <1>4, <1>5, <1>8, <1>9
<1>11. QED
  BY <1>1, <1>2, <1>10, ScriptsQuiet

LEMMA ScriptsStep ==
  ASSUME PageInv, PageInv', ScriptInv, [SystemNext]_systemVars
  PROVE  ScriptInv'
<1>1. CASE VMNext
  <2>1. \A k \in DOMAIN program.scripts : program.scripts[k] \in Ids
    BY ProgramFacts DEF PageInv, MachineInv, VMTypeOK
  <2>2. QED
    BY <1>1, <2>1, StoppedScripts, ToggleScripts, HatScripts, PassScripts, StepScripts,
       TimerScripts DEF VMNext
<1>2. CASE Native \/ UNCHANGED systemVars
  <2>1. UNCHANGED pageVars
    BY <1>2 DEF Native, systemVars
  <2>2. UNCHANGED <<program, started, ended, posts, threads>>
    BY <2>1 DEF pageVars
  <2>3. Silent
    BY <2>2 DEF Silent
  <2>4. QED
    BY <2>2, <2>3, ScriptsQuiet
<1>3. QED
  BY <1>1, <1>2 DEF SystemNext, TapPage, RunPage, FireTimer, VMNext

\* What a thread has posted and what its stack still holds make up the meaning of
\* its script, and a thread that came to its end has posted all: for every program
\* in which no block is inside itself, and however threads, timers and buttons take
\* turns.
THEOREM PageKeepsToProgram == SystemSpec => []PostsTheScript
<1>1. SystemInit => PageInv /\ ScriptInv
  <2>1. SystemInit => PageInv
    BY VMStart DEF SystemInit
  <2>2. SystemInit => ScriptInv
    BY DEF SystemInit, VMInit, ScriptInv
  <2>3. QED
    BY <2>1, <2>2
<1>2. PageInv /\ [SystemNext]_systemVars => PageInv'
  BY SystemStep
<1>3. PageInv /\ PageInv' /\ ScriptInv /\ [SystemNext]_systemVars => ScriptInv'
  BY ScriptsStep
<1>4. ScriptInv => PostsTheScript
  <2>1. HAVE ScriptInv
  <2>2. ASSUME NEW t \in threads, ~t.isKilled
        PROVE  Said(t.id) \o Left(program, t.stack) = Meaning(program)[t.topBlock].says
    BY <2>1, <2>2, SaidByPosts, LeftSays DEF ScriptInv, Fits, M
  <2>3. ASSUME NEW id \in ended PROVE Said(id) = Meaning(program)[started[id]].says
    BY <2>1, SaidByPosts DEF ScriptInv, M
  <2>4. QED
    BY <2>2, <2>3 DEF PostsTheScript
<1>5. QED
  BY <1>1, <1>2, <1>3, <1>4, PTL DEF SystemSpec

====
