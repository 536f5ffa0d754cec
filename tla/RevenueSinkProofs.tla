--------------------------- MODULE RevenueSinkProofs ---------------------------
(***************************************************************************)
(* Theorems about RevenueSink, for every number of records.                *)
(*                                                                         *)
(* That a tail follows its own head is decided when the tail is written,   *)
(* by what the call wrote before it: IInv says who holds the mutex, and    *)
(* what the holder left at the end of the file.                            *)
(***************************************************************************)
EXTENDS RevenueSink, TLAPS

Piece == [rec : Records, part : {"head", "tail"}]

\* A call that is past the lock and not yet back is the owner.
HolderOwns == \A r \in Records : step[r] \in Holding => owner = r

\* What the holder wrote is the end of the file.
HeadIsLast ==
  \A r \in Records : step[r] = "head" => Len(file) > 0 /\ file[Len(file)] = HeadOf(r)
LineIsLast ==
  \A r \in Records : step[r] = "line" => Len(file) > 0 /\ file[Len(file)] = TailOf(r)

\* What was acknowledged is on stable storage.
AckedIsStored == Acked \subseteq Stored

IInv ==
  /\ TypeOK
  /\ HolderOwns
  /\ LinesContiguous
  /\ HeadIsLast
  /\ LineIsLast
  /\ AckedIsStored

------------------------------------------------------------------------------

\* An append leaves the pieces before it, and a new tail is in order behind
\* its own head.
LEMMA AppendKeepsLines ==
  ASSUME TypeOK, LinesContiguous, NEW x \in Piece, file' = Append(file, x),
         x.part = "tail" => Len(file) > 0 /\ file[Len(file)] = HeadOf(x.rec)
  PROVE  /\ file' \in Seq(Piece) /\ Len(file') = Len(file) + 1
         /\ file'[Len(file')] = x
         /\ \A i \in 1 .. Len(file) : file'[i] = file[i]
         /\ LinesContiguous'
<1>1. file \in Seq(Piece)
  BY DEF TypeOK, Piece
<1>2. /\ file' \in Seq(Piece) /\ Len(file') = Len(file) + 1 /\ Len(file) \in Nat
      /\ file'[Len(file')] = x
      /\ \A i \in 1 .. Len(file) : file'[i] = file[i]
  BY <1>1
<1>3. ASSUME NEW i \in 1 .. Len(file'), file'[i].part = "tail"
      PROVE  i > 1 /\ file'[i - 1] = HeadOf(file'[i].rec)
  <2>1. CASE i \in 1 .. Len(file)
    <3>1. i > 1 /\ file[i - 1] = HeadOf(file[i].rec)
      BY <1>2, <1>3, <2>1 DEF LinesContiguous
    <3> QED BY <1>2, <2>1, <3>1
  <2>2. CASE i = Len(file')
    <3>1. Len(file) > 0 /\ file[Len(file)] = HeadOf(x.rec)
      BY <1>2, <1>3, <2>2
    <3>2. i = Len(file) + 1 /\ i - 1 \in 1 .. Len(file) /\ file'[i] = x
      BY <1>2, <2>2, <3>1
    <3> QED BY <1>2, <3>1, <3>2
  <2> QED BY <1>2, <1>3, <2>1, <2>2
<1> QED BY <1>2, <1>3 DEF LinesContiguous

\* What is on stable storage stays there as long as the synced pieces do.
LEMMA StoredGrows ==
  ASSUME TypeOK, synced' \in Nat, synced <= synced',
         \A i \in 1 .. synced : file'[i] = file[i]
  PROVE  Stored \subseteq Stored'
<1>1. synced \in Nat
  BY DEF TypeOK
<1>2. ASSUME NEW r \in Records, NEW i \in 1 .. synced - 1, LineAt(r, i)
      PROVE  i \in 1 .. synced' - 1 /\ LineAt(r, i)'
  <2>1. i \in 1 .. synced /\ i + 1 \in 1 .. synced /\ i \in 1 .. synced' - 1
    BY <1>1
  <2> QED BY <1>2, <2>1 DEF LineAt, HeadOf, TailOf
<1> QED BY <1>2 DEF Stored

\* Nothing more becomes durable while neither the synced part nor its length change.
LEMMA StoredSame ==
  ASSUME TypeOK, synced' = synced, \A i \in 1 .. synced : file'[i] = file[i]
  PROVE  Stored' = Stored
<1>1. synced \in Nat
  BY DEF TypeOK
<1>2. ASSUME NEW r \in Records, NEW i \in 1 .. synced - 1
      PROVE  LineAt(r, i)' <=> LineAt(r, i)
  <2>1. i \in 1 .. synced /\ i + 1 \in 1 .. synced
    BY <1>1
  <2> QED BY <2>1 DEF LineAt, HeadOf, TailOf
<1> QED BY <1>2 DEF Stored

\* A call that goes on or comes back changes only its own step.
LEMMA GotoSteps ==
  ASSUME TypeOK, NEW r \in Records, NEW from, NEW to \in Steps, Goto(r, from, to)
  PROVE  /\ step' \in [Records -> Steps]
         /\ step[r] = from /\ step'[r] = to
         /\ \A q \in Records \ {r} : step'[q] = step[q]
  BY DEF TypeOK, Goto

------------------------------------------------------------------------------

\* The file is empty in the initial states.
LEMMA InitIInv == Init => IInv
<1> SUFFICES ASSUME Init PROVE IInv
  OBVIOUS
<1>1. file = <<>> /\ Len(file) = 0 /\ synced = 0 /\ \A r \in Records : step[r] = "idle"
  BY DEF Init
<1>2. TypeOK
  BY DEF Init, TypeOK, Steps
<1>3. HolderOwns /\ HeadIsLast /\ LineIsLast /\ AckedIsStored
  BY <1>1 DEF HolderOwns, HeadIsLast, LineIsLast, AckedIsStored, Acked, Holding
<1>4. LinesContiguous
  BY <1>1 DEF LinesContiguous
<1> QED BY <1>2, <1>3, <1>4 DEF IInv

\* An action that changes neither the file nor what is synced, and takes no
\* call to the end of its write, keeps IInv if the mutex is in order.
LEMMA FileSame ==
  ASSUME IInv, UNCHANGED <<file, synced>>, step' \in [Records -> Steps],
         owner' \in Records \cup {Nobody}, HolderOwns',
         \A r \in Records : step'[r] \in {"head", "line", "ok"} => step[r] = step'[r]
  PROVE  IInv'
<1> USE DEF IInv
<1>1. TypeOK'
  BY DEF TypeOK
<1>2. LinesContiguous'
  BY DEF LinesContiguous, HeadOf
<1>3. HeadIsLast' /\ LineIsLast'
  BY DEF HeadIsLast, LineIsLast, HeadOf, TailOf
<1>4. Stored' = Stored
  BY StoredSame
<1>5. Acked' \subseteq Acked
  BY DEF Acked
<1> QED BY <1>1, <1>2, <1>3, <1>4, <1>5 DEF AckedIsStored

\* A piece is appended by the call that holds the mutex.
LEMMA WriteIInv ==
  ASSUME IInv, NEW r \in Records, WriteHead(r) \/ WriteTail(r)
  PROVE  IInv'
<1> USE DEF IInv
<1> DEFINE x == IF WriteHead(r) THEN HeadOf(r) ELSE TailOf(r)
<1>1. x \in Piece /\ file' = Append(file, x) /\ synced' = synced /\ owner' = owner
  BY DEF WriteHead, WriteTail, Piece, HeadOf, TailOf
<1>2. /\ step' \in [Records -> Steps] /\ step[r] \in Holding
      /\ step'[r] = IF WriteHead(r) THEN "head" ELSE "line"
      /\ \A q \in Records \ {r} : step'[q] = step[q]
  BY GotoSteps DEF WriteHead, WriteTail, Holding, Steps
<1>3. ~WriteHead(r) => step[r] = "head"
  BY GotoSteps DEF WriteTail, Steps
<1>4. \A q \in Records \ {r} : step[q] \notin Holding
  BY <1>2 DEF HolderOwns
<1>5. x.part = "tail" => Len(file) > 0 /\ file[Len(file)] = HeadOf(x.rec)
  BY <1>3 DEF HeadIsLast, HeadOf, TailOf
<1>6. /\ file' \in Seq(Piece) /\ Len(file') = Len(file) + 1
      /\ file'[Len(file')] = x
      /\ \A i \in 1 .. Len(file) : file'[i] = file[i]
      /\ LinesContiguous'
  BY <1>1, <1>5, AppendKeepsLines
<1>7. Len(file) \in Nat /\ synced \in 0 .. Len(file)
  BY DEF TypeOK
<1>8. TypeOK'
  BY <1>1, <1>2, <1>6, <1>7 DEF TypeOK, Piece
<1>9. HolderOwns'
  BY <1>1, <1>2, <1>4 DEF HolderOwns
<1>10. HeadIsLast' /\ LineIsLast'
  BY <1>2, <1>4, <1>6, <1>7 DEF HeadIsLast, LineIsLast, HeadOf, TailOf, Holding
<1>11. Stored' = Stored /\ Acked' = Acked
  <2>1. \A i \in 1 .. synced : file'[i] = file[i]
    BY <1>6, <1>7
  <2>2. Stored' = Stored
    BY <1>1, <2>1, StoredSame
  <2> QED BY <1>2, <2>2 DEF Acked, Holding
<1> QED BY <1>6, <1>8, <1>9, <1>10, <1>11 DEF AckedIsStored

\* Once the file is synced, the line of the one who waited for it is stored.
LEMMA SyncIInv ==
  ASSUME IInv, NEW r \in Records, Sync(r)
  PROVE  IInv' /\ Stored \subseteq Stored' /\ r \in Stored' /\ Acked' = Acked \cup {r}
<1> USE DEF IInv, Sync
<1>1. /\ step' \in [Records -> Steps] /\ step[r] = "line" /\ step'[r] = "ok"
      /\ \A q \in Records \ {r} : step'[q] = step[q]
  BY GotoSteps DEF Steps
<1>2. \A q \in Records \ {r} : step[q] \notin Holding
  BY <1>1 DEF HolderOwns, Holding
<1>3. Len(file) \in Nat /\ synced \in 0 .. Len(file)
  BY DEF TypeOK
<1>4. TypeOK'
  BY <1>1, <1>3 DEF TypeOK
<1>5. LinesContiguous'
  BY DEF LinesContiguous, HeadOf
<1>6. HolderOwns' /\ HeadIsLast' /\ LineIsLast'
  BY <1>1, <1>2 DEF HolderOwns, HeadIsLast, LineIsLast, Holding
<1>7. Stored \subseteq Stored'
  BY <1>3, StoredGrows
<1>8. r \in Stored'
  <2>1. Len(file) > 0 /\ file[Len(file)] = TailOf(r)
    BY <1>1 DEF LineIsLast
  <2>2. Len(file) > 1 /\ file[Len(file) - 1] = HeadOf(r)
    BY <1>3, <2>1 DEF LinesContiguous, TailOf
  <2> DEFINE i == Len(file) - 1
  <2>3. i \in 1 .. synced' - 1 /\ file'[i] = HeadOf(r) /\ file'[i + 1] = TailOf(r)
    BY <1>3, <2>1, <2>2
  <2> QED BY <2>3 DEF Stored, LineAt, HeadOf, TailOf
<1>9. Acked' = Acked \cup {r}
  BY <1>1 DEF Acked
<1> QED BY <1>4, <1>5, <1>6, <1>7, <1>8, <1>9 DEF AckedIsStored

\* The process dies: every call that held the mutex is dead, and no other.
LEMMA DieSteps ==
  ASSUME IInv, Die
  PROVE  /\ step' \in [Records -> Steps] /\ owner' = Nobody
         /\ \A r \in Records : step'[r] \notin Holding
         /\ \A r \in Records : step'[r] = "ok" <=> step[r] = "ok"
  BY DEF IInv, TypeOK, Die, Steps, Holding

\* A power loss keeps the synced pieces, and a prefix of the others.
LEMMA PowerLossIInv ==
  ASSUME IInv, PowerLoss
  PROVE  IInv' /\ Stored \subseteq Stored' /\ Acked' = Acked
<1> USE DEF IInv
<1>1. PICK n \in synced .. Len(file) : file' = SubSeq(file, 1, n) /\ synced' = n
  BY DEF PowerLoss
<1>2. /\ step' \in [Records -> Steps] /\ owner' = Nobody
      /\ \A r \in Records : step'[r] \notin Holding
      /\ \A r \in Records : step'[r] = "ok" <=> step[r] = "ok"
  BY DieSteps DEF PowerLoss
<1>3. file \in Seq(Piece) /\ Len(file) \in Nat /\ synced \in 0 .. Len(file)
  BY DEF TypeOK, Piece
<1>4. n \in 0 .. Len(file) /\ n \in Nat /\ synced <= n
  BY <1>3
<1>5. /\ file' \in Seq(Piece) /\ Len(file') = n
      /\ \A i \in 1 .. n : file'[i] = file[i]
  BY <1>1, <1>3, <1>4
<1>6. TypeOK'
  BY <1>1, <1>2, <1>4, <1>5 DEF TypeOK, Piece
<1>7. LinesContiguous'
  <2> SUFFICES ASSUME NEW i \in 1 .. n, file'[i].part = "tail"
               PROVE  i > 1 /\ file'[i - 1] = HeadOf(file'[i].rec)
    BY <1>5 DEF LinesContiguous, HeadOf
  <2>1. i \in 1 .. Len(file) /\ file'[i] = file[i]
    BY <1>3, <1>4, <1>5
  <2>2. i > 1 /\ file[i - 1] = HeadOf(file[i].rec)
    BY <2>1 DEF LinesContiguous
  <2>3. i - 1 \in 1 .. n
    BY <1>4, <2>2
  <2> QED BY <1>5, <2>1, <2>2, <2>3
<1>8. HolderOwns' /\ HeadIsLast' /\ LineIsLast'
  BY <1>2 DEF HolderOwns, HeadIsLast, LineIsLast, Holding
<1>9. Stored \subseteq Stored'
  <2>1. \A i \in 1 .. synced : file'[i] = file[i]
    BY <1>3, <1>4, <1>5
  <2> QED BY <1>1, <1>4, <2>1, StoredGrows
<1>10. Acked' = Acked
  BY <1>2 DEF Acked
<1> QED BY <1>6, <1>7, <1>8, <1>9, <1>10 DEF AckedIsStored

\* The kernel writes back what was written.
LEMMA WriteBackIInv ==
  ASSUME IInv, WriteBack
  PROVE  IInv' /\ Stored \subseteq Stored' /\ Acked' = Acked
<1> USE DEF IInv, WriteBack
<1>1. Len(file) \in Nat /\ synced \in 0 .. Len(file)
  BY DEF TypeOK
<1>2. TypeOK'
  BY <1>1 DEF TypeOK
<1>3. HolderOwns' /\ LinesContiguous' /\ HeadIsLast' /\ LineIsLast'
  BY DEF HolderOwns, LinesContiguous, HeadIsLast, LineIsLast, HeadOf, TailOf
<1>4. Stored \subseteq Stored'
  BY <1>1, StoredGrows
<1>5. Acked' = Acked
  BY DEF Acked
<1> QED BY <1>2, <1>3, <1>4, <1>5 DEF AckedIsStored

\* Every action keeps the inductive invariant.
LEMMA NextIInv == IInv /\ [Next]_vars => IInv'
<1> SUFFICES ASSUME IInv, [Next]_vars
             PROVE  IInv'
  OBVIOUS
<1> USE SinkAssumption
<1>1. ASSUME NEW r \in Records, Lock(r)
      PROVE  IInv'
  <2>1. /\ step' \in [Records -> Steps] /\ step'[r] = "locked"
        /\ \A q \in Records \ {r} : step'[q] = step[q]
    BY <1>1, GotoSteps DEF Lock, Steps, IInv
  <2>2. HolderOwns'
    BY <1>1, <2>1 DEF Lock, HolderOwns, IInv
  <2> QED BY <1>1, <2>1, <2>2, FileSame DEF Lock
<1>2. ASSUME NEW r \in Records, WriteHead(r) \/ WriteTail(r)
      PROVE  IInv'
  BY <1>2, WriteIInv
<1>3. ASSUME NEW r \in Records, WriteFails(r) \/ SyncFails(r)
      PROVE  IInv'
  <2>1. /\ step' \in [Records -> Steps] /\ step[r] \in Holding /\ step'[r] = "failed"
        /\ \A q \in Records \ {r} : step'[q] = step[q]
    BY <1>3, GotoSteps DEF WriteFails, SyncFails, Steps, Holding, IInv
  <2>2. HolderOwns'
    BY <2>1 DEF HolderOwns, IInv, Holding
  <2> QED BY <1>3, <2>1, <2>2, FileSame DEF WriteFails, SyncFails
<1>4. ASSUME NEW r \in Records, Sync(r)
      PROVE  IInv'
  BY <1>4, SyncIInv
<1>5. CASE WriteBack
  BY <1>5, WriteBackIInv
<1>6. CASE Crash
  <2>1. HolderOwns'
    BY <1>6, DieSteps DEF Crash, HolderOwns
  <2>2. \A r \in Records : step'[r] \in {"head", "line", "ok"} => step[r] = step'[r]
    BY <1>6, DieSteps DEF Crash, Holding
  <2> QED BY <1>6, <2>1, <2>2, DieSteps, FileSame DEF Crash
<1>7. CASE PowerLoss
  BY <1>7, PowerLossIInv
<1>8. CASE UNCHANGED vars
  BY <1>8, FileSame DEF vars, IInv, TypeOK, HolderOwns
<1> QED BY <1>1, <1>2, <1>3, <1>4, <1>5, <1>6, <1>7, <1>8 DEF Next

\* The strengthening holds in every reachable state.
THEOREM Invariance == Spec => []IInv
  BY InitIInv, NextIInv, PTL DEF Spec

\* The variables keep their types.
THEOREM TypeCorrect == Spec => []TypeOK
<1>1. IInv => TypeOK
  BY DEF IInv
<1> QED BY <1>1, Invariance, PTL

\* No request's bytes get into the middle of another's line, however many
\* calls of record() race, fail half way or die.
THEOREM LinesAreContiguous == Spec => []LinesContiguous
<1>1. IInv => LinesContiguous
  BY DEF IInv
<1> QED BY <1>1, Invariance, PTL

\* In every state, crashes and power losses behind it, whoever was told Ok
\* has the whole line on stable storage.
THEOREM AckedAreStored == Spec => []AckedIsStored
<1>1. IInv => AckedIsStored
  BY DEF IInv
<1> QED BY <1>1, Invariance, PTL

------------------------------------------------------------------------------
(* RevenueSink implements DurableLog. *)

\* A step that leaves the synced pieces and the answers alone is a stutter.
LEMMA LogSame ==
  ASSUME IInv, UNCHANGED <<file, synced>>,
         \A r \in Records : step'[r] = "ok" <=> step[r] = "ok"
  PROVE  UNCHANGED Log!vars
<1>1. Stored' = Stored
  BY StoredSame DEF IInv
<1>2. Acked' = Acked
  BY DEF Acked
<1> QED BY <1>1, <1>2 DEF Log!vars

\* Lines that become durable without anybody being told.
LEMMA GrowIsStore ==
  ASSUME Stored \subseteq Stored', Acked' = Acked
  PROVE  Log!Next
<1>1. Stored' \in SUBSET Records /\ Stored' = Stored \cup Stored'
  BY DEF Stored
<1>2. Log!Store(Stored')
  BY <1>1 DEF Log!Store
<1> QED BY <1>1, <1>2 DEF Log!Next

\* Every step of the sink is a step of DurableLog or leaves it alone.
LEMMA StepSimulation == IInv /\ [Next]_vars => [Log!Next]_(Log!vars)
<1> SUFFICES ASSUME IInv, [Next]_vars
             PROVE  [Log!Next]_(Log!vars)
  OBVIOUS
<1>1. ASSUME NEW r \in Records, Lock(r) \/ WriteFails(r) \/ SyncFails(r)
      PROVE  UNCHANGED Log!vars
  <2>1. \A q \in Records : step'[q] = "ok" <=> step[q] = "ok"
    BY <1>1, GotoSteps DEF Lock, WriteFails, SyncFails, Steps, IInv
  <2> QED BY <1>1, <2>1, LogSame DEF Lock, WriteFails, SyncFails
<1>2. ASSUME NEW r \in Records, WriteHead(r) \/ WriteTail(r)
      PROVE  UNCHANGED Log!vars
  <2>1. synced' = synced /\ \A i \in 1 .. Len(file) : file'[i] = file[i]
    BY <1>2 DEF WriteHead, WriteTail, IInv, TypeOK
  <2>2. Stored' = Stored
    BY <2>1, StoredSame DEF IInv, TypeOK
  <2>3. \A q \in Records : step'[q] = "ok" <=> step[q] = "ok"
    BY <1>2, GotoSteps DEF WriteHead, WriteTail, Steps, IInv
  <2> QED BY <2>2, <2>3 DEF Log!vars, Acked
<1>3. ASSUME NEW r \in Records, Sync(r)
      PROVE  Log!Next
  <2>1. Stored \subseteq Stored' /\ r \in Stored' /\ Acked' = Acked \cup {r}
    BY <1>3, SyncIInv
  <2>2. Stored' \in SUBSET Records /\ Stored' = Stored \cup Stored'
    BY <2>1 DEF Stored
  <2>3. Log!StoreAndAck(Stored', r)
    BY <2>1, <2>2 DEF Log!StoreAndAck
  <2> QED BY <2>2, <2>3 DEF Log!Next
<1>4. CASE WriteBack
  BY <1>4, WriteBackIInv, GrowIsStore
<1>5. CASE Crash
  BY <1>5, DieSteps, LogSame DEF Crash
<1>6. CASE PowerLoss
  BY <1>6, PowerLossIInv, GrowIsStore
<1>7. CASE UNCHANGED vars
  BY <1>7, LogSame DEF vars
<1> QED BY <1>1, <1>2, <1>3, <1>4, <1>5, <1>6, <1>7 DEF Next

\* The sink is a durable log: what it acknowledged is stored, and what is
\* stored stays, through torn writes, failed syncs, crashes and power losses.
THEOREM Refinement == Spec => ImplementsDurableLog
<1>1. Init => Log!Init
  BY DEF Init, Log!Init, Stored, Acked
<1>2. IInv /\ [Next]_vars => [Log!Next]_(Log!vars)
  BY StepSimulation
<1> QED BY <1>1, <1>2, Invariance, PTL DEF Spec, Log!Spec, ImplementsDurableLog
==============================================================================
