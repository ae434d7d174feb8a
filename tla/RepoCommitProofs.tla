-------------------------- MODULE RepoCommitProofs --------------------------
(***************************************************************************)
(* Proofs about RepoCommit: the inductive invariant IInv and the safety    *)
(* properties that follow from it, for any writers, attempts and calls.    *)
(***************************************************************************)
EXTENDS RepoCommit, TLAPS

USE MaxRetriesAssumption, MaxCallsAssumption, ProviderRetriesAssumption

\* The values the actions store have the types the invariant names.
LEMMA AbsentType == Absent \in Roots
  BY DEF Absent, Roots

LEMMA LabelTypes ==
  /\ \A l \in PCs : l \in {"idle"} \cup CreatePCs \cup CommitPCs
  /\ {"idle", "createTx", "createRoot", "createLost", "createMarker", "read",
      "write", "cas", "casLost", "marker"} \subseteq PCs
  /\ {"none", "ok", "created", "error", "crashed", "gaveup", "notfound", "callback",
      "canceled", "exists"} \subseteq Results
  BY DEF PCs, CreatePCs, CommitPCs, Results, NoEffect

LEMMA NextRootType ==
  ASSUME TypeOK, NEW p \in Writers
  PROVE  NextRoot(p) \in Roots
<1>1. ThisCall(p) \in Calls
  BY DEF TypeOK, ThisCall, Calls
<1>2. view[p] \in Roots /\ root \in Roots /\ tx[p] \in TxIds
  BY DEF TypeOK
<1> QED
  BY <1>1, <1>2 DEF NextRoot, Roots

LEMMA CreatedRootType ==
  ASSUME TypeOK, NEW p \in Writers
  PROVE  [token |-> 1, version |-> 1, tx |-> tx[p], body |-> << >>] \in Roots
<1>1. tx[p] \in TxIds
  BY DEF TypeOK
<1> QED
  BY <1>1 DEF Roots

\* Minting an id and writing its record stores a transaction id.
LEMMA TxWriteType ==
  ASSUME TypeOK, NEW p \in Writers, MintTx(p),
         txRecords' \in {txRecords, txRecords \cup {tx'[p]}}
  PROVE  /\ minted' \in [Writers -> Nat]
         /\ tx' \in [Writers -> TxIds]
         /\ txRecords' \subseteq TxIds
<1>1. <<p, minted[p] + 1>> \in TxIds
  BY DEF TypeOK, TxIds
<1>2. tx'[p] = <<p, minted[p] + 1>>
  BY DEF TypeOK, MintTx
<1> QED
  BY <1>1, <1>2 DEF TypeOK, MintTx

\* The initial state is well typed.
LEMMA TypeInit == Init => TypeOK
  BY AbsentType, LabelTypes DEF Init, TypeOK, TxIds

\* Every action of RepoCommit keeps the state well typed.
LEMMA TypeStep == TypeOK /\ [Next]_vars => TypeOK'
<1> SUFFICES ASSUME TypeOK, [Next]_vars PROVE TypeOK'
  OBVIOUS
<1> USE AbsentType, LabelTypes DEF TypeOK, store, history, Goto, Return
<1>1. ASSUME NEW p \in Writers, BeginCreate(p) PROVE TypeOK'
  BY <1>1 DEF BeginCreate
<1>2. ASSUME NEW p \in Writers, CreateTx(p) PROVE TypeOK'
  BY <1>2, TxWriteType DEF CreateTx, TxWriteOk, TxWriteFails
<1>3. ASSUME NEW p \in Writers, CreateRoot(p) PROVE TypeOK'
  BY <1>3, CreatedRootType DEF CreateRoot
<1>4. ASSUME NEW p \in Writers, CreateExists(p) PROVE TypeOK'
  BY <1>4 DEF CreateExists
<1>5. ASSUME NEW p \in Writers, CreateMarker(p) PROVE TypeOK'
  BY <1>5 DEF CreateMarker
<1>6. ASSUME NEW p \in Writers, BeginCommit(p) PROVE TypeOK'
  <2>1. root.version \in Nat
    BY DEF Roots
  <2> QED
    BY <1>6, <2>1 DEF BeginCommit
<1>7. ASSUME NEW p \in Writers, ReadRoot(p) PROVE TypeOK'
  BY <1>7 DEF ReadRoot
<1>8. ASSUME NEW p \in Writers, WriteTx(p) PROVE TypeOK'
  BY <1>8, TxWriteType DEF WriteTx, TxWriteOk, TxWriteFails
<1>9. ASSUME NEW p \in Writers, CASRoot(p) PROVE TypeOK'
  BY <1>9, NextRootType DEF CASRoot
<1>10. ASSUME NEW p \in Writers, CASConflict(p) PROVE TypeOK'
  BY <1>10 DEF CASConflict
<1>11. ASSUME NEW p \in Writers, WriteMarker(p) PROVE TypeOK'
  <2>1. ThisCall(p) \in Calls
    BY DEF ThisCall, Calls
  <2> QED
    BY <1>11, <2>1 DEF WriteMarker
<1>12. ASSUME NEW p \in Writers, Cancel(p) PROVE TypeOK'
  BY <1>12 DEF Cancel
<1>13. ASSUME NEW p \in Writers, StorageError(p) PROVE TypeOK'
  BY <1>13 DEF StorageError
<1>14. ASSUME NEW p \in Writers, Crash(p) PROVE TypeOK'
  BY <1>14 DEF Crash
<1>15. CASE UNCHANGED vars
  BY <1>15 DEF vars
<1> QED
  BY <1>1, <1>2, <1>3, <1>4, <1>5, <1>6, <1>7, <1>8, <1>9, <1>10, <1>11, <1>12,
     <1>13, <1>14, <1>15 DEF Next, Step, Finished

-----------------------------------------------------------------------------
\* Replacing the root by NextRoot adds the committing call to the effects it holds.
LEMMA AppliedGrows ==
  ASSUME IInv, NEW p \in Writers, CASRoot(p)
  PROVE  Applied' = Applied \cup {ThisCall(p)}
<1>1. view[p] = root
  BY DEF IInv, SnapshotIsCurrentOrStale, CASRoot, TokenMatches
<1>2. root'.body = Append(root.body, ThisCall(p))
  BY <1>1 DEF CASRoot, NextRoot
<1>3. root.body \in Seq(Calls) /\ ThisCall(p) \in Calls
  BY DEF IInv, TypeOK, Roots, ThisCall, Calls
<1>4. /\ Len(root'.body) = Len(root.body) + 1
      /\ \A i \in 1..Len(root.body) : root'.body[i] = root.body[i]
      /\ root'.body[Len(root.body) + 1] = ThisCall(p)
  BY <1>2, <1>3
<1> QED
  BY <1>3, <1>4 DEF Applied

\* The initial state satisfies the inductive invariant.
LEMMA IInvInit == Init => IInv
  BY TypeInit DEF Init, IInv, VersionCountsWrites, AbsentIsEmpty, SnapshotIsCurrentOrStale,
     RecordBeforePut, WonHasRecord, MarkerFollowsWin, MarkerMeansWon, AckedIsDurable,
     AttemptsArePaidFor, GaveUpMeansContention, Absent

\* Every action preserves the inductive invariant.
LEMMA IInvStep == IInv /\ [Next]_vars => IInv'
<1> SUFFICES ASSUME IInv, [Next]_vars PROVE IInv'
  OBVIOUS
<1>0. TypeOK /\ TypeOK'
  BY TypeStep DEF IInv
<1>t. /\ root.version \in Nat /\ root.token \in Nat
      /\ \A q \in Writers : view[q].version \in Nat /\ view[q].token \in Nat
      /\ \A q \in Writers : start[q] \in Nat /\ attempt[q] \in 1..MaxRetries
  BY <1>0 DEF TypeOK, Roots
<1> USE <1>0, <1>t DEF store, history, Goto, Return
<1>1. ASSUME NEW p \in Writers, BeginCreate(p) PROVE IInv'
  <2>1. Applied' = Applied
    BY <1>1 DEF BeginCreate, Applied
  <2>2. (VersionCountsWrites /\ AbsentIsEmpty /\ WonHasRecord /\ MarkerMeansWon /\ AckedIsDurable)'
    BY <1>1, <2>1 DEF BeginCreate, IInv, VersionCountsWrites, AbsentIsEmpty, WonHasRecord,
       MarkerMeansWon, AckedIsDurable, MarkerFollowsWin, ThisCall
  <2>3. SnapshotIsCurrentOrStale'
    BY <1>1 DEF BeginCreate, IInv, TypeOK, SnapshotIsCurrentOrStale, VersionCountsWrites
  <2>4. (RecordBeforePut /\ MarkerFollowsWin)'
    BY <1>1, <2>1 DEF BeginCreate, IInv, TypeOK, RecordBeforePut, MarkerFollowsWin, ThisCall
  <2>5. (AttemptsArePaidFor /\ GaveUpMeansContention)'
    BY <1>1 DEF BeginCreate, IInv, TypeOK, AttemptsArePaidFor, GaveUpMeansContention,
       SnapshotIsCurrentOrStale, VersionCountsWrites
  <2> QED
    BY <2>2, <2>3, <2>4, <2>5 DEF IInv
<1>2. ASSUME NEW p \in Writers, CreateTx(p) PROVE IInv'
  <2>1. Applied' = Applied
    BY <1>2 DEF CreateTx, Applied
  <2>2. (VersionCountsWrites /\ AbsentIsEmpty /\ WonHasRecord /\ MarkerMeansWon /\ AckedIsDurable)'
    BY <1>2, <2>1 DEF CreateTx, TxWriteOk, TxWriteFails, MintTx, IInv, VersionCountsWrites, AbsentIsEmpty, WonHasRecord,
       MarkerMeansWon, AckedIsDurable, MarkerFollowsWin, ThisCall
  <2>3. SnapshotIsCurrentOrStale'
    BY <1>2 DEF CreateTx, TxWriteOk, TxWriteFails, MintTx, IInv, TypeOK, SnapshotIsCurrentOrStale, VersionCountsWrites
  <2>4. (RecordBeforePut /\ MarkerFollowsWin)'
    BY <1>2, <2>1 DEF CreateTx, TxWriteOk, TxWriteFails, MintTx, IInv, TypeOK, RecordBeforePut, MarkerFollowsWin, ThisCall
  <2>5. (AttemptsArePaidFor /\ GaveUpMeansContention)'
    BY <1>2 DEF CreateTx, TxWriteOk, TxWriteFails, MintTx, IInv, TypeOK, AttemptsArePaidFor, GaveUpMeansContention,
       SnapshotIsCurrentOrStale, VersionCountsWrites
  <2> QED
    BY <2>2, <2>3, <2>4, <2>5 DEF IInv
<1>3. ASSUME NEW p \in Writers, CreateExists(p) PROVE IInv'
  <2>1. Applied' = Applied
    BY <1>3 DEF CreateExists, Applied
  <2>2. (VersionCountsWrites /\ AbsentIsEmpty /\ WonHasRecord /\ MarkerMeansWon /\ AckedIsDurable)'
    BY <1>3, <2>1 DEF CreateExists, IInv, VersionCountsWrites, AbsentIsEmpty, WonHasRecord,
       MarkerMeansWon, AckedIsDurable, MarkerFollowsWin, ThisCall
  <2>3. SnapshotIsCurrentOrStale'
    BY <1>3 DEF CreateExists, IInv, TypeOK, SnapshotIsCurrentOrStale, VersionCountsWrites
  <2>4. (RecordBeforePut /\ MarkerFollowsWin)'
    BY <1>3, <2>1 DEF CreateExists, IInv, TypeOK, RecordBeforePut, MarkerFollowsWin, ThisCall
  <2>5. (AttemptsArePaidFor /\ GaveUpMeansContention)'
    BY <1>3 DEF CreateExists, IInv, TypeOK, AttemptsArePaidFor, GaveUpMeansContention,
       SnapshotIsCurrentOrStale, VersionCountsWrites
  <2> QED
    BY <2>2, <2>3, <2>4, <2>5 DEF IInv
<1>4. ASSUME NEW p \in Writers, CreateMarker(p) PROVE IInv'
  <2>1. Applied' = Applied
    BY <1>4 DEF CreateMarker, Applied
  <2>2. (VersionCountsWrites /\ AbsentIsEmpty /\ WonHasRecord /\ MarkerMeansWon /\ AckedIsDurable)'
    BY <1>4, <2>1 DEF CreateMarker, IInv, VersionCountsWrites, AbsentIsEmpty, WonHasRecord,
       MarkerMeansWon, AckedIsDurable, MarkerFollowsWin, ThisCall
  <2>3. SnapshotIsCurrentOrStale'
    BY <1>4 DEF CreateMarker, IInv, TypeOK, SnapshotIsCurrentOrStale, VersionCountsWrites
  <2>4. (RecordBeforePut /\ MarkerFollowsWin)'
    BY <1>4, <2>1 DEF CreateMarker, IInv, TypeOK, RecordBeforePut, MarkerFollowsWin, ThisCall
  <2>5. (AttemptsArePaidFor /\ GaveUpMeansContention)'
    BY <1>4 DEF CreateMarker, IInv, TypeOK, AttemptsArePaidFor, GaveUpMeansContention,
       SnapshotIsCurrentOrStale, VersionCountsWrites
  <2> QED
    BY <2>2, <2>3, <2>4, <2>5 DEF IInv
<1>5. ASSUME NEW p \in Writers, BeginCommit(p) PROVE IInv'
  <2>1. Applied' = Applied
    BY <1>5 DEF BeginCommit, Applied
  <2>2. (VersionCountsWrites /\ AbsentIsEmpty /\ WonHasRecord /\ MarkerMeansWon /\ AckedIsDurable)'
    BY <1>5, <2>1 DEF BeginCommit, IInv, VersionCountsWrites, AbsentIsEmpty, WonHasRecord,
       MarkerMeansWon, AckedIsDurable, MarkerFollowsWin, ThisCall
  <2>3. SnapshotIsCurrentOrStale'
    BY <1>5 DEF BeginCommit, IInv, TypeOK, SnapshotIsCurrentOrStale, VersionCountsWrites
  <2>4. (RecordBeforePut /\ MarkerFollowsWin)'
    BY <1>5, <2>1 DEF BeginCommit, IInv, TypeOK, RecordBeforePut, MarkerFollowsWin, ThisCall
  <2>5. (AttemptsArePaidFor /\ GaveUpMeansContention)'
    BY <1>5 DEF BeginCommit, IInv, TypeOK, AttemptsArePaidFor, GaveUpMeansContention,
       SnapshotIsCurrentOrStale, VersionCountsWrites
  <2> QED
    BY <2>2, <2>3, <2>4, <2>5 DEF IInv
<1>6. ASSUME NEW p \in Writers, ReadRoot(p) PROVE IInv'
  <2>1. Applied' = Applied
    BY <1>6 DEF ReadRoot, Applied
  <2>2. (VersionCountsWrites /\ AbsentIsEmpty /\ WonHasRecord /\ MarkerMeansWon /\ AckedIsDurable)'
    BY <1>6, <2>1 DEF ReadRoot, IInv, VersionCountsWrites, AbsentIsEmpty, WonHasRecord,
       MarkerMeansWon, AckedIsDurable, MarkerFollowsWin, ThisCall
  <2>3. SnapshotIsCurrentOrStale'
    BY <1>6 DEF ReadRoot, IInv, TypeOK, SnapshotIsCurrentOrStale, VersionCountsWrites
  <2>4. (RecordBeforePut /\ MarkerFollowsWin)'
    BY <1>6, <2>1 DEF ReadRoot, IInv, TypeOK, RecordBeforePut, MarkerFollowsWin, ThisCall
  <2>5. (AttemptsArePaidFor /\ GaveUpMeansContention)'
    BY <1>6 DEF ReadRoot, IInv, TypeOK, AttemptsArePaidFor, GaveUpMeansContention,
       SnapshotIsCurrentOrStale, VersionCountsWrites
  <2> QED
    BY <2>2, <2>3, <2>4, <2>5 DEF IInv
<1>7. ASSUME NEW p \in Writers, WriteTx(p) PROVE IInv'
  <2>1. Applied' = Applied
    BY <1>7 DEF WriteTx, Applied
  <2>2. (VersionCountsWrites /\ AbsentIsEmpty /\ WonHasRecord /\ MarkerMeansWon /\ AckedIsDurable)'
    BY <1>7, <2>1 DEF WriteTx, TxWriteOk, TxWriteFails, MintTx, IInv, VersionCountsWrites, AbsentIsEmpty, WonHasRecord,
       MarkerMeansWon, AckedIsDurable, MarkerFollowsWin, ThisCall
  <2>3. SnapshotIsCurrentOrStale'
    BY <1>7 DEF WriteTx, TxWriteOk, TxWriteFails, MintTx, IInv, TypeOK, SnapshotIsCurrentOrStale, VersionCountsWrites
  <2>4. (RecordBeforePut /\ MarkerFollowsWin)'
    BY <1>7, <2>1 DEF WriteTx, TxWriteOk, TxWriteFails, MintTx, IInv, TypeOK, RecordBeforePut, MarkerFollowsWin, ThisCall
  <2>5. (AttemptsArePaidFor /\ GaveUpMeansContention)'
    BY <1>7 DEF WriteTx, TxWriteOk, TxWriteFails, MintTx, IInv, TypeOK, AttemptsArePaidFor, GaveUpMeansContention,
       SnapshotIsCurrentOrStale, VersionCountsWrites
  <2> QED
    BY <2>2, <2>3, <2>4, <2>5 DEF IInv
<1>8. ASSUME NEW p \in Writers, CASConflict(p) PROVE IInv'
  <2>1. Applied' = Applied
    BY <1>8 DEF CASConflict, Applied
  <2>2. (VersionCountsWrites /\ AbsentIsEmpty /\ WonHasRecord /\ MarkerMeansWon /\ AckedIsDurable)'
    BY <1>8, <2>1 DEF CASConflict, TokenMatches, IInv, VersionCountsWrites, AbsentIsEmpty, WonHasRecord,
       MarkerMeansWon, AckedIsDurable, MarkerFollowsWin, ThisCall
  <2>3. SnapshotIsCurrentOrStale'
    BY <1>8 DEF CASConflict, TokenMatches, IInv, TypeOK, SnapshotIsCurrentOrStale, VersionCountsWrites
  <2>4. (RecordBeforePut /\ MarkerFollowsWin)'
    BY <1>8, <2>1 DEF CASConflict, TokenMatches, IInv, TypeOK, RecordBeforePut, MarkerFollowsWin, ThisCall
  <2>5. (AttemptsArePaidFor /\ GaveUpMeansContention)'
    <3>1. root.version >= start[p] + attempt[p]
      BY <1>8 DEF CASConflict, TokenMatches, IInv, AttemptsArePaidFor,
         SnapshotIsCurrentOrStale, VersionCountsWrites
    <3>2. UNCHANGED <<root, start>>
      BY <1>8 DEF CASConflict
    <3>3. CASE attempt[p] < MaxRetries /\ attempt' = [attempt EXCEPT ![p] = @ + 1]
               /\ pc' = [pc EXCEPT ![p] = "read"] /\ UNCHANGED <<result, view>>
      BY <3>1, <3>2, <3>3 DEF IInv, TypeOK, AttemptsArePaidFor, GaveUpMeansContention
    <3>4. CASE attempt[p] = MaxRetries /\ Return(p, "gaveup") /\ UNCHANGED attempt
      BY <3>1, <3>2, <3>4 DEF IInv, TypeOK, AttemptsArePaidFor, GaveUpMeansContention
    <3> QED
      BY <1>8, <3>3, <3>4 DEF CASConflict
  <2> QED
    BY <2>2, <2>3, <2>4, <2>5 DEF IInv
<1>9. ASSUME NEW p \in Writers, WriteMarker(p) PROVE IInv'
  <2>1. Applied' = Applied
    BY <1>9 DEF WriteMarker, Applied
  <2>2. (VersionCountsWrites /\ AbsentIsEmpty /\ WonHasRecord /\ MarkerMeansWon /\ AckedIsDurable)'
    BY <1>9, <2>1 DEF WriteMarker, IInv, VersionCountsWrites, AbsentIsEmpty, WonHasRecord,
       MarkerMeansWon, AckedIsDurable, MarkerFollowsWin, ThisCall
  <2>3. SnapshotIsCurrentOrStale'
    BY <1>9 DEF WriteMarker, IInv, TypeOK, SnapshotIsCurrentOrStale, VersionCountsWrites
  <2>4. (RecordBeforePut /\ MarkerFollowsWin)'
    BY <1>9, <2>1 DEF WriteMarker, IInv, TypeOK, RecordBeforePut, MarkerFollowsWin, ThisCall
  <2>5. (AttemptsArePaidFor /\ GaveUpMeansContention)'
    BY <1>9 DEF WriteMarker, IInv, TypeOK, AttemptsArePaidFor, GaveUpMeansContention,
       SnapshotIsCurrentOrStale, VersionCountsWrites
  <2> QED
    BY <2>2, <2>3, <2>4, <2>5 DEF IInv
<1>10. ASSUME NEW p \in Writers, Cancel(p) PROVE IInv'
  <2>1. Applied' = Applied
    BY <1>10 DEF Cancel, Applied
  <2>2. (VersionCountsWrites /\ AbsentIsEmpty /\ WonHasRecord /\ MarkerMeansWon /\ AckedIsDurable)'
    BY <1>10, <2>1 DEF Cancel, IInv, VersionCountsWrites, AbsentIsEmpty, WonHasRecord,
       MarkerMeansWon, AckedIsDurable, MarkerFollowsWin, ThisCall
  <2>3. SnapshotIsCurrentOrStale'
    BY <1>10 DEF Cancel, IInv, TypeOK, SnapshotIsCurrentOrStale, VersionCountsWrites
  <2>4. (RecordBeforePut /\ MarkerFollowsWin)'
    BY <1>10, <2>1 DEF Cancel, IInv, TypeOK, RecordBeforePut, MarkerFollowsWin, ThisCall
  <2>5. (AttemptsArePaidFor /\ GaveUpMeansContention)'
    BY <1>10 DEF Cancel, IInv, TypeOK, AttemptsArePaidFor, GaveUpMeansContention,
       SnapshotIsCurrentOrStale, VersionCountsWrites
  <2> QED
    BY <2>2, <2>3, <2>4, <2>5 DEF IInv
<1>11. ASSUME NEW p \in Writers, StorageError(p) PROVE IInv'
  <2>1. Applied' = Applied
    BY <1>11 DEF StorageError, Applied
  <2>2. (VersionCountsWrites /\ AbsentIsEmpty /\ WonHasRecord /\ MarkerMeansWon /\ AckedIsDurable)'
    BY <1>11, <2>1 DEF StorageError, IInv, VersionCountsWrites, AbsentIsEmpty, WonHasRecord,
       MarkerMeansWon, AckedIsDurable, MarkerFollowsWin, ThisCall
  <2>3. SnapshotIsCurrentOrStale'
    BY <1>11 DEF StorageError, IInv, TypeOK, SnapshotIsCurrentOrStale, VersionCountsWrites
  <2>4. (RecordBeforePut /\ MarkerFollowsWin)'
    BY <1>11, <2>1 DEF StorageError, IInv, TypeOK, RecordBeforePut, MarkerFollowsWin, ThisCall
  <2>5. (AttemptsArePaidFor /\ GaveUpMeansContention)'
    BY <1>11 DEF StorageError, IInv, TypeOK, AttemptsArePaidFor, GaveUpMeansContention,
       SnapshotIsCurrentOrStale, VersionCountsWrites
  <2> QED
    BY <2>2, <2>3, <2>4, <2>5 DEF IInv
<1>12. ASSUME NEW p \in Writers, Crash(p) PROVE IInv'
  <2>1. Applied' = Applied
    BY <1>12 DEF Crash, Applied
  <2>2. (VersionCountsWrites /\ AbsentIsEmpty /\ WonHasRecord /\ MarkerMeansWon /\ AckedIsDurable)'
    BY <1>12, <2>1 DEF Crash, IInv, VersionCountsWrites, AbsentIsEmpty, WonHasRecord,
       MarkerMeansWon, AckedIsDurable, MarkerFollowsWin, ThisCall
  <2>3. SnapshotIsCurrentOrStale'
    BY <1>12 DEF Crash, IInv, TypeOK, SnapshotIsCurrentOrStale, VersionCountsWrites
  <2>4. (RecordBeforePut /\ MarkerFollowsWin)'
    BY <1>12, <2>1 DEF Crash, IInv, TypeOK, RecordBeforePut, MarkerFollowsWin, ThisCall
  <2>5. (AttemptsArePaidFor /\ GaveUpMeansContention)'
    BY <1>12 DEF Crash, IInv, TypeOK, AttemptsArePaidFor, GaveUpMeansContention,
       SnapshotIsCurrentOrStale, VersionCountsWrites
  <2> QED
    BY <2>2, <2>3, <2>4, <2>5 DEF IInv
<1>13. ASSUME NEW p \in Writers, CASRoot(p) PROVE IInv'
  <2>1. Applied' = Applied \cup {ThisCall(p)}
    BY <1>13, AppliedGrows
  <2>2. /\ view[p] = root
        /\ root'.version = root.version + 1 /\ root'.token = root.token + 1
        /\ root.version # 0
    BY <1>13 DEF CASRoot, NextRoot, TokenMatches, IInv, SnapshotIsCurrentOrStale
  <2>3. (VersionCountsWrites /\ AbsentIsEmpty)'
    BY <2>2 DEF IInv, VersionCountsWrites, AbsentIsEmpty
  <2>4. (WonHasRecord /\ MarkerMeansWon /\ AckedIsDurable)'
    BY <1>13, <2>1 DEF CASRoot, IInv, WonHasRecord, MarkerMeansWon, AckedIsDurable,
       RecordBeforePut
  <2>5. SnapshotIsCurrentOrStale'
    BY <1>13, <2>2 DEF CASRoot, IInv, TypeOK, SnapshotIsCurrentOrStale
  <2>6. (RecordBeforePut /\ MarkerFollowsWin)'
    BY <1>13, <2>1 DEF CASRoot, IInv, TypeOK, RecordBeforePut, MarkerFollowsWin, ThisCall
  <2>7. (AttemptsArePaidFor /\ GaveUpMeansContention)'
    BY <1>13, <2>2 DEF CASRoot, IInv, TypeOK, AttemptsArePaidFor, GaveUpMeansContention
  <2> QED
    BY <2>3, <2>4, <2>5, <2>6, <2>7 DEF IInv
<1>14. ASSUME NEW p \in Writers, CreateRoot(p) PROVE IInv'
  <2>1. root.body = << >> /\ root'.body = << >>
    BY <1>14 DEF CreateRoot, IInv, AbsentIsEmpty
  <2>2. Applied' = Applied
    BY <2>1 DEF Applied
  <2>3. root.version = 0 /\ root.token = 0 /\ root'.version = 1 /\ root'.token = 1
    BY <1>14 DEF CreateRoot, IInv, VersionCountsWrites
  <2>4. (VersionCountsWrites /\ AbsentIsEmpty)'
    BY <2>3 DEF VersionCountsWrites, AbsentIsEmpty
  <2>5. (WonHasRecord /\ MarkerMeansWon /\ AckedIsDurable)'
    BY <1>14, <2>2 DEF CreateRoot, IInv, WonHasRecord, MarkerMeansWon, AckedIsDurable,
       RecordBeforePut
  <2>6. SnapshotIsCurrentOrStale'
    BY <1>14, <2>3 DEF CreateRoot, IInv, TypeOK, SnapshotIsCurrentOrStale
  <2>7. (RecordBeforePut /\ MarkerFollowsWin)'
    BY <1>14, <2>2 DEF CreateRoot, IInv, TypeOK, RecordBeforePut, MarkerFollowsWin, ThisCall
  <2>8. (AttemptsArePaidFor /\ GaveUpMeansContention)'
    <3>1. UNCHANGED <<view, attempt, start, result>>
      BY <1>14 DEF CreateRoot
    <3>2. \A q \in Writers : pc'[q] \in {"read", "write", "cas", "casLost"} => pc'[q] = pc[q]
      BY <1>14 DEF CreateRoot, TypeOK
    <3> QED
      BY <2>3, <3>1, <3>2 DEF IInv, AttemptsArePaidFor, GaveUpMeansContention
  <2> QED
    BY <2>4, <2>5, <2>6, <2>7, <2>8 DEF IInv
<1>15. CASE UNCHANGED vars
  <2>1. Applied' = Applied
    BY <1>15 DEF vars, Applied
  <2> QED
    BY <1>15, <2>1 DEF vars, IInv, VersionCountsWrites, AbsentIsEmpty, SnapshotIsCurrentOrStale,
       RecordBeforePut, WonHasRecord, MarkerFollowsWin, MarkerMeansWon, AckedIsDurable,
       AttemptsArePaidFor, GaveUpMeansContention, ThisCall
<1> QED
  BY <1>1, <1>2, <1>3, <1>4, <1>5, <1>6, <1>7, <1>8, <1>9, <1>10, <1>11, <1>12,
     <1>13, <1>14, <1>15 DEF Next, Step, Finished

\* Type correctness of the kernel, for any number of writers, calls and retries.
THEOREM TypeCorrect == Spec => []TypeOK
  BY TypeInit, TypeStep, PTL DEF Spec

\* The inductive invariant holds of every behaviour.
THEOREM Invariance == Spec => []IInv
  BY IInvInit, IInvStep, PTL DEF Spec

\* No acknowledged commit is ever lost from the root manifest.
THEOREM Durability == Spec => []AckedIsDurable
<1>1. IInv => AckedIsDurable
  BY DEF IInv
<1> QED
  BY <1>1, Invariance, PTL

\* Every transaction a root ever named has its record, and every marker names
\* such a transaction.
THEOREM RecordsAndMarkers == Spec => [](WonHasRecord /\ MarkerMeansWon)
<1>1. IInv => WonHasRecord /\ MarkerMeansWon
  BY DEF IInv
<1> QED
  BY <1>1, Invariance, PTL

\* A writer that gives up did so because MaxRetries other versions landed.
THEOREM Progress == Spec => []GaveUpMeansContention
<1>1. IInv => GaveUpMeansContention
  BY DEF IInv
<1> QED
  BY <1>1, Invariance, PTL

-----------------------------------------------------------------------------
\* A step either leaves the root alone, creates it, or commits one call to it.
LEMMA RootChanges ==
  ASSUME [Next]_vars
  PROVE  \/ UNCHANGED <<root, won>>
         \/ \E p \in Writers : CreateRoot(p)
         \/ \E p \in Writers : CASRoot(p)
<1> USE DEF store, history
<1>1. ASSUME NEW p \in Writers, BeginCreate(p) \/ BeginCommit(p) \/ CreateTx(p) \/ CreateExists(p)
                                \/ CreateMarker(p) \/ ReadRoot(p)
      PROVE  UNCHANGED <<root, won>>
  BY <1>1 DEF BeginCreate, BeginCommit, CreateTx, CreateExists, CreateMarker, ReadRoot
<1>2. ASSUME NEW p \in Writers, WriteTx(p) \/ CASConflict(p) \/ WriteMarker(p) \/ StorageError(p)
                                \/ Cancel(p) \/ Crash(p)
      PROVE  UNCHANGED <<root, won>>
  BY <1>2 DEF WriteTx, CASConflict, WriteMarker, StorageError, Cancel, Crash
<1>3. CASE UNCHANGED vars
  BY <1>3 DEF vars
<1> QED
  BY <1>1, <1>2, <1>3 DEF Next, Step, Finished

\* Every put after the creation replaces the very root its writer read, so it
\* extends that body by one call and advances the version by one.
THEOREM Growth == Spec => RootOnlyGrows
<1> DEFINE Grows == root.version # 0 =>
                      /\ root'.version = root.version + 1
                      /\ SubSeq(root'.body, 1, Len(root.body)) = root.body
                      /\ Len(root'.body) = Len(root.body) + 1
<1>1. ASSUME IInv, [Next]_vars PROVE [Grows]_root
  <2>1. ASSUME NEW p \in Writers, CASRoot(p) PROVE Grows
    <3>1. view[p] = root
      BY <1>1, <2>1 DEF IInv, SnapshotIsCurrentOrStale, CASRoot, TokenMatches
    <3>2. root'.version = root.version + 1 /\ root'.body = Append(root.body, ThisCall(p))
      BY <2>1, <3>1 DEF CASRoot, NextRoot
    <3>3. root.body \in Seq(Calls) /\ ThisCall(p) \in Calls
      BY <1>1 DEF IInv, TypeOK, Roots, ThisCall, Calls
    <3> QED
      BY <3>2, <3>3
  <2>2. ASSUME NEW p \in Writers, CreateRoot(p) PROVE Grows
    BY <2>2 DEF CreateRoot
  <2> QED
    BY <1>1, <2>1, <2>2, RootChanges
<1> QED
  BY Invariance, <1>1, PTL DEF Spec, RootOnlyGrows

-----------------------------------------------------------------------------
\* Transaction ids are unique: each carries the process that minted it and a
\* number that process has already used.  The id of an attempt that has not
\* reached its put belongs to no root and to no orphan list.
WonIsMinted == \A t \in won : t[2] <= minted[t[1]]

OwnIds(p) ==
    /\ tx[p][1] = p /\ tx[p][2] <= minted[p]
    /\ \A t \in orphans[p] : t[1] = p /\ t[2] <= minted[p]
    /\ pc[p] \in {"cas", "createRoot"} => tx[p] \notin won \cup orphans[p]
    /\ pc[p] \in {"read", "write", "cas"} \/ result[p] = "gaveup" => orphans[p] \cap won = {}

OrphanInv == WonIsMinted /\ \A p \in Writers : OwnIds(p)

Act(p) ==
    \/ BeginCreate(p) \/ BeginCommit(p) \/ Step(p)
    \/ StorageError(p) \/ Cancel(p) \/ Crash(p)

\* A step of one process leaves the locals of the others alone.
LEMMA LocalFrame ==
  ASSUME TypeOK, NEW p \in Writers, Act(p), NEW q \in Writers, q # p
  PROVE  /\ pc'[q] = pc[q] /\ tx'[q] = tx[q] /\ minted'[q] = minted[q]
         /\ orphans'[q] = orphans[q] /\ result'[q] = result[q]
<1> USE DEF store, history, Goto, Return, TypeOK, MintTx, TxWriteOk, TxWriteFails
<1>1. CASE BeginCreate(p) \/ BeginCommit(p) \/ CreateTx(p)
  BY <1>1 DEF BeginCreate, BeginCommit, CreateTx
<1>2. CASE CreateRoot(p) \/ CreateExists(p) \/ CreateMarker(p)
  BY <1>2 DEF CreateRoot, CreateExists, CreateMarker
<1>3. CASE ReadRoot(p) \/ WriteTx(p) \/ CASRoot(p)
  BY <1>3 DEF ReadRoot, WriteTx, CASRoot
<1>4. CASE CASConflict(p) \/ WriteMarker(p)
  BY <1>4 DEF CASConflict, WriteMarker
<1>5. CASE StorageError(p) \/ Cancel(p) \/ Crash(p)
  BY <1>5 DEF StorageError, Cancel, Crash
<1> QED
  BY <1>1, <1>2, <1>3, <1>4, <1>5 DEF Act, Step

\* What a step does to the ids of its own process: it mints the next one or
\* keeps the last, and only a put that was about to happen adds a winner.
LEMMA OwnStep ==
  ASSUME TypeOK, NEW p \in Writers, Act(p)
  PROVE  /\ \/ tx'[p] = tx[p] /\ minted'[p] = minted[p]
            \/ tx'[p] = <<p, minted[p] + 1>> /\ minted'[p] = minted[p] + 1
               /\ UNCHANGED <<won, orphans>> /\ pc[p] \in {"write", "createTx"}
         /\ \/ won' = won
            \/ won' = won \cup {tx[p]} /\ pc[p] \in {"cas", "createRoot"}
               /\ pc'[p] \notin {"read", "write", "cas", "createRoot"}
               /\ UNCHANGED <<tx, minted, orphans, result>>
<1> USE DEF store, history, Goto, Return, TypeOK, MintTx, TxWriteOk, TxWriteFails
<1>1. CASE BeginCreate(p) \/ BeginCommit(p)
  BY <1>1 DEF BeginCreate, BeginCommit
<1>2. CASE CreateTx(p) \/ WriteTx(p)
  BY <1>2 DEF CreateTx, WriteTx
<1>3. CASE CreateRoot(p) \/ CASRoot(p)
  BY <1>3 DEF CreateRoot, CASRoot
<1>4. CASE CreateExists(p) \/ CreateMarker(p) \/ ReadRoot(p)
  BY <1>4 DEF CreateExists, CreateMarker, ReadRoot
<1>5. CASE CASConflict(p) \/ WriteMarker(p)
  BY <1>5 DEF CASConflict, WriteMarker
<1>6. CASE StorageError(p) \/ Cancel(p) \/ Crash(p)
  BY <1>6 DEF StorageError, Cancel, Crash
<1> QED
  BY <1>1, <1>2, <1>3, <1>4, <1>5, <1>6 DEF Act, Step

\* A process's own step keeps what is true of its ids.
LEMMA OwnIdsKept ==
  ASSUME TypeOK, TypeOK', ~ProviderRetries, OrphanInv, NEW p \in Writers, Act(p)
  PROVE  OwnIds(p)'
<1>t. /\ minted[p] \in Nat /\ tx[p] \in TxIds /\ orphans[p] \subseteq TxIds /\ won \subseteq TxIds
  BY DEF TypeOK
<1>o. OwnIds(p) /\ WonIsMinted
  BY DEF OrphanInv
<1> USE DEF store, history, Goto, Return
<1>1. CASE /\ tx'[p] = tx[p] /\ minted'[p] = minted[p]
           /\ orphans'[p] = orphans[p] /\ won' = won
           /\ pc'[p] \notin {"cas", "createRoot"}
           /\ pc'[p] \in {"read", "write"} => pc[p] \in {"read", "write"}
           /\ result'[p] = "gaveup" => result[p] = "gaveup"
  BY <1>o, <1>1 DEF OwnIds
<1>2. CASE BeginCreate(p) \/ CreateExists(p) \/ CreateMarker(p) \/ ReadRoot(p)
  BY <1>1, <1>2 DEF BeginCreate, CreateExists, CreateMarker, ReadRoot, TypeOK
<1>3. CASE WriteMarker(p) \/ Cancel(p) \/ Crash(p)
  BY <1>1, <1>3 DEF WriteMarker, Cancel, Crash, TypeOK
<1>4. CASE BeginCommit(p)
  <2>1. /\ tx'[p] = tx[p] /\ minted'[p] = minted[p] /\ orphans'[p] = {} /\ pc'[p] = "read"
    BY <1>4 DEF BeginCommit, TypeOK
  <2> QED
    BY <1>o, <2>1 DEF OwnIds
<1>5. CASE WriteTx(p) \/ CreateTx(p)
  <2>1. ASSUME MintTx(p), UNCHANGED <<orphans, won>>,
               \/ pc'[p] \in {"cas", "createRoot"} /\ result' = result
               \/ pc'[p] = "idle" /\ result'[p] = "error",
               pc'[p] = "cas" => pc[p] = "write"
        PROVE  OwnIds(p)'
    <3>1. tx'[p] = <<p, minted[p] + 1>> /\ minted'[p] = minted[p] + 1
      BY <2>1 DEF MintTx, TypeOK
    <3>2. \A t \in orphans[p] : t[1] = p /\ t[2] \in Nat /\ t[2] <= minted[p]
      BY <1>t, <1>o DEF OwnIds, TxIds
    <3>3. tx'[p] \notin orphans[p]
      BY <1>t, <3>1, <3>2
    <3>4. tx'[p] \notin won
      BY <1>t, <1>o, <3>1 DEF WonIsMinted, TxIds
    <3>5. tx'[p][1] = p /\ tx'[p][2] <= minted'[p]
      BY <1>t, <3>1
    <3>6. \A t \in orphans'[p] : t[1] = p /\ t[2] <= minted'[p]
      BY <1>t, <2>1, <3>1, <3>2
    <3> QED
      BY <1>o, <2>1, <3>3, <3>4, <3>5, <3>6 DEF OwnIds
  <2>2. CASE Return(p, "callback") /\ UNCHANGED <<tx, minted, txRecords>> /\ UNCHANGED <<orphans, won>>
    BY <1>1, <2>2 DEF TypeOK
  <2>3. pc[p] \in {"write", "createTx"} /\ UNCHANGED <<orphans, won>>
    BY <1>5 DEF WriteTx, CreateTx
  <2>4. CASE TxWriteFails(p)
    <3>1. MintTx(p) /\ pc'[p] = "idle" /\ result'[p] = "error"
      BY <2>4 DEF TxWriteFails, TypeOK
    <3> QED
      BY <2>1, <2>3, <3>1
  <2>5. CASE TxWriteOk(p, "cas") /\ pc[p] = "write"
    <3>1. MintTx(p) /\ pc'[p] = "cas" /\ result' = result
      BY <2>5 DEF TxWriteOk, TypeOK
    <3> QED
      BY <2>1, <2>3, <2>5, <3>1
  <2>6. CASE TxWriteOk(p, "createRoot")
    <3>1. MintTx(p) /\ pc'[p] = "createRoot" /\ result' = result
      BY <2>6 DEF TxWriteOk, TypeOK
    <3> QED
      BY <2>1, <2>3, <3>1
  <2> QED
    BY <1>5, <2>2, <2>3, <2>4, <2>5, <2>6 DEF WriteTx, CreateTx
<1>6. CASE CreateRoot(p) \/ CASRoot(p)
  <2>1. /\ won' = won \cup {tx[p]} /\ UNCHANGED <<tx, minted, orphans, result>>
        /\ pc[p] \in {"cas", "createRoot"}
        /\ pc'[p] \notin {"read", "write", "cas", "createRoot"}
    BY <1>6 DEF CreateRoot, CASRoot, TypeOK
  <2> QED
    BY <1>o, <2>1 DEF OwnIds
<1>7. CASE CASConflict(p)
  <2>1. /\ pc[p] = "cas" /\ pc'[p] \in {"read", "idle"}
        /\ orphans'[p] = orphans[p] \cup {tx[p]} /\ UNCHANGED <<tx, minted, won>>
    BY <1>7 DEF CASConflict, TypeOK
  <2> QED
    BY <1>o, <2>1 DEF OwnIds
<1>8. CASE StorageError(p)
  <2>1. /\ pc'[p] = "idle" /\ result'[p] = "error" /\ UNCHANGED <<tx, minted, won>>
        /\ orphans'[p] \in {orphans[p], orphans[p] \cup {tx[p]}}
    BY <1>8 DEF StorageError, TypeOK
  <2> QED
    BY <1>o, <2>1 DEF OwnIds
<1> QED
  BY <1>2, <1>3, <1>4, <1>5, <1>6, <1>7, <1>8 DEF Act, Step

\* Every step keeps the ids apart.
LEMMA OrphanStep ==
  ASSUME TypeOK, TypeOK', ~ProviderRetries, OrphanInv, [Next]_vars
  PROVE  OrphanInv'
<1>1. ASSUME NEW p \in Writers, Act(p) PROVE OrphanInv'
  <2>1. ASSUME NEW q \in Writers PROVE OwnIds(q)'
    <3>1. CASE q = p
      BY <1>1, <3>1, OwnIdsKept
    <3>2. CASE q # p
      <4>1. /\ pc'[q] = pc[q] /\ tx'[q] = tx[q] /\ minted'[q] = minted[q]
            /\ orphans'[q] = orphans[q] /\ result'[q] = result[q]
        BY <1>1, <3>2, LocalFrame
      <4>2. won' = won \/ won' = won \cup {tx[p]}
        BY <1>1, OwnStep
      <4>3. OwnIds(q) /\ tx[p][1] = p
        BY DEF OrphanInv, OwnIds
      <4>4. tx[p] # tx[q] /\ tx[p] \notin orphans[q]
        BY <3>2, <4>3 DEF OwnIds
      <4> QED
        BY <4>1, <4>2, <4>3, <4>4 DEF OwnIds
    <3> QED
      BY <3>1, <3>2
  <2>2. WonIsMinted'
    <3>1. \A q \in Writers : minted[q] \in Nat /\ minted'[q] \in Nat /\ minted[q] <= minted'[q]
      <4> SUFFICES ASSUME NEW q \in Writers PROVE minted[q] \in Nat /\ minted'[q] \in Nat /\ minted[q] <= minted'[q]
        OBVIOUS
      <4>1. minted[q] \in Nat /\ minted'[q] \in Nat
        BY DEF TypeOK
      <4>2. minted'[q] \in {minted[q], minted[q] + 1}
        BY <1>1, LocalFrame, OwnStep
      <4> QED
        BY <4>1, <4>2
    <3>2. ASSUME NEW t \in won' PROVE t \in TxIds /\ t[2] <= minted[t[1]]
      <4>1. tx[p][1] = p /\ tx[p][2] <= minted[p] /\ tx[p] \in TxIds
        BY DEF OrphanInv, OwnIds, TypeOK
      <4>2. t \in won \/ t = tx[p]
        BY <1>1, <3>2, OwnStep
      <4> QED
        BY <4>1, <4>2 DEF OrphanInv, WonIsMinted, TypeOK
    <3>3. ASSUME NEW t \in TxIds, t[2] <= minted[t[1]] PROVE t[2] <= minted'[t[1]]
      <4>1. t[1] \in Writers /\ t[2] \in Nat
        BY DEF TxIds
      <4> QED
        BY <3>1, <3>3, <4>1
    <3> QED
      BY <3>2, <3>3 DEF WonIsMinted
  <2> QED
    BY <2>1, <2>2 DEF OrphanInv
<1>2. CASE UNCHANGED vars
  BY <1>2 DEF vars, OrphanInv, WonIsMinted, OwnIds
<1> QED
  BY <1>1, <1>2 DEF Next, Act, Finished

\* When the adapter does not resend puts, an id that Commit reports as an
\* orphan after running out of attempts never was the id of a root.
THEOREM OrphansLose == ~ProviderRetries => (Spec => []OrphansNeverWon)
<1> SUFFICES ASSUME ~ProviderRetries PROVE Spec => []OrphansNeverWon
  OBVIOUS
<1>1. Init => OrphanInv
  BY DEF Init, OrphanInv, WonIsMinted, OwnIds
<1>2. TypeOK /\ TypeOK' /\ OrphanInv /\ [Next]_vars => OrphanInv'
  BY OrphanStep
<1>3. OrphanInv => OrphansNeverWon
  BY DEF OrphanInv, OwnIds, OrphansNeverWon
<1> QED
  BY TypeCorrect, <1>1, <1>2, <1>3, PTL DEF Spec
=============================================================================
