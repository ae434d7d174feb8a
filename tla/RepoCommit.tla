----------------------------- MODULE RepoCommit -----------------------------
(***************************************************************************)
(* The transaction kernel of internal/repo: Create and Commit.             *)
(*                                                                         *)
(* The whole state of a repository hangs off one object, the root          *)
(* manifest.  A writer reads it, lets its callback compute a new body,     *)
(* writes an immutable transaction record under a fresh id, and then       *)
(* replaces the root with a conditional put on the version token it read.  *)
(* A conflict starts the loop again, at most MaxRetries times; a success   *)
(* is followed by a best-effort commit marker next to the record.          *)
(*                                                                         *)
(* A body is abstracted to the sequence of the calls whose effect it       *)
(* holds: the callback of call c of process p appends <<p, c>> to the body *)
(* it was shown.  Storage errors, cancellations, lost replies, provider    *)
(* retries and process deaths can happen at every step that allows them.   *)
(***************************************************************************)
EXTENDS Naturals, Sequences

CONSTANTS
    Writers,          \* processes sharing nothing but the bucket
    MaxRetries,       \* CommitPolicy.MaxRetries
    MaxCalls,         \* bound: Commit calls made by one process
    ProviderRetries   \* whether the storage adapter's SDK resends a put whose
                      \* reply was lost (s3compat, gcs, azureblob; not localfs)

ASSUME MaxRetriesAssumption == MaxRetries \in Nat \ {0}
ASSUME MaxCallsAssumption == MaxCalls \in Nat
ASSUME ProviderRetriesAssumption == ProviderRetries \in BOOLEAN

VARIABLES
    root,        \* manifest/root.json; version 0 stands for "absent"
    txRecords,   \* transaction ids that have a record object
    markers,     \* transaction ids that have a .commit marker
    pc, view, attempt, tx, orphans, result, minted, calls,
                 \* locals of each process's current call
    start,       \* history: root version when the current call began
    acked,       \* history: calls that returned a transaction id
    won          \* history: transaction ids that ever were latest_tx

store == <<root, txRecords, markers>>
history == <<start, acked, won>>
vars == <<root, txRecords, markers, pc, view, attempt, tx, orphans, result,
          minted, calls, start, acked, won>>

TxIds == Writers \X Nat
Calls == Writers \X Nat
NoTx == <<"none", 0>>
Roots == [token : Nat, version : Nat, tx : TxIds \cup {NoTx}, body : Seq(Calls)]
Absent == [token |-> 0, version |-> 0, tx |-> NoTx, body |-> << >>]

CreatePCs == {"createTx", "createRoot", "createLost", "createMarker"}
CommitPCs == {"read", "write", "cas", "casLost", "marker"}
PCs == {"idle"} \cup CreatePCs \cup CommitPCs
NoEffect == {"gaveup", "notfound", "callback", "canceled", "exists"}
Results == {"none", "ok", "created", "error", "crashed"} \cup NoEffect

ThisCall(p) == <<p, calls[p]>>

Init ==
    /\ root = Absent
    /\ txRecords = {} /\ markers = {}
    /\ pc = [p \in Writers |-> "idle"]
    /\ view = [p \in Writers |-> Absent]
    /\ attempt = [p \in Writers |-> 1]
    /\ tx = [p \in Writers |-> <<p, 0>>]
    /\ orphans = [p \in Writers |-> {}]
    /\ result = [p \in Writers |-> "none"]
    /\ minted = [p \in Writers |-> 0]
    /\ calls = [p \in Writers |-> 0]
    /\ start = [p \in Writers |-> 0]
    /\ acked = {} /\ won = {}

Goto(p, l) == pc' = [pc EXCEPT ![p] = l]

\* The call is over and its snapshot of the root goes out of scope.
Return(p, r) ==
    /\ Goto(p, "idle")
    /\ result' = [result EXCEPT ![p] = r]
    /\ view' = [view EXCEPT ![p] = Absent]

(***************************************************************************)
(* newTxID and tx.Write: every attempt mints a fresh id and creates its    *)
(* record with PutIfAbsent.  When the put fails the object may have landed *)
(* all the same.                                                           *)
(***************************************************************************)
MintTxPerAttempt(p) ==  \* mutant: ids repeat from one call to the next
    /\ minted' = [minted EXCEPT ![p] = @ + 1]
    /\ tx' = [tx EXCEPT ![p] = <<p, attempt[p]>>]

MintTx(p) ==
    /\ minted' = [minted EXCEPT ![p] = @ + 1]
    /\ tx' = [tx EXCEPT ![p] = <<p, minted[p] + 1>>]

TxWriteUnchecked(p, next) ==  \* mutant: a failed put is taken for a success
    /\ MintTx(p)
    /\ txRecords' \in {txRecords, txRecords \cup {tx'[p]}}
    /\ Goto(p, next)
    /\ UNCHANGED <<result, view>>

TxWriteOk(p, next) ==
    /\ MintTx(p)
    /\ txRecords' = txRecords \cup {tx'[p]}
    /\ Goto(p, next)
    /\ UNCHANGED <<result, view>>

TxWriteFails(p) ==
    /\ MintTx(p)
    /\ txRecords' \in {txRecords, txRecords \cup {tx'[p]}}
    /\ Return(p, "error")

-----------------------------------------------------------------------------
(***************************************************************************)
(* Create: transaction record, root with PutIfAbsent (the commit point),   *)
(* marker.  Bound: a process creates at most once, as its first act.       *)
(***************************************************************************)
BeginCreate(p) ==
    /\ pc[p] = "idle" /\ minted[p] = 0 /\ calls[p] = 0
    /\ Goto(p, "createTx")
    /\ UNCHANGED <<store, view, attempt, tx, orphans, result, minted, calls, history>>

CreateTx(p) ==
    /\ pc[p] = "createTx"
    /\ TxWriteOk(p, "createRoot") \/ TxWriteFails(p)
    /\ UNCHANGED <<root, markers, attempt, orphans, calls, history>>

CreateRoot(p) ==
    /\ pc[p] = "createRoot"
    /\ root.version = 0
    /\ root' = [token |-> 1, version |-> 1, tx |-> tx[p], body |-> << >>]
    /\ won' = won \cup {tx[p]}
    /\ Goto(p, "createMarker") \/ Goto(p, "createLost")
    /\ UNCHANGED <<txRecords, markers, view, attempt, tx, orphans, result, minted,
                   calls, start, acked>>

CreateExists(p) ==
    /\ \/ pc[p] = "createRoot"
       \/ pc[p] = "createLost" /\ ProviderRetries
    /\ root.version # 0
    /\ Return(p, "exists")
    /\ UNCHANGED <<store, attempt, tx, orphans, minted, calls, history>>

CreateMarker(p) ==
    /\ pc[p] = "createMarker"
    /\ markers' \in {markers, markers \cup {tx[p]}}
    /\ Return(p, "created")
    /\ UNCHANGED <<root, txRecords, attempt, tx, orphans, minted, calls, history>>

-----------------------------------------------------------------------------
(***************************************************************************)
(* Commit.                                                                 *)
(***************************************************************************)
BeginCommit(p) ==
    /\ pc[p] = "idle" /\ calls[p] < MaxCalls
    /\ Goto(p, "read")
    /\ calls' = [calls EXCEPT ![p] = @ + 1]
    /\ attempt' = [attempt EXCEPT ![p] = 1]
    /\ orphans' = [orphans EXCEPT ![p] = {}]
    /\ result' = [result EXCEPT ![p] = "none"]
    /\ start' = [start EXCEPT ![p] = root.version]
    /\ UNCHANGED <<store, view, tx, minted, acked, won>>

ReadRootWaits(p) ==  \* mutant: an absent root is waited for
    /\ pc[p] = "read" /\ root.version # 0
    /\ view' = [view EXCEPT ![p] = root]
    /\ Goto(p, "write")
    /\ UNCHANGED <<store, attempt, tx, orphans, result, minted, calls, history>>

ReadRoot(p) ==
    /\ pc[p] = "read"
    /\ \/ /\ root.version = 0
          /\ Return(p, "notfound")
       \/ /\ root.version # 0
          /\ view' = [view EXCEPT ![p] = root]
          /\ Goto(p, "write")
          /\ UNCHANGED result
    /\ UNCHANGED <<store, attempt, tx, orphans, minted, calls, history>>

WriteTxAndMarker(p) ==  \* mutant: the marker goes out with the record
    /\ pc[p] = "write"
    /\ TxWriteOk(p, "cas")
    /\ markers' = markers \cup {tx'[p]}
    /\ UNCHANGED <<root, attempt, orphans, calls, history>>

\* The callback runs on the view; it may refuse, which ends the call.
WriteTx(p) ==
    /\ pc[p] = "write"
    /\ \/ TxWriteOk(p, "cas")
       \/ TxWriteFails(p)
       \/ Return(p, "callback") /\ UNCHANGED <<tx, minted, txRecords>>
    /\ UNCHANGED <<root, markers, attempt, orphans, calls, history>>

\* The header is the snapshot's with the version advanced and the transaction
\* named; the body is what the callback made of the snapshot's.
NextRoot(p) ==
    [token |-> root.token + 1,
     version |-> view[p].version + 1,
     tx |-> tx[p],
     body |-> Append(view[p].body, ThisCall(p))]

PutAlways(p) == TRUE  \* mutant: the put is unconditional

TokenMatches(p) == view[p].token = root.token

CASRoot(p) ==
    /\ pc[p] = "cas"
    /\ TokenMatches(p)
    /\ root' = NextRoot(p)
    /\ won' = won \cup {tx[p]}
    /\ Goto(p, "marker") \/ Goto(p, "casLost")
    /\ UNCHANGED <<txRecords, markers, view, attempt, tx, orphans, result, minted,
                   calls, start, acked>>

CASConflictAnyError(p) ==  \* mutant: every failed put is taken for a conflict
    /\ pc[p] \in {"cas", "casLost"}
    /\ orphans' = [orphans EXCEPT ![p] = @ \cup {tx[p]}]
    /\ \/ /\ attempt[p] < MaxRetries
          /\ attempt' = [attempt EXCEPT ![p] = @ + 1]
          /\ Goto(p, "read")
          /\ UNCHANGED <<result, view>>
       \/ /\ attempt[p] = MaxRetries
          /\ Return(p, "gaveup")
          /\ UNCHANGED attempt
    /\ UNCHANGED <<store, tx, minted, calls, history>>

CASConflictOneMore(p) ==  \* mutant: the loop bound is off by one
    /\ pc[p] = "cas" /\ ~TokenMatches(p)
    /\ orphans' = [orphans EXCEPT ![p] = @ \cup {tx[p]}]
    /\ attempt[p] <= MaxRetries
    /\ attempt' = [attempt EXCEPT ![p] = @ + 1]
    /\ Goto(p, "read")
    /\ UNCHANGED <<store, view, tx, result, minted, calls, history>>

\* ErrVersionMismatch: the attempt's transaction counts as an orphan, and the
\* loop goes round again while the budget lasts.
CASConflict(p) ==
    /\ \/ pc[p] = "cas"
       \/ pc[p] = "casLost" /\ ProviderRetries
    /\ ~TokenMatches(p)
    /\ orphans' = [orphans EXCEPT ![p] = @ \cup {tx[p]}]
    /\ \/ /\ attempt[p] < MaxRetries
          /\ attempt' = [attempt EXCEPT ![p] = @ + 1]
          /\ Goto(p, "read")
          /\ UNCHANGED <<result, view>>
       \/ /\ attempt[p] = MaxRetries
          /\ Return(p, "gaveup")
          /\ UNCHANGED attempt
    /\ UNCHANGED <<store, tx, minted, calls, history>>

WriteMarker(p) ==
    /\ pc[p] = "marker"
    /\ markers' \in {markers, markers \cup {tx[p]}}
    /\ Return(p, "ok")
    /\ acked' = acked \cup {ThisCall(p)}
    /\ UNCHANGED <<root, txRecords, attempt, tx, orphans, minted, calls,
                   start, won>>

-----------------------------------------------------------------------------
\* The context is examined before the read (or during the backoff that
\* precedes it), after the callback and before the conditional put.
Cancel(p) ==
    /\ pc[p] \in {"read", "write", "cas"}
    /\ Return(p, "canceled")
    /\ UNCHANGED <<store, attempt, tx, orphans, minted, calls, history>>

\* A storage operation fails: a read, or a put that did not happen, or a put
\* that did and whose reply never came back.
StorageError(p) ==
    /\ pc[p] \in {"read", "cas", "casLost", "createRoot", "createLost"}
    /\ Return(p, "error")
    /\ orphans' = [orphans EXCEPT ![p] =
                     IF pc[p] \in {"cas", "casLost"} THEN @ \cup {tx[p]} ELSE @]
    /\ UNCHANGED <<store, attempt, tx, minted, calls, history>>

\* The process dies; a later call of p is made by its successor.
Crash(p) ==
    /\ pc[p] # "idle"
    /\ Return(p, "crashed")
    /\ UNCHANGED <<store, attempt, tx, orphans, minted, calls, history>>

Step(p) ==
    \/ CreateTx(p) \/ CreateRoot(p) \/ CreateExists(p) \/ CreateMarker(p)
    \/ ReadRoot(p) \/ WriteTx(p) \/ CASRoot(p) \/ CASConflict(p) \/ WriteMarker(p)

\* A request whose reply was lost times out.
TimesOut(p) == pc[p] \in {"casLost", "createLost"} /\ StorageError(p)

\* Every process has made its calls.
Finished ==
    /\ \A p \in Writers : pc[p] = "idle" /\ calls[p] = MaxCalls
    /\ UNCHANGED vars

Next ==
    \/ \E p \in Writers :
          \/ BeginCreate(p) \/ BeginCommit(p) \/ Step(p)
          \/ StorageError(p) \/ Cancel(p) \/ Crash(p)
    \/ Finished

Spec == Init /\ [][Next]_vars

\* A started call keeps running: the Go scheduler runs its goroutine and every
\* storage request is answered or times out.  No error and no cancellation is
\* counted on to end a call.
FairSpec == Spec /\ \A p \in Writers : WF_vars(Step(p) \/ TimesOut(p))

-----------------------------------------------------------------------------
TypeOK ==
    /\ root \in Roots
    /\ txRecords \subseteq TxIds
    /\ markers \subseteq TxIds
    /\ pc \in [Writers -> PCs]
    /\ view \in [Writers -> Roots]
    /\ attempt \in [Writers -> 1..MaxRetries]
    /\ tx \in [Writers -> TxIds]
    /\ orphans \in [Writers -> SUBSET TxIds]
    /\ result \in [Writers -> Results]
    /\ minted \in [Writers -> Nat]
    /\ calls \in [Writers -> 0..MaxCalls]
    /\ start \in [Writers -> Nat]
    /\ acked \subseteq Calls
    /\ won \subseteq TxIds

Applied == {root.body[i] : i \in 1..Len(root.body)}

\* A commit that returned a transaction id is in the current root, whatever
\* the writers that came after it did: no acknowledged update is lost.
AckedIsDurable == acked \subseteq Applied

\* Every transaction that ever was latest_tx has its record: the record is
\* written before the root names it (the ordering Create and Commit document).
WonHasRecord == won \subseteq txRecords

\* A .commit marker exists only next to a transaction that won its
\* compare-and-swap, which is what lets the garbage collector keep the records
\* that have one and collect the ones that do not.
MarkerMeansWon == markers \subseteq won

\* manifest_version, which each writer computes from its own snapshot, counts
\* the successful puts of the root object: no version is skipped or reused.
VersionCountsWrites == root.version = root.token

\* A writer runs out of attempts only after as many other versions of the root
\* have landed since its call began: conflicts are never spurious, so some
\* writer always makes progress.
GaveUpMeansContention ==
    \A p \in Writers : result[p] = "gaveup" => root.version >= start[p] + MaxRetries

\* Each change of the root extends the body it replaces and advances the
\* version by one, except for the creation of the root.
RootOnlyGrows ==
    [][root.version # 0 =>
         /\ root'.version = root.version + 1
         /\ SubSeq(root'.body, 1, Len(root.body)) = root.body
         /\ Len(root'.body) = Len(root.body) + 1]_root

\* "Lost attempts leave orphan tx records": an id that Commit lists in
\* OrphanTxIDs after running out of attempts was never the id of a root.
OrphansNeverWon ==
    \A p \in Writers : result[p] = "gaveup" => orphans[p] \cap won = {}

\* Every call returns.
CallsReturn == \A p \in Writers : (pc[p] # "idle") ~> (pc[p] = "idle")

(***************************************************************************)
(* The inductive invariant behind the safety properties.                   *)
(***************************************************************************)
\* A snapshot never runs ahead of the root, and one that carries the root's
\* token is the root: this is what makes a matching token a proof that nothing
\* was committed in between.
SnapshotIsCurrentOrStale ==
    \A p \in Writers : pc[p] \in {"write", "cas", "casLost"} =>
        /\ view[p].version = view[p].token
        /\ view[p].version # 0
        /\ view[p].token <= root.token
        /\ view[p].token = root.token => view[p] = root

\* The record exists from the moment the attempt can reach its put.
RecordBeforePut ==
    \A p \in Writers :
        pc[p] \in {"cas", "casLost", "marker", "createRoot", "createLost", "createMarker"}
            => tx[p] \in txRecords

\* A process about to write its marker has won, and its effect is in the root.
MarkerFollowsWin ==
    \A p \in Writers :
        /\ pc[p] \in {"marker", "createMarker"} => tx[p] \in won
        /\ pc[p] = "marker" => ThisCall(p) \in Applied

\* Each conflict so far was paid for by a new version of the root.
AttemptsArePaidFor ==
    \A p \in Writers :
        /\ pc[p] = "read" => root.version + 1 >= start[p] + attempt[p]
        /\ pc[p] \in {"write", "cas", "casLost"} =>
              view[p].version + 1 >= start[p] + attempt[p]

AbsentIsEmpty == root.version = 0 => root.body = << >>

IInv ==
    /\ TypeOK
    /\ VersionCountsWrites /\ AbsentIsEmpty
    /\ SnapshotIsCurrentOrStale
    /\ RecordBeforePut /\ WonHasRecord
    /\ MarkerFollowsWin /\ MarkerMeansWon
    /\ AckedIsDurable
    /\ AttemptsArePaidFor /\ GaveUpMeansContention

(***************************************************************************)
(* RepoCommit implements AtomicCommit when the adapter does not resend     *)
(* puts.                                                                   *)
(***************************************************************************)
AbsPhase(p) ==
    CASE pc[p] \in {"read", "write", "cas"} -> "pending"
      [] pc[p] \in {"casLost", "marker"} -> "applied"
      [] OTHER -> "idle"

AbsOutcome(p) ==
    CASE calls[p] = 0 \/ result[p] = "none" -> "none"
      [] result[p] = "ok" -> "ok"
      [] result[p] \in NoEffect -> "noeffect"
      [] OTHER -> "unknown"

Abs == INSTANCE AtomicCommit WITH
    log <- root.body,
    phase <- [p \in Writers |-> AbsPhase(p)],
    outcome <- [p \in Writers |-> AbsOutcome(p)]

AtomicCommitSpec == Abs!Spec
=============================================================================
