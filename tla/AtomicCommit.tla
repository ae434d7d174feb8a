---------------------------- MODULE AtomicCommit ----------------------------
(***************************************************************************)
(* What internal/repo promises the callers of Repo.Commit, with the        *)
(* transaction record, the compare-and-swap and the retries hidden: a call *)
(* that is running takes effect at most once, at one instant, by extending *)
(* the history of the repository, and the value it returns says whether    *)
(* that happened:                                                          *)
(*   "ok"        it took effect;                                           *)
(*   "noeffect"  it did not (conflict budget spent, cancelled, refused);   *)
(*   "unknown"   the caller cannot tell (storage error, process death).    *)
(***************************************************************************)
EXTENDS Naturals, Sequences

CONSTANTS
    Writers,    \* processes that call Commit
    MaxCalls    \* bound on the calls one process makes

VARIABLES
    log,        \* the calls that took effect, oldest first
    phase,      \* where each process is: "idle", "pending" or "applied"
    outcome,    \* what its last call returned
    calls       \* number of calls it has made

vars == <<log, phase, outcome, calls>>

Outcomes == {"none", "ok", "noeffect", "unknown"}

Init ==
    /\ log = << >>
    /\ phase = [p \in Writers |-> "idle"]
    /\ outcome = [p \in Writers |-> "none"]
    /\ calls = [p \in Writers |-> 0]

Begin(p) ==
    /\ phase[p] = "idle"
    /\ calls[p] < MaxCalls
    /\ phase' = [phase EXCEPT ![p] = "pending"]
    /\ outcome' = [outcome EXCEPT ![p] = "none"]
    /\ calls' = [calls EXCEPT ![p] = @ + 1]
    /\ UNCHANGED log

TakeEffect(p) ==
    /\ phase[p] = "pending"
    /\ log' = Append(log, <<p, calls[p]>>)
    /\ phase' = [phase EXCEPT ![p] = "applied"]
    /\ UNCHANGED <<outcome, calls>>

Return(p, r) ==
    /\ \/ phase[p] = "pending" /\ r \in {"noeffect", "unknown"}
       \/ phase[p] = "applied" /\ r \in {"ok", "unknown"}
    /\ phase' = [phase EXCEPT ![p] = "idle"]
    /\ outcome' = [outcome EXCEPT ![p] = r]
    /\ UNCHANGED <<log, calls>>

Next == \E p \in Writers :
    \/ Begin(p)
    \/ TakeEffect(p)
    \/ \E r \in Outcomes : Return(p, r)

Spec == Init /\ [][Next]_vars
=============================================================================
