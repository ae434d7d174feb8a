------------------------------- MODULE RefMap -------------------------------
(***************************************************************************)
(* What the ref layer of a repository promises, whatever its layout: one   *)
(* flat map from ref names to object ids.  A push names the refs it        *)
(* changes; it takes effect in one step, on exactly the map it looked at,  *)
(* or not at all, and it is told "ok" only if it took effect.              *)
(***************************************************************************)
CONSTANTS Refnames, Oids, Pushers, None, Keep

VARIABLES refs, request, seen, status

vars == <<refs, request, seen, status>>

RefMaps == [Refnames -> Oids \cup {None}]
Updates == [Refnames -> Oids \cup {None, Keep}]
Apply(m, ups) == [r \in Refnames |-> IF ups[r] = Keep THEN m[r] ELSE ups[r]]

NoRefs == [r \in Refnames |-> None]
NoUpdate == [r \in Refnames |-> Keep]

Init ==
    /\ refs \in RefMaps
    /\ request = [p \in Pushers |-> NoUpdate]
    /\ seen = [p \in Pushers |-> NoRefs]
    /\ status = [p \in Pushers |-> "new"]

Begin(p) ==
    /\ status[p] = "new"
    /\ request'[p] \in Updates
    /\ request' = [request EXCEPT ![p] = request'[p]]
    /\ seen' = [seen EXCEPT ![p] = refs]
    /\ status' = [status EXCEPT ![p] = "pending"]
    /\ UNCHANGED refs

TakeEffect(p) ==
    /\ status[p] = "pending"
    /\ refs = seen[p]
    /\ refs' = Apply(refs, request[p])
    /\ status' = [status EXCEPT ![p] = "applied"]
    /\ UNCHANGED <<request, seen>>

Return(p, r) ==
    /\ status' = [status EXCEPT ![p] = r]
    /\ request' = [request EXCEPT ![p] = NoUpdate]
    /\ seen' = [seen EXCEPT ![p] = NoRefs]
    /\ UNCHANGED refs

Ack(p) == status[p] = "applied" /\ Return(p, "ok")

\* A push that took effect may still fail: its caller then does not know.
Fail(p) == status[p] \in {"new", "pending", "applied"} /\ Return(p, "failed")

Next == \E p \in Pushers : Begin(p) \/ TakeEffect(p) \/ Ack(p) \/ Fail(p)

Spec == Init /\ [][Next]_vars
=============================================================================
