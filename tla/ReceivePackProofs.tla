-------------------------- MODULE ReceivePackProofs --------------------------
(***************************************************************************)
(* Proofs about ReceivePack: the inductive invariant IInv and the safety   *)
(* properties that follow from it, for any number of gateways, requests,   *)
(* refs and commits, with crashes and storage errors.                      *)
(***************************************************************************)
EXTENDS ReceivePack, FiniteSetTheorems, TLAPS

USE HomeAssumption, NameAssumption

\* What is true of one request, by where it is.
Writing == {"apply", "build", "commit", "readback"}

RequestInv(p) ==
    \* It holds the mirror's lock where the code does.
    /\ pc[p] \in Writing \cup {"export", "seal"} => writer[Home[p]] = p
    /\ pc[p] \in Writing => p \in Pushes
    \* It has no answer and, before the put, no commit.
    /\ pc[p] # "done" => verdict[p] = "none"
    /\ pc[p] \notin {"readback", "done"} => p \notin committed
    \* The old values were checked on the root of version pre.
    /\ pc[p] \in {"apply", "build", "commit"} =>
          /\ loc[p].pre <= root.ver
          /\ loc[p].pre = root.ver => Precheck(root.refs, loc[p].adv, loc[p].ups)
    /\ pc[p] = "apply" => loc[p].todo \subseteq Named(loc[p].ups)
    \* The body was built on the root of version start and is closed.
    /\ pc[p] = "commit" =>
          /\ loc[p].pre <= loc[p].start /\ loc[p].start <= root.ver
          /\ loc[p].start = root.ver => loc[p].refs = Effective(root.refs, loc[p].ups)
          /\ ReachOf(loc[p].refs) \subseteq loc[p].objs
    \* A commit that raced has skipped a version.
    /\ pc[p] = "readback" =>
          /\ p \in committed
          /\ loc[p].pre + 1 <= root.ver
          /\ loc[p].pre + 1 = root.ver => p \notin stomped
    \* Events are enqueued for commits that did not race; without an event,
    \* only a failed read-back says ok.
    /\ p \in notified => verdict[p] = "ok" /\ p \notin stomped
    /\ verdict[p] = "ok" => p \in committed /\ (p \in notified \/ StorageErrors)

IInv ==
    /\ TypeOK
    /\ root.ver = 1 + Cardinality(committed)
    /\ stomped \subseteq committed
    /\ RootClosed
    /\ \A p \in Requests : RequestInv(p)

-----------------------------------------------------------------------------
\* The values the actions store have the types the invariant names.
LEMMA HomeType == \A p \in Requests : Home[p] \in Gateways
  BY DEF Requests

LEMMA VersionType == Cardinality(Pushes) \in Nat /\ {0, 1} \subseteq Versions /\ Versions \subseteq Nat
  BY PushesAssumption, FS_CardinalityType DEF Versions

LEMMA NoRefsType == NoRefs \in RefMaps /\ NoUpdate \in Updates
  BY DEF NoRefs, RefMaps, Tips, NoUpdate, Updates

LEMMA BlankType == Blank \in Locals
  BY VersionType, NoRefsType DEF Blank, Locals

LEMMA LocalFields ==
  ASSUME NEW l \in Locals
  PROVE  /\ l.adv \in RefMaps /\ l.ups \in Updates /\ l.refs \in RefMaps
         /\ l.want \in Versions /\ l.pre \in Versions /\ l.start \in Versions
         /\ l.todo \subseteq Refs /\ l.objs \subseteq Commits
  BY DEF Locals

LEMMA RootFields ==
  ASSUME TypeOK
  PROVE  root.ver \in Versions /\ root.refs \in RefMaps /\ root.objs \subseteq Commits
  BY DEF TypeOK, Roots

LEMMA BareFields ==
  ASSUME TypeOK, NEW g \in Gateways
  PROVE  bare[g] \in Bares /\ bare[g].refs \in RefMaps /\ bare[g].objs \subseteq Commits
  BY DEF TypeOK, Bares

LEMMA BareObjects ==
  ASSUME TypeOK, NEW g \in Gateways, NEW S \in SUBSET Commits
  PROVE  [bare EXCEPT ![g].objs = @ \cup S] \in [Gateways -> Bares]
<1>1. [bare[g] EXCEPT !.objs = @ \cup S] \in Bares
  BY DEF TypeOK, Bares
<1> QED
  BY <1>1 DEF TypeOK

LEMMA BareRef ==
  ASSUME TypeOK, NEW g \in Gateways, NEW r \in Refs, NEW t \in Tips
  PROVE  [bare EXCEPT ![g].refs[r] = t] \in [Gateways -> Bares]
<1>1. [bare[g].refs EXCEPT ![r] = t] \in RefMaps
  BY BareFields DEF RefMaps
<1>2. [bare[g] EXCEPT !.refs = [bare[g].refs EXCEPT ![r] = t]] \in Bares
  BY <1>1 DEF TypeOK, Bares
<1> QED
  BY <1>2 DEF TypeOK

LEMMA ReachType == ASSUME NEW m \in RefMaps PROVE ReachOf(m) \subseteq Commits
  BY ReachAssumption DEF ReachOf, RefMaps, Tips

LEMMA EffectiveType ==
  ASSUME NEW refs \in RefMaps, NEW ups \in Updates
  PROVE  Effective(refs, ups) \in RefMaps
  BY DEF Effective, RefMaps, Updates, Tips

LEMMA SentType ==
  ASSUME NEW adv \in RefMaps, NEW ups \in Updates
  PROVE  Sent(adv, ups) \subseteq Commits
  BY ReachAssumption DEF Sent, Needed, Named, Updates, Tips

\* A put that takes effect counts one more push and one more version.
LEMMA CommitCounts ==
  ASSUME IInv, NEW p \in Requests, pc[p] = "commit", Commit(p)
  PROVE  /\ root' \in Roots
         /\ root'.ver = root.ver + 1
         /\ root'.ver = 1 + Cardinality(committed')
         /\ committed' \subseteq Pushes
         /\ stomped' \subseteq committed'
<1>1. p \in Pushes /\ p \notin committed /\ committed \subseteq Pushes
  BY DEF IInv, RequestInv, Writing, TypeOK
<1>2. committed' = committed \cup {p} /\ committed' \subseteq Pushes
  BY <1>1 DEF Commit
<1>3. IsFiniteSet(committed) /\ IsFiniteSet(committed')
  BY <1>1, <1>2, PushesAssumption, FS_Subset
<1>4. Cardinality(committed') = Cardinality(committed) + 1
  BY <1>1, <1>2, <1>3, FS_AddElement
<1>5. /\ Cardinality(committed') <= Cardinality(Pushes)
      /\ Cardinality(committed) \in Nat /\ Cardinality(committed') \in Nat
  BY <1>2, <1>3, PushesAssumption, FS_Subset, FS_CardinalityType
<1>6. root.ver \in Versions /\ root.ver = 1 + Cardinality(committed) /\ loc[p] \in Locals
  BY RootFields DEF IInv, TypeOK
<1>7. loc[p].refs \in RefMaps /\ loc[p].objs \subseteq Commits
  BY <1>6, LocalFields
<1>8. root' = [ver |-> root.ver + 1, refs |-> loc[p].refs, objs |-> loc[p].objs]
  BY DEF Commit
<1>9. root.ver + 1 \in Versions
  BY <1>4, <1>5, <1>6, VersionType DEF Versions
<1>10. root' \in Roots
  BY <1>7, <1>8, <1>9 DEF Roots
<1>11. stomped' \subseteq committed'
  BY <1>2 DEF Commit, IInv
<1> QED
  BY <1>2, <1>4, <1>5, <1>6, <1>8, <1>10, <1>11

\* The initial state satisfies the inductive invariant.
LEMMA IInvInit == Init => IInv
<1> SUFFICES ASSUME Init PROVE IInv
  OBVIOUS
<1>1. root \in Roots
  <2>1. \A c \in Commits : [NoRefs EXCEPT ![DefaultBranch] = c] \in RefMaps /\ Reach[c] \subseteq Commits
    BY NoRefsType, ReachAssumption DEF RefMaps, Tips
  <2> QED
    BY <2>1, VersionType, NoRefsType DEF Init, Roots
<1>2. TypeOK
  <2>1. NoBare \in Bares
    BY NoRefsType DEF NoBare, Bares
  <2> QED
    BY <1>1, <2>1, VersionType, BlankType DEF Init, TypeOK, Labels, Verdicts
<1>3. root.ver = 1 + Cardinality(committed)
  BY FS_EmptySet DEF Init
<1>4. RootClosed
  <2>1. ReachOf(NoRefs) = {}
    BY DEF ReachOf, NoRefs
  <2>2. ASSUME NEW c \in Commits PROVE ReachOf([NoRefs EXCEPT ![DefaultBranch] = c]) \subseteq Reach[c]
    BY DEF ReachOf, NoRefs
  <2> QED
    BY <2>1, <2>2 DEF Init, RootClosed
<1>5. \A p \in Requests : RequestInv(p)
  BY DEF Init, RequestInv, Writing
<1> QED
  BY <1>2, <1>3, <1>4, <1>5 DEF IInv, Init

-----------------------------------------------------------------------------
\* Every action keeps the state well typed; the commit alone needs more than
\* the types, for the bound on versions.
LEMMA TypeStep == IInv /\ [Next]_vars => TypeOK'
<1> SUFFICES ASSUME IInv, [Next]_vars PROVE TypeOK'
  OBVIOUS
<1>t. TypeOK
  BY DEF IInv
<1>r. root.ver \in Versions /\ root.refs \in RefMaps /\ root.objs \subseteq Commits
  BY <1>t, RootFields
<1>b. NoBare \in Bares /\ [NoBare EXCEPT !.here = TRUE] \in Bares
  BY NoRefsType DEF NoBare, Bares
<1>l. /\ Labels = {"idle", "open", "stale", "export", "seal", "opened", "apply", "build", "commit",
                   "readback", "done"}
      /\ Verdicts = {"none", "ok", "ng", "error", "served", "refused", "lost"}
  BY DEF Labels, Verdicts
<1> USE <1>t, <1>l, BlankType, VersionType, HomeType DEF mirrors, history, Goto, Set, Answer, Unlock, MarkStale, GiveUp
<1>1. ASSUME NEW p \in Requests, Advertise(p) PROVE TypeOK'
  <2>1. [Blank EXCEPT !.adv = root.refs] \in Locals
    BY <1>r DEF Locals
  <2> QED
    BY <1>1, <2>1 DEF Advertise, TypeOK
<1>2. ASSUME NEW p \in Requests, CheckCurrent(p) PROVE TypeOK'
  BY <1>2 DEF CheckCurrent, TypeOK
<1>3. ASSUME NEW p \in Requests, SyncLock(p) PROVE TypeOK'
  <2>1. [loc[p] EXCEPT !.want = root.ver] \in Locals
    BY <1>r DEF Locals, TypeOK
  <2> QED
    BY <1>3, <1>b, <2>1 DEF SyncLock, TypeOK
<1>4. ASSUME NEW p \in Requests, Export(p) PROVE TypeOK'
  <2>1. [here |-> TRUE, refs |-> root.refs, objs |-> root.objs] \in Bares
    BY <1>r DEF Bares
  <2> QED
    BY <1>4, <2>1 DEF Export, TypeOK
<1>5. ASSUME NEW p \in Requests, Seal(p) PROVE TypeOK'
  <2>1. loc[p].want \in Versions
    BY LocalFields DEF TypeOK
  <2> QED
    BY <1>5, <2>1 DEF Seal, TypeOK
<1>6. ASSUME NEW p \in Requests, ExportFails(p) PROVE TypeOK'
  <2> DEFINE some(S) == [r \in Refs |-> IF r \in S THEN root.refs[r] ELSE None]
  <2>1. \A S \in SUBSET Refs : [here |-> TRUE, refs |-> some(S), objs |-> root.objs] \in Bares
    BY <1>r DEF Bares, RefMaps, Tips
  <2>2. [here |-> TRUE, refs |-> root.refs, objs |-> root.objs] \in Bares
    BY <1>r DEF Bares
  <2>3. bare' \in [Gateways -> Bares]
    <3> HIDE DEF some
    <3>1. ASSUME NEW b \in Bares PROVE [bare EXCEPT ![Home[p]] = b] \in [Gateways -> Bares]
      BY DEF TypeOK
    <3>2. \/ bare' = bare
          \/ bare' = [bare EXCEPT ![Home[p]] = [NoBare EXCEPT !.here = TRUE]]
          \/ \E S \in SUBSET Refs :
                bare' = [bare EXCEPT ![Home[p]] = [here |-> TRUE, refs |-> some(S), objs |-> root.objs]]
          \/ bare' = [bare EXCEPT ![Home[p]] = [here |-> TRUE, refs |-> root.refs, objs |-> root.objs]]
      BY <1>6 DEF ExportFails, some
    <3>3. bare \in [Gateways -> Bares]
      BY DEF TypeOK
    <3>4. CASE \E S \in SUBSET Refs :
                bare' = [bare EXCEPT ![Home[p]] = [here |-> TRUE, refs |-> some(S), objs |-> root.objs]]
      BY <2>1, <3>1, <3>4, Zenon
    <3>5. CASE bare' = [bare EXCEPT ![Home[p]] = [NoBare EXCEPT !.here = TRUE]]
      BY <1>b, <3>1, <3>5, Zenon
    <3>6. CASE bare' = [bare EXCEPT ![Home[p]] = [here |-> TRUE, refs |-> root.refs, objs |-> root.objs]]
      BY <2>2, <3>1, <3>6, Zenon
    <3> QED
      BY <3>2, <3>3, <3>4, <3>5, <3>6, Zenon
  <2> QED
    BY <1>6, <2>3 DEF ExportFails, TypeOK
<1>7. ASSUME NEW p \in Requests, Admit(p) PROVE TypeOK'
  <2>1. PICK ups \in Requested(loc[p].adv), pack \in BOOLEAN :
          /\ bare' = IF pack THEN [bare EXCEPT ![Home[p]].objs = @ \cup Sent(loc[p].adv, ups)] ELSE bare
          /\ loc' = [loc EXCEPT ![p] = [loc[p] EXCEPT !.ups = ups, !.todo = Named(ups), !.pre = root.ver]]
    BY <1>7 DEF Admit
  <2>2. ups \in Updates /\ loc[p] \in Locals
    BY DEF Requested, TypeOK
  <2>3. [loc[p] EXCEPT !.ups = ups, !.todo = Named(ups), !.pre = root.ver] \in Locals
    BY <1>r, <2>2 DEF Locals, Named
  <2>4. Sent(loc[p].adv, ups) \subseteq Commits
    BY <2>2, LocalFields, SentType
  <2>5. bare' \in [Gateways -> Bares]
    BY <2>1, <2>4, BareObjects DEF TypeOK, Requests
  <2> QED
    BY <1>7, <2>1, <2>3, <2>5 DEF Admit, TypeOK
<1>8. ASSUME NEW p \in Requests, Refuse(p) PROVE TypeOK'
  <2>1. \A ups \in Requested(loc[p].adv) : Sent(loc[p].adv, ups) \subseteq Commits
    BY LocalFields, SentType DEF Requested, TypeOK
  <2>2. bare' \in [Gateways -> Bares]
    BY <1>8, <2>1 DEF Refuse, TypeOK, Bares
  <2> QED
    BY <1>8, <2>2 DEF Refuse, TypeOK
<1>9. ASSUME NEW p \in Requests, ApplyRef(p) PROVE TypeOK'
  <2>1. PICK r \in loc[p].todo :
          /\ bare' = [bare EXCEPT ![Home[p]].refs[r] = loc[p].ups[r]]
          /\ loc' = [loc EXCEPT ![p] = [loc[p] EXCEPT !.todo = @ \ {r}]]
          /\ pc' = [pc EXCEPT ![p] = IF loc[p].todo = {r} THEN "build" ELSE "apply"]
    BY <1>9 DEF ApplyRef
  <2>2. [loc[p] EXCEPT !.todo = @ \ {r}] \in Locals
    BY DEF Locals, TypeOK
  <2>3. r \in Refs /\ loc[p].ups[r] \in Tips
    <3>1. loc[p].todo \subseteq Named(loc[p].ups) /\ loc[p].ups \in Updates
      BY <1>9, LocalFields DEF ApplyRef, IInv, RequestInv, TypeOK
    <3> QED
      BY <3>1 DEF Named, Updates
  <2>4. bare' \in [Gateways -> Bares]
    BY <2>1, <2>3, BareRef
  <2> QED
    BY <1>9, <2>1, <2>2, <2>4 DEF ApplyRef, TypeOK
<1>10. ASSUME NEW p \in Requests, ApplyFails(p) PROVE TypeOK'
  BY <1>10 DEF ApplyFails, TypeOK
<1>11. ASSUME NEW p \in Requests, Build(p) PROVE TypeOK'
  <2> DEFINE eff == Effective(root.refs, loc[p].ups)
             objs == IF eff = NoRefs THEN {} ELSE ReachOf(bare[Home[p]].refs)
  <2>1. loc[p] \in Locals /\ bare[Home[p]].refs \in RefMaps
    BY BareFields DEF TypeOK, Requests
  <2>2. eff \in RefMaps /\ objs \subseteq Commits
    BY <1>r, <2>1, LocalFields, EffectiveType, ReachType
  <2>3. [loc[p] EXCEPT !.start = root.ver, !.refs = eff, !.objs = objs] \in Locals
    <3> HIDE DEF eff, objs
    <3> QED
      BY <1>r, <2>1, <2>2 DEF Locals
  <2> QED
    BY <1>11, <2>3 DEF Build, TypeOK
<1>12. ASSUME NEW p \in Requests, BuildFails(p) PROVE TypeOK'
  BY <1>12 DEF BuildFails, TypeOK
<1>13. ASSUME NEW p \in Requests, Put(p) PROVE TypeOK'
  <2>1. root' \in Roots /\ committed' \subseteq Pushes /\ stomped' \subseteq Pushes
    BY <1>13, CommitCounts DEF Put
  <2> QED
    BY <1>13, <2>1 DEF Put, TypeOK
<1>14. ASSUME NEW p \in Requests, PutFails(p) PROVE TypeOK'
  <2>1. root' \in Roots /\ committed' \subseteq Pushes /\ stomped' \subseteq Pushes
    BY <1>14, CommitCounts DEF PutFails, TypeOK
  <2> QED
    BY <1>14, <2>1 DEF PutFails, TypeOK
<1>15. ASSUME NEW p \in Requests, ReadBack(p) PROVE TypeOK'
  <2>1. p \in Pushes
    BY <1>15 DEF ReadBack, IInv, RequestInv, Writing
  <2> QED
    BY <1>15, <2>1 DEF ReadBack, TypeOK
<1>16. ASSUME NEW p \in Requests, ReadBackFails(p) PROVE TypeOK'
  BY <1>16 DEF ReadBackFails, TypeOK
<1>17. ASSUME NEW p \in Requests, Serve(p) PROVE TypeOK'
  BY <1>17 DEF Serve, TypeOK
<1>18. ASSUME NEW g \in Gateways, Crash(g) PROVE TypeOK'
  BY <1>18 DEF Crash, TypeOK
<1>19. CASE UNCHANGED vars
  BY <1>19 DEF vars, TypeOK
<1> QED
  BY <1>1, <1>2, <1>3, <1>4, <1>5, <1>6, <1>7, <1>8, <1>9, <1>10, <1>11, <1>12, <1>13,
     <1>14, <1>15, <1>16, <1>17, <1>18, <1>19 DEF Next, Step, Open, Push, Idle

-----------------------------------------------------------------------------
\* A request's step leaves the locals, the answer and the history of the
\* others alone, and takes only a lock that is free or its own.
LEMMA StepFrame ==
  ASSUME IInv, NEW p \in Requests, Step(p), NEW q \in Requests, q # p
  PROVE  /\ pc'[q] = pc[q] /\ loc'[q] = loc[q] /\ verdict'[q] = verdict[q]
         /\ writer[Home[q]] = q => writer'[Home[q]] = q
         /\ q \in committed' <=> q \in committed
         /\ q \in stomped' <=> q \in stomped
         /\ q \in notified' <=> q \in notified
         /\ root' = root \/ (root'.ver = root.ver + 1)
<1>t. /\ TypeOK
      /\ pc[p] \in {"export", "seal", "apply", "build", "commit", "readback"} => writer[Home[p]] = p
  BY DEF IInv, RequestInv, Writing
<1>n. q # None /\ Home[p] \in Gateways /\ Home[q] \in Gateways
  BY HomeType DEF Requests
<1>c. ASSUME pc[p] = "commit", Commit(p) PROVE root'.ver = root.ver + 1
  BY <1>c, CommitCounts
<1>1. pc'[q] = pc[q] /\ loc'[q] = loc[q] /\ verdict'[q] = verdict[q]
  <2> USE <1>t DEF TypeOK, Goto, Set, Answer, GiveUp
  <2>1. CASE Open(p)
    BY <2>1 DEF Open, Advertise, CheckCurrent, SyncLock, Export, Seal, ExportFails
  <2>2. CASE Admit(p) \/ Refuse(p) \/ ApplyRef(p) \/ ApplyFails(p)
    BY <2>2 DEF Admit, Refuse, ApplyRef, ApplyFails
  <2>3. CASE Build(p) \/ BuildFails(p) \/ Put(p) \/ PutFails(p)
    BY <2>3 DEF Build, BuildFails, Put, PutFails
  <2>4. CASE ReadBack(p) \/ ReadBackFails(p) \/ Serve(p)
    BY <2>4 DEF ReadBack, ReadBackFails, Serve
  <2> QED
    BY <2>1, <2>2, <2>3, <2>4 DEF Step, Push
<1>2. \/ writer' = writer
      \/ /\ writer[Home[p]] \in {None, p}
         /\ \E x \in Requests \cup {None} : writer' = [writer EXCEPT ![Home[p]] = x]
  <2> USE <1>t DEF Unlock, GiveUp, Free, mirrors
  <2>1. CASE Open(p)
    BY <2>1 DEF Open, Advertise, CheckCurrent, SyncLock, Export, Seal, ExportFails
  <2>2. CASE Admit(p) \/ Refuse(p) \/ ApplyRef(p) \/ ApplyFails(p)
    BY <2>2 DEF Admit, Refuse, ApplyRef, ApplyFails
  <2>3. CASE Build(p) \/ BuildFails(p) \/ Put(p) \/ PutFails(p)
    BY <2>3 DEF Build, BuildFails, Put, PutFails
  <2>4. CASE ReadBack(p) \/ ReadBackFails(p) \/ Serve(p)
    BY <2>4 DEF ReadBack, ReadBackFails, Serve
  <2> QED
    BY <2>1, <2>2, <2>3, <2>4 DEF Step, Push
<1>3. writer[Home[q]] = q => writer'[Home[q]] = q
  BY <1>2, <1>n, <1>t DEF TypeOK
<1>4. \/ UNCHANGED <<root, committed, stomped>>
      \/ pc[p] = "commit" /\ Commit(p)
  <2>1. CASE Open(p)
    BY <2>1 DEF Open, Advertise, CheckCurrent, SyncLock, Export, Seal, ExportFails, history
  <2>2. CASE Push(p)
    BY <2>2 DEF Push, Admit, Refuse, ApplyRef, ApplyFails, Build, BuildFails, Put, PutFails,
       ReadBack, ReadBackFails, history
  <2>3. CASE Serve(p)
    BY <2>3 DEF Serve, history
  <2> QED
    BY <2>1, <2>2, <2>3 DEF Step
<1>5. notified' \in {notified, notified \cup {p}}
  <2>1. CASE Open(p)
    BY <2>1 DEF Open, Advertise, CheckCurrent, SyncLock, Export, Seal, ExportFails, history
  <2>2. CASE Push(p)
    BY <2>2 DEF Push, Admit, Refuse, ApplyRef, ApplyFails, Build, BuildFails, Put, PutFails,
       ReadBack, ReadBackFails, history
  <2>3. CASE Serve(p)
    BY <2>3 DEF Serve, history
  <2> QED
    BY <2>1, <2>2, <2>3 DEF Step
<1>6. /\ q \in committed' <=> q \in committed
      /\ q \in stomped' <=> q \in stomped
  BY <1>4 DEF Commit
<1> QED
  BY <1>1, <1>3, <1>4, <1>5, <1>6, <1>c

\* What is true of a request stays true when another one steps: a commit only
\* makes the versions it has read older.
LEMMA OthersKept ==
  ASSUME IInv, NEW p \in Requests, Step(p), NEW q \in Requests, q # p
  PROVE  RequestInv(q)'
<1>1. RequestInv(q) /\ TypeOK
  BY DEF IInv
<1>2. /\ pc'[q] = pc[q] /\ loc'[q] = loc[q] /\ verdict'[q] = verdict[q]
      /\ writer[Home[q]] = q => writer'[Home[q]] = q
      /\ q \in committed' <=> q \in committed
      /\ q \in stomped' <=> q \in stomped
      /\ q \in notified' <=> q \in notified
      /\ root' = root \/ (root'.ver = root.ver + 1)
  BY StepFrame
<1>3. root.ver \in Nat /\ loc[q].pre \in Nat /\ loc[q].start \in Nat
  BY <1>1, RootFields, LocalFields, VersionType DEF TypeOK
<1>4. CASE root' = root
  BY <1>1, <1>2, <1>4 DEF RequestInv
<1>5. CASE root'.ver = root.ver + 1
  <2>1. \A n \in Nat : n <= root.ver => n <= root'.ver /\ n # root'.ver
    BY <1>3, <1>5
  <2>2. loc[q].pre + 1 \in Nat
    BY <1>3
  <2> QED
    BY <1>1, <1>2, <1>3, <2>1, <2>2 DEF RequestInv
<1> QED
  BY <1>2, <1>4, <1>5

\* A pack of what the bare repository's refs reach is closed under ancestors,
\* so a body all of whose tips are in it is closed.
LEMMA PackedIsClosed ==
  ASSUME NEW b, b.refs \in RefMaps, NEW refs \in RefMaps, Packed(b, refs)
  PROVE  ReachOf(refs) \subseteq ReachOf(b.refs)
<1> SUFFICES ASSUME NEW c \in ReachOf(refs) PROVE c \in ReachOf(b.refs)
  OBVIOUS
<1>1. PICK r \in Refs : refs[r] # None /\ c \in Reach[refs[r]]
  BY DEF ReachOf
<1>2. PICK s \in Refs : b.refs[s] # None /\ refs[r] \in Reach[b.refs[s]]
  BY <1>1 DEF Packed, ReachOf
<1>3. b.refs[s] \in Commits
  BY <1>2 DEF RefMaps, Tips
<1>4. Reach[refs[r]] \subseteq Reach[b.refs[s]]
  BY <1>2, <1>3, ReachAssumption
<1> QED
  BY <1>1, <1>2, <1>4 DEF ReachOf

\* A step keeps what is true of the request that takes it.
LEMMA OwnKept ==
  ASSUME IInv, NEW p \in Requests, Step(p)
  PROVE  RequestInv(p)'
<1>1. RequestInv(p) /\ TypeOK
  BY DEF IInv
<1>2. /\ root.ver \in Nat /\ loc[p].pre \in Nat /\ loc[p].start \in Nat
      /\ loc[p] \in Locals /\ root.refs \in RefMaps /\ loc[p].ups \in Updates
      /\ Home[p] \in Gateways
  BY <1>1, RootFields, LocalFields, VersionType, HomeType DEF TypeOK
<1>a. ASSUME NEW v, Answer(p, v), v # "ok", pc[p] # "done", UNCHANGED notified PROVE RequestInv(p)'
  BY <1>1, <1>a DEF Answer, Goto, Set, RequestInv, TypeOK, Writing
<1> USE DEF Goto, Set, mirrors, history
<1>3. CASE Advertise(p) \/ CheckCurrent(p) \/ SyncLock(p) \/ Export(p) \/ Seal(p)
  BY <1>1, <1>2, <1>3 DEF Advertise, CheckCurrent, SyncLock, Export, Seal, RequestInv, TypeOK, Writing
<1>4. CASE ExportFails(p) \/ Refuse(p) \/ ApplyFails(p) \/ BuildFails(p) \/ PutFails(p) \/ Serve(p)
  BY <1>a, <1>4 DEF ExportFails, Refuse, ApplyFails, BuildFails, PutFails, Serve, GiveUp
<1>5. CASE Admit(p)
  <2>1. PICK ups \in Requested(loc[p].adv) :
          /\ Precheck(root.refs, loc[p].adv, ups)
          /\ loc' = [loc EXCEPT ![p] = [loc[p] EXCEPT !.ups = ups, !.todo = Named(ups), !.pre = root.ver]]
    BY <1>5 DEF Admit
  <2>2. /\ loc'[p].ups = ups /\ loc'[p].todo = Named(ups) /\ loc'[p].pre = root.ver
        /\ loc'[p].adv = loc[p].adv
    BY <1>1, <1>2, <2>1 DEF TypeOK, Locals
  <2>3. /\ pc'[p] = "apply" /\ writer'[Home[p]] = p /\ pc[p] = "opened" /\ p \in Pushes
        /\ UNCHANGED <<root, verdict, committed, stomped, notified>>
    BY <1>1, <1>2, <1>5 DEF Admit, TypeOK
  <2> QED
    BY <1>1, <1>2, <2>1, <2>2, <2>3 DEF RequestInv, Writing
<1>6. CASE ApplyRef(p)
  <2>1. PICK r \in loc[p].todo :
          /\ loc' = [loc EXCEPT ![p] = [loc[p] EXCEPT !.todo = @ \ {r}]]
          /\ pc' = [pc EXCEPT ![p] = IF loc[p].todo = {r} THEN "build" ELSE "apply"]
    BY <1>6 DEF ApplyRef
  <2>2. /\ loc'[p].ups = loc[p].ups /\ loc'[p].todo \subseteq loc[p].todo
        /\ loc'[p].pre = loc[p].pre /\ loc'[p].adv = loc[p].adv
    BY <1>1, <1>2, <2>1 DEF TypeOK, Locals
  <2>3. /\ pc'[p] \in {"apply", "build"} /\ pc[p] = "apply"
        /\ UNCHANGED <<root, writer, verdict, committed, stomped, notified>>
    BY <1>1, <1>6, <2>1 DEF ApplyRef, TypeOK
  <2> QED
    BY <1>1, <2>2, <2>3 DEF RequestInv, Writing
<1>7. CASE Build(p)
  <2> DEFINE eff == Effective(root.refs, loc[p].ups)
             objs == IF eff = NoRefs THEN {} ELSE ReachOf(bare[Home[p]].refs)
  <2>1. /\ loc' = [loc EXCEPT ![p] = [loc[p] EXCEPT !.start = root.ver, !.refs = eff, !.objs = objs]]
        /\ Packed(bare[Home[p]], eff)
        /\ pc[p] = "build" /\ pc' = [pc EXCEPT ![p] = "commit"]
        /\ UNCHANGED <<root, writer, verdict, committed, stomped, notified>>
    BY <1>7 DEF Build
  <2>2. eff \in RefMaps
    BY <1>2, EffectiveType
  <2>3. ReachOf(eff) \subseteq objs
    <3>1. bare[Home[p]].refs \in RefMaps
      BY <1>1, <1>2, BareFields
    <3>2. ReachOf(eff) \subseteq ReachOf(bare[Home[p]].refs)
      <4> HIDE DEF eff
      <4> QED
        BY <2>1, <2>2, <3>1, PackedIsClosed
    <3>3. ReachOf(NoRefs) = {}
      BY DEF ReachOf, NoRefs
    <3> QED
      BY <3>2, <3>3
  <2> HIDE DEF eff, objs
  <2>4. /\ loc'[p].start = root.ver /\ loc'[p].refs = eff /\ loc'[p].objs = objs
        /\ loc'[p].ups = loc[p].ups /\ loc'[p].pre = loc[p].pre /\ loc'[p].adv = loc[p].adv
    BY <1>1, <1>2, <2>1 DEF TypeOK, Locals
  <2>5. pc'[p] = "commit"
    BY <1>1, <2>1 DEF TypeOK
  <2> QED
    BY <1>1, <1>2, <2>1, <2>3, <2>4, <2>5 DEF RequestInv, Writing, eff
<1>8. CASE Put(p)
  <2>1. /\ pc[p] = "commit" /\ Commit(p) /\ pc'[p] = "readback"
        /\ UNCHANGED <<writer, loc, verdict, notified>>
    BY <1>1, <1>8 DEF Put, TypeOK
  <2>2. root'.ver = root.ver + 1 /\ root.ver = loc[p].start /\ p \in committed'
    BY <2>1, CommitCounts DEF Commit
  <2>3. loc[p].pre = root.ver => p \notin stomped'
    <3>1. ASSUME loc[p].pre = root.ver PROVE Precheck(root.refs, loc[p].adv, loc[p].ups)
      BY <1>1, <2>1, <3>1 DEF RequestInv
    <3>2. p \notin stomped
      BY <1>1, <2>1 DEF RequestInv, IInv
    <3> QED
      BY <2>1, <3>1, <3>2 DEF Commit, Precheck
  <2>4. loc[p].pre + 1 <= root'.ver /\ (loc[p].pre + 1 = root'.ver => loc[p].pre = root.ver)
    BY <1>1, <1>2, <2>1, <2>2 DEF RequestInv
  <2> QED
    BY <1>1, <2>1, <2>2, <2>3, <2>4 DEF RequestInv, Writing
<1>9. CASE ReadBack(p)
  <2> DEFINE raced == root.ver > loc[p].pre + 1
  <2>1. /\ pc[p] = "readback" /\ pc'[p] = "done"
        /\ verdict'[p] = IF raced THEN "ng" ELSE "ok"
        /\ notified' = IF raced THEN notified ELSE notified \cup {p}
        /\ UNCHANGED <<root, committed, stomped>>
    BY <1>1, <1>9 DEF ReadBack, GiveUp, Answer, TypeOK
  <2>2. ~raced => loc[p].pre + 1 = root.ver
    <3>1. loc[p].pre + 1 <= root.ver
      BY <1>1, <2>1 DEF RequestInv
    <3> QED
      BY <1>2, <3>1
  <2>3. p \notin notified
    BY <1>1, <2>1 DEF RequestInv
  <2> HIDE DEF raced
  <2> QED
    BY <1>1, <2>1, <2>2, <2>3 DEF RequestInv, Writing
<1>10. CASE ReadBackFails(p)
  <2>1. /\ pc[p] = "readback" /\ pc'[p] = "done" /\ verdict'[p] = "ok" /\ StorageErrors
        /\ UNCHANGED <<committed, stomped, notified>>
    BY <1>1, <1>10 DEF ReadBackFails, GiveUp, Answer, history, TypeOK
  <2>2. p \in committed /\ p \notin notified
    BY <1>1, <2>1 DEF RequestInv
  <2> QED
    BY <2>1, <2>2 DEF RequestInv, Writing
<1> QED
  BY <1>3, <1>4, <1>5, <1>6, <1>7, <1>8, <1>9, <1>10 DEF Step, Open, Push

-----------------------------------------------------------------------------
\* Every step keeps the root closed and its version the count of commits.
LEMMA RootKept ==
  ASSUME IInv, NEW p \in Requests, Step(p)
  PROVE  /\ root'.ver = 1 + Cardinality(committed')
         /\ stomped' \subseteq committed'
         /\ RootClosed'
<1>1. \/ UNCHANGED <<root, committed, stomped>>
      \/ pc[p] = "commit" /\ Commit(p)
  BY DEF Step, Open, Advertise, CheckCurrent, SyncLock, Export, Seal, ExportFails, Push, Admit,
     Refuse, ApplyRef, ApplyFails, Build, BuildFails, Put, PutFails, ReadBack, ReadBackFails,
     Serve, history
<1>2. CASE UNCHANGED <<root, committed, stomped>>
  BY <1>2 DEF IInv, RootClosed
<1>3. CASE pc[p] = "commit" /\ Commit(p)
  <2>1. ReachOf(loc[p].refs) \subseteq loc[p].objs
    BY <1>3 DEF IInv, RequestInv
  <2>2. root'.refs = loc[p].refs /\ root'.objs = loc[p].objs
    BY <1>3 DEF Commit
  <2> QED
    BY <1>3, <2>1, <2>2, CommitCounts DEF RootClosed
<1> QED
  BY <1>1, <1>2, <1>3

\* The death of a process keeps the inductive invariant: it ends its requests
\* and frees the lock that only they could hold.
LEMMA CrashKept ==
  ASSUME IInv, NEW g \in Gateways, Crash(g), NEW q \in Requests
  PROVE  RequestInv(q)'
<1>1. RequestInv(q) /\ TypeOK /\ Home[q] \in Gateways
  BY HomeType DEF IInv
<1>2. UNCHANGED <<root, committed, stomped, notified>>
  BY DEF Crash, history
<1>3. CASE Home[q] = g /\ pc[q] \notin {"idle", "done"}
  <2>1. pc'[q] = "done" /\ verdict'[q] = "lost" /\ q \notin notified
    BY <1>1, <1>3 DEF Crash, RequestInv
  <2> QED
    BY <1>2, <2>1 DEF RequestInv, Writing
<1>4. CASE Home[q] # g \/ pc[q] \in {"idle", "done"}
  <2>1. pc'[q] = pc[q] /\ loc'[q] = loc[q] /\ verdict'[q] = verdict[q]
    BY <1>4 DEF Crash
  <2>2. Home[q] # g => writer'[Home[q]] = writer[Home[q]]
    BY <1>1 DEF Crash, Unlock, TypeOK
  <2> QED
    BY <1>1, <1>2, <1>4, <2>1, <2>2 DEF RequestInv, Writing
<1> QED
  BY <1>3, <1>4

\* Every step preserves the inductive invariant.
LEMMA IInvStep == IInv /\ [Next]_vars => IInv'
<1> SUFFICES ASSUME IInv, [Next]_vars PROVE IInv'
  OBVIOUS
<1>1. TypeOK'
  BY TypeStep
<1>2. ASSUME NEW p \in Requests, Step(p) PROVE IInv'
  <2>1. \A q \in Requests : RequestInv(q)'
    BY <1>2, OthersKept, OwnKept
  <2> QED
    BY <1>1, <1>2, <2>1, RootKept DEF IInv
<1>3. ASSUME NEW g \in Gateways, Crash(g) PROVE IInv'
  <2>1. \A q \in Requests : RequestInv(q)'
    BY <1>3, CrashKept
  <2>2. UNCHANGED <<root, committed, stomped>>
    BY <1>3 DEF Crash, history
  <2> QED
    BY <1>1, <2>1, <2>2 DEF IInv, RootClosed
<1>4. CASE UNCHANGED vars
  BY <1>1, <1>4 DEF IInv, RequestInv, RootClosed, vars
<1> QED
  BY <1>2, <1>3, <1>4 DEF Next, Idle

\* The inductive invariant holds in every reachable state of ReceivePack.
THEOREM Invariance == Spec => []IInv
<1> QED
  BY IInvInit, IInvStep, PTL DEF Spec

\* The state of mirrors, requests and root is always well typed; a version
\* never exceeds the number of pushes (Repo.Commit counts every one).
THEOREM TypeCorrect == Spec => []TypeOK
<1>1. IInv => TypeOK
  BY DEF IInv
<1> QED
  BY Invariance, <1>1, PTL

\* BuildAndCommit never commits a root that names a commit its packs do not
\* hold, whatever crashes and failed pushes left in the bare repository.
THEOREM Closure == Spec => []RootClosed
<1>1. IInv => RootClosed
  BY DEF IInv
<1> QED
  BY Invariance, <1>1, PTL

\* completeReceivePack says ok only of a commit, and enqueues events only for
\* commits that replaced the values their client had seen.
THEOREM HonestAnswers == Spec => []OkMeansReplacedAsSeen
<1>1. IInv => OkMeansReplacedAsSeen
  BY DEF IInv, RequestInv, OkMeansReplacedAsSeen, Requests
<1> QED
  BY Invariance, <1>1, PTL

\* A commit moves the refs its push names and no other: the body it puts was
\* built on the root it replaces (the version check of the commit callback).
THEOREM OthersStay == Spec => OnlyNamedRefsMove
<1> DEFINE A == \A p \in committed' \ committed : \A r \in Refs :
                   loc[p].ups[r] = Keep => root'.refs[r] = root.refs[r]
<1>1. ASSUME IInv, [Next]_vars PROVE [A]_vars
  <2>1. ASSUME NEW q \in Requests, Step(q) PROVE A
    <3> SUFFICES ASSUME NEW p \in committed' \ committed, NEW r \in Refs, loc[p].ups[r] = Keep
                 PROVE  root'.refs[r] = root.refs[r]
      OBVIOUS
    <3>1. \/ UNCHANGED <<root, committed, stomped>>
          \/ pc[q] = "commit" /\ Commit(q)
      BY <2>1 DEF Step, Open, Advertise, CheckCurrent, SyncLock, Export, Seal, ExportFails, Push,
         Admit, Refuse, ApplyRef, ApplyFails, Build, BuildFails, Put, PutFails, ReadBack,
         ReadBackFails, Serve, history
    <3>2. pc[q] = "commit" /\ Commit(q) /\ p = q
      BY <3>1 DEF Commit
    <3>3. loc[p].refs = Effective(root.refs, loc[p].ups) /\ root'.refs = loc[p].refs
      BY <1>1, <2>1, <3>2 DEF IInv, RequestInv, Commit
    <3> QED
      BY <3>3 DEF Effective
  <2>2. ASSUME NEW g \in Gateways, Crash(g) PROVE A
    BY <2>2 DEF Crash, history
  <2>3. CASE UNCHANGED vars
    BY <2>3
  <2> QED
    BY <1>1, <2>1, <2>2, <2>3 DEF Next, Idle
<1> QED
  BY Invariance, <1>1, PTL DEF Spec, OnlyNamedRefsMove

-----------------------------------------------------------------------------
Outside(p) == \E q \in committed : Home[q] # Home[p]

\* Without commits through other gateways the lock keeps the root at the
\* version the old values were checked on.
SerialInv ==
    /\ \A p \in Requests :
          pc[p] \in {"apply", "build", "commit"} => loc[p].pre = root.ver \/ Outside(p)
    /\ StompedFromOutside

\* Every step keeps the checked version current, or comes from outside.
LEMMA SerialStep ==
  ASSUME IInv, SerialInv, [Next]_vars
  PROVE  SerialInv'
<1>t. TypeOK
  BY DEF IInv
<1>1. ASSUME NEW p \in Requests, Step(p) PROVE SerialInv'
  <2>0. RequestInv(p) /\ loc[p] \in Locals
    BY <1>t DEF IInv, TypeOK
  <2>1. \/ UNCHANGED <<root, committed, stomped>>
        \/ pc[p] = "commit" /\ Commit(p) /\ pc'[p] \in {"readback", "done"}
    <3> USE <1>t DEF TypeOK, Goto, Answer, GiveUp, history
    <3>1. CASE Put(p) \/ PutFails(p)
      BY <3>1 DEF Put, PutFails
    <3>2. CASE ~(Put(p) \/ PutFails(p))
      BY <1>1, <3>2 DEF Step, Open, Advertise, CheckCurrent, SyncLock, Export, Seal, ExportFails, Push,
         Admit, Refuse, ApplyRef, ApplyFails, Build, BuildFails, ReadBack, ReadBackFails, Serve
    <3> QED
      BY <3>1, <3>2
  <2>2. CASE UNCHANGED <<root, committed, stomped>>
    <3>1. pc'[p] \in {"apply", "build", "commit"} => loc'[p].pre = root.ver \/ Outside(p)
      <4> USE <1>t, <2>0 DEF TypeOK, Locals, Goto, Set, Answer, GiveUp, mirrors, history
      <4>1. CASE Open(p)
        BY <4>1 DEF Open, Advertise, CheckCurrent, SyncLock, Export, Seal, ExportFails
      <4>2. CASE Admit(p)
        <5>1. PICK ups \in Requested(loc[p].adv) :
                loc' = [loc EXCEPT ![p] = [loc[p] EXCEPT !.ups = ups, !.todo = Named(ups), !.pre = root.ver]]
          BY <4>2 DEF Admit
        <5> QED
          BY <5>1
      <4>3. CASE ApplyRef(p)
        <5>1. PICK r \in loc[p].todo : loc' = [loc EXCEPT ![p] = [loc[p] EXCEPT !.todo = @ \ {r}]]
          BY <4>3 DEF ApplyRef
        <5>2. loc'[p].pre = loc[p].pre /\ pc[p] = "apply"
          BY <4>3, <5>1 DEF ApplyRef
        <5> QED
          BY <5>2 DEF SerialInv
      <4>4. CASE Build(p)
        <5>1. loc'[p].pre = loc[p].pre /\ pc[p] = "build"
          BY <4>4 DEF Build
        <5> QED
          BY <5>1 DEF SerialInv
      <4>5. CASE Refuse(p) \/ ApplyFails(p) \/ BuildFails(p) \/ PutFails(p) \/ Put(p)
        BY <4>5 DEF Refuse, ApplyFails, BuildFails, PutFails, Put
      <4>6. CASE ReadBack(p) \/ ReadBackFails(p) \/ Serve(p)
        BY <4>6 DEF ReadBack, ReadBackFails, Serve
      <4> QED
        BY <1>1, <4>1, <4>2, <4>3, <4>4, <4>5, <4>6 DEF Step, Push
    <3>2. \A q \in Requests \ {p} : pc'[q] = pc[q] /\ loc'[q] = loc[q]
      BY <1>1, StepFrame
    <3> QED
      BY <2>2, <3>1, <3>2 DEF SerialInv, StompedFromOutside, Outside
  <2>3. CASE pc[p] = "commit" /\ Commit(p) /\ pc'[p] \in {"readback", "done"}
    <3>0. committed' = committed \cup {p}
      BY <2>3 DEF Commit
    <3>1. ASSUME ~Outside(p) PROVE stomped' = stomped
      <4>1. Precheck(root.refs, loc[p].adv, loc[p].ups)
        BY <2>0, <2>3, <3>1 DEF RequestInv, SerialInv
      <4> QED
        BY <2>3, <4>1 DEF Commit, Precheck
    <3>2. stomped' \in {stomped, stomped \cup {p}}
      BY <2>3 DEF Commit
    <3>3. StompedFromOutside'
      BY <3>0, <3>1, <3>2 DEF SerialInv, StompedFromOutside, Outside
    <3>4. ASSUME NEW q \in Requests, q # p, pc'[q] \in {"apply", "build", "commit"}
          PROVE  Outside(q)'
      <4>1. pc[q] \in {"apply", "build", "commit"}
        BY <1>1, <3>4, StepFrame
      <4>2. writer[Home[q]] = q /\ writer[Home[p]] = p
        BY <2>3, <4>1 DEF IInv, RequestInv, Writing
      <4> QED
        BY <3>0, <3>4, <4>2 DEF Outside
    <3> QED
      BY <2>3, <3>3, <3>4 DEF SerialInv
  <2> QED
    BY <2>1, <2>2, <2>3
<1>2. ASSUME NEW g \in Gateways, Crash(g) PROVE SerialInv'
  BY <1>2, <1>t DEF Crash, history, SerialInv, StompedFromOutside, Outside, TypeOK
<1>3. CASE UNCHANGED vars
  BY <1>3 DEF SerialInv, StompedFromOutside, Outside, vars
<1> QED
  BY <1>1, <1>2, <1>3 DEF Next, Idle

\* A push replaces a value its client never saw only where a push through
\* another gateway was committed: the mirror's lock, held from the check of the
\* old values to the commit (Service), keeps the pushes of one gateway apart,
\* also across crashes and storage errors.
THEOREM SerializedByLock == Spec => []StompedFromOutside
<1>1. Init => SerialInv
  BY DEF Init, SerialInv, StompedFromOutside
<1>2. IInv /\ SerialInv /\ [Next]_vars => SerialInv'
  BY SerialStep
<1>3. SerialInv => StompedFromOutside
  BY DEF SerialInv
<1> QED
  BY Invariance, <1>1, <1>2, <1>3, PTL DEF Spec

\* With one gateway there is no outside, and no such push.
COROLLARY OneGatewaySerializes ==
  ASSUME \A p, q \in Pushes : Home[p] = Home[q]
  PROVE  Spec => [](stomped = {})
<1>1. TypeOK /\ StompedFromOutside => stomped = {}
  BY DEF TypeOK, StompedFromOutside
<1> QED
  BY TypeCorrect, SerializedByLock, <1>1, PTL
=============================================================================
