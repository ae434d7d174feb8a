----------------------------- MODULE ReceivePack -----------------------------
(***************************************************************************)
(* Pushes and fetches through the gateways' mirrors                        *)
(* (internal/gitproto/receivepack, internal/mirror, internal/exporter,     *)
(* importer.BuildAndCommit, the mirror path of internal/gitproto/          *)
(* uploadpack).                                                            *)
(*                                                                         *)
(* Every gateway process keeps a bare repository on its disk, a cache of   *)
(* the root manifest, with a sentinel file that names the manifest version *)
(* it was exported from.  A request first brings the mirror up to date; a  *)
(* push then takes the mirror's write lock, checks the old values of its   *)
(* refs, changes the bare repository, packs it, commits a new root and     *)
(* removes the sentinel.  The lock is per process: pushes through other    *)
(* gateways meet only at the commit.                                       *)
(*                                                                         *)
(* Repo.Commit is one step (AtomicCommit).  Objects are commits with their *)
(* ancestors.  A request is made once.                                     *)
(***************************************************************************)
EXTENDS Naturals, FiniteSets

CONSTANTS
    Gateways,       \* processes, each with a mirror of its own
    Pushes, Fetches,
    Home,           \* function: the gateway a request goes to
    Refs, DefaultBranch,
    Commits,
    Reach,          \* function: a commit's ancestors and itself
    Rewrites,       \* whether pushes may move refs back, aside, or delete them
    Crashes,        \* whether gateway processes die and restart
    StorageErrors,  \* whether an export, the answer of a put or the read after it may fail
    None, Keep      \* no ref, no gateway; a ref the push does not name

ASSUME PushesAssumption == IsFiniteSet(Pushes)
ASSUME HomeAssumption == Home \in [Pushes \cup Fetches -> Gateways]
ASSUME ReachAssumption ==
    /\ Reach \in [Commits -> SUBSET Commits]
    /\ \A c \in Commits : c \in Reach[c] /\ \A d \in Reach[c] : Reach[d] \subseteq Reach[c]
ASSUME NameAssumption ==
    /\ DefaultBranch \in Refs
    /\ None \notin Commits \cup Pushes \cup Fetches
    /\ Keep \notin Commits \cup {None}
    /\ Pushes \cap Fetches = {}
ASSUME SwitchAssumption == Rewrites \in BOOLEAN /\ Crashes \in BOOLEAN /\ StorageErrors \in BOOLEAN

Tips == Commits \cup {None}
RefMaps == [Refs -> Tips]
NoRefs == [r \in Refs |-> None]
Updates == [Refs -> Tips \cup {Keep}]
NoUpdate == [r \in Refs |-> Keep]
ReachOf(m) == UNION {Reach[m[r]] : r \in {q \in Refs : m[q] # None}}

Requests == Pushes \cup Fetches
\* Every version but the first is a push's.
Versions == 0..(1 + Cardinality(Pushes))

Roots == [ver : Versions, refs : RefMaps, objs : SUBSET Commits]
Bares == [here : BOOLEAN, refs : RefMaps, objs : SUBSET Commits]
Labels == {"idle", "open", "stale", "export", "seal", "opened", "apply", "build", "commit",
           "readback", "done"}
Verdicts == {"none", "ok", "ng", "error", "served", "refused", "lost"}
NoBare == [here |-> FALSE, refs |-> NoRefs, objs |-> {}]

VARIABLES
    root,       \* the root manifest; objs: what the packs it lists hold
    bare,       \* per gateway: the bare repository
    sentinel,   \* per gateway: manifest_version.txt, 0 when there is none
    writer,     \* per gateway: the request that holds the mirror's write lock
    pc,
    loc,        \* per request: its local variables
    verdict,    \* per request: the answer the client got
    committed,  \* history: pushes whose root manifest was put
    stomped,    \* history: pushes that replaced a value they never saw
    notified    \* history: pushes whose events were enqueued

vars == <<root, bare, sentinel, writer, pc, loc, verdict, committed, stomped, notified>>
mirrors == <<bare, sentinel, writer>>
history == <<committed, stomped, notified>>

Blank == [adv |-> NoRefs, want |-> 0, ups |-> NoUpdate, todo |-> {},
          pre |-> 0, start |-> 0, refs |-> NoRefs, objs |-> {}]
Locals == [adv : RefMaps, want : Versions, ups : Updates, todo : SUBSET Refs,
           pre : Versions, start : Versions, refs : RefMaps, objs : SUBSET Commits]

Goto(p, l) == pc' = [pc EXCEPT ![p] = l]
Set(p, rec) == loc' = [loc EXCEPT ![p] = rec]

Answer(p, v) ==
    /\ Goto(p, "done")
    /\ Set(p, Blank)
    /\ verdict' = [verdict EXCEPT ![p] = v]

Free(g) == writer[g] = None
Unlock(g) == writer' = [writer EXCEPT ![g] = None]
\* markMirrorStale.
MarkStale(g) == sentinel' = [sentinel EXCEPT ![g] = 0]

\* A new repository, whose default branch is unborn, or an imported one.
Init ==
    /\ root \in [ver : {1}, refs : {NoRefs}, objs : {{}}]
         \cup {[ver |-> 1, refs |-> [NoRefs EXCEPT ![DefaultBranch] = c], objs |-> Reach[c]] :
                  c \in Commits}
    /\ bare = [g \in Gateways |-> NoBare]
    /\ sentinel = [g \in Gateways |-> 0]
    /\ writer = [g \in Gateways |-> None]
    /\ pc = [p \in Requests |-> "idle"]
    /\ loc = [p \in Requests |-> Blank]
    /\ verdict = [p \in Requests |-> "none"]
    /\ committed = {} /\ stomped = {} /\ notified = {}

-----------------------------------------------------------------------------
(***************************************************************************)
(* Manager.Open and SyncToCurrent.                                         *)
(***************************************************************************)
\* The client reads the refs: info/refs before a push, ls-refs before a fetch.
Advertise(p) ==
    /\ pc[p] = "idle"
    /\ Set(p, [Blank EXCEPT !.adv = root.refs])
    /\ Goto(p, "open")
    /\ UNCHANGED <<root, mirrors, verdict, history>>

Current(g) == bare[g].here /\ sentinel[g] = root.ver

CheckCurrentAlways(p) ==  \* mutant: an existing bare repository is good enough
    /\ pc[p] = "open" /\ Free(Home[p])
    /\ Goto(p, IF bare[Home[p]].here THEN "opened" ELSE "stale")
    /\ UNCHANGED <<root, mirrors, loc, verdict, history>>

\* checkCurrentRLocked: under the read lock the sentinel stands still, so its
\* comparison with the root is one step.
CheckCurrent(p) ==
    /\ pc[p] = "open" /\ Free(Home[p])
    /\ Goto(p, IF Current(Home[p]) THEN "opened" ELSE "stale")
    /\ UNCHANGED <<root, mirrors, loc, verdict, history>>

\* The slow path takes the write lock, reads the root again and wipes a bare
\* repository that is not current.
SyncLock(p) ==
    LET g == Home[p] IN
    /\ pc[p] = "stale" /\ Free(g)
    /\ IF Current(g)
       THEN Goto(p, "opened") /\ UNCHANGED <<mirrors, loc>>
       ELSE /\ writer' = [writer EXCEPT ![g] = p]
            /\ Set(p, [loc[p] EXCEPT !.want = root.ver])
            /\ bare' = [bare EXCEPT ![g] = NoBare]
            /\ MarkStale(g)
            /\ Goto(p, "export")
    /\ UNCHANGED <<root, verdict, history>>

\* exporter.Export refuses refs without the default branch.
Exportable(r) == r.refs = NoRefs \/ r.refs[DefaultBranch] # None

\* exporter.Export reads the root on its own.
Export(p) ==
    LET g == Home[p] IN
    /\ pc[p] = "export" /\ Exportable(root)
    /\ bare' = [bare EXCEPT ![g] = [here |-> TRUE, refs |-> root.refs, objs |-> root.objs]]
    /\ Goto(p, "seal")
    /\ UNCHANGED <<root, sentinel, writer, loc, verdict, history>>

SealAgain(p) ==  \* mutant: without a sentinel of its own the request checks again
    LET g == Home[p] IN
    /\ pc[p] = "seal"
    /\ Unlock(g)
    /\ Goto(p, "open")
    /\ UNCHANGED <<root, bare, sentinel, loc, verdict, history>>

SealLatest(p) ==  \* mutant: the sentinel names the root of the moment
    LET g == Home[p] IN
    /\ pc[p] = "seal"
    /\ sentinel' = [sentinel EXCEPT ![g] = root.ver]
    /\ Unlock(g)
    /\ Goto(p, "opened")
    /\ UNCHANGED <<root, bare, loc, verdict, history>>

\* writeSentinel: the version read under the lock.
Seal(p) ==
    LET g == Home[p] IN
    /\ pc[p] = "seal"
    /\ sentinel' = [sentinel EXCEPT ![g] = loc[p].want]
    /\ Unlock(g)
    /\ Goto(p, "opened")
    /\ UNCHANGED <<root, bare, loc, verdict, history>>

\* The export fails: at once, before the packs, or after some of the refs.
\* The default branch is looked for after all of them.
ExportFails(p) ==
    LET g == Home[p]
        some(S) == [r \in Refs |-> IF r \in S THEN root.refs[r] ELSE None] IN
    /\ pc[p] = "export"
    /\ \/ /\ StorageErrors
          /\ bare' \in {bare, [bare EXCEPT ![g] = [NoBare EXCEPT !.here = TRUE]]}
                 \cup {[bare EXCEPT ![g] = [here |-> TRUE, refs |-> some(S), objs |-> root.objs]] :
                          S \in SUBSET Refs}
       \/ /\ ~Exportable(root)
          /\ bare' = [bare EXCEPT ![g] = [here |-> TRUE, refs |-> root.refs, objs |-> root.objs]]
    /\ Unlock(g)
    /\ Answer(p, "error")
    /\ UNCHANGED <<root, sentinel, history>>

Open(p) ==
    \/ Advertise(p) \/ CheckCurrent(p) \/ SyncLock(p)
    \/ Export(p) \/ Seal(p) \/ ExportFails(p)

-----------------------------------------------------------------------------
(***************************************************************************)
(* completeReceivePack.  The updates of a push are the ones that pass;     *)
(* those that fail a check beside them (without --atomic) change nothing.  *)
(***************************************************************************)
Named(ups) == {r \in Refs : ups[r] # Keep}

Requested(adv) ==
    {ups \in Updates :
        /\ ups # NoUpdate
        /\ \A r \in Named(ups) :
              /\ ups[r] # adv[r]
              /\ Rewrites \/ (ups[r] # None /\ (adv[r] = None \/ adv[r] \in Reach[ups[r]]))}

\* What the new values reach, and what of it the client sends.
Needed(ups) == UNION {Reach[ups[r]] : r \in {q \in Named(ups) : ups[q] # None}}
Sent(adv, ups) == Needed(ups) \ ReachOf(adv)

PrecheckNothing(refs, adv, ups) == TRUE  \* mutant: old values go unchecked

\* precheckUpdates: the refs still have the values the client names.
Precheck(refs, adv, ups) == \A r \in Named(ups) : refs[r] = adv[r]

\* Connectivity: with a pack everything needed is there, without one
\* everything needed is reachable from a ref of the bare repository.
Connected(b, adv, ups, pack) ==
    IF pack THEN Needed(ups) \subseteq b.objs \cup Sent(adv, ups)
    ELSE Needed(ups) \subseteq ReachOf(b.refs)

\* Lock, read the root, check the old values, index the pack, check
\* connectivity, policy and pre-receive hooks.
Admit(p) ==
    LET g == Home[p] IN
    /\ p \in Pushes /\ pc[p] = "opened" /\ Free(g) /\ bare[g].here
    /\ \E ups \in Requested(loc[p].adv), pack \in BOOLEAN :
          /\ Precheck(root.refs, loc[p].adv, ups)
          /\ Connected(bare[g], loc[p].adv, ups, pack)
          /\ bare' = IF pack THEN [bare EXCEPT ![g].objs = @ \cup Sent(loc[p].adv, ups)] ELSE bare
          /\ Set(p, [loc[p] EXCEPT !.ups = ups, !.todo = Named(ups), !.pre = root.ver])
    /\ writer' = [writer EXCEPT ![g] = p]
    /\ Goto(p, "apply")
    /\ UNCHANGED <<root, sentinel, verdict, history>>

\* One of the checks fails; the pack may have been indexed by then.
Refuse(p) ==
    LET g == Home[p] IN
    /\ p \in Pushes /\ pc[p] = "opened" /\ Free(g)
    /\ bare' \in {bare} \cup {[bare EXCEPT ![g].objs = @ \cup Sent(loc[p].adv, ups)] :
                             ups \in IF bare[g].here THEN Requested(loc[p].adv) ELSE {}}
    /\ Answer(p, "ng")
    /\ UNCHANGED <<root, sentinel, writer, history>>

\* The way out once the bare repository was touched.
GiveUp(p, v) == MarkStale(Home[p]) /\ Unlock(Home[p]) /\ Answer(p, v)

\* applyRefUpdateInBare: a created ref is set, others are compared first.
ApplyRef(p) ==
    LET g == Home[p]
        l == loc[p] IN
    /\ pc[p] = "apply"
    /\ \E r \in l.todo :
          /\ l.adv[r] \in {None, bare[g].refs[r]}
          /\ bare' = [bare EXCEPT ![g].refs[r] = l.ups[r]]
          /\ Set(p, [l EXCEPT !.todo = @ \ {r}])
          /\ Goto(p, IF l.todo = {r} THEN "build" ELSE "apply")
    /\ UNCHANGED <<root, sentinel, writer, verdict, history>>

ApplyFails(p) ==
    /\ pc[p] = "apply"
    /\ GiveUp(p, "ng")
    /\ UNCHANGED <<root, bare, history>>

\* refstore.Stage over the body that BuildAndCommit reads.
Effective(refs, ups) == [r \in Refs |-> IF ups[r] = Keep THEN refs[r] ELSE ups[r]]

PackedAnywhere(b, refs) ==  \* mutant: a tip need only be in the bare repository
    \A r \in Refs : refs[r] # None => refs[r] \in b.objs

\* RevParseObjectKind and buildTipsFromRefs: every tip is in the new pack,
\* which holds what the bare repository's refs reach.
Packed(b, refs) == \A r \in Refs : refs[r] # None => refs[r] \in ReachOf(b.refs)

\* BuildAndCommit up to the commit: on a root of its own reading.
Build(p) ==
    LET g == Home[p]
        eff == Effective(root.refs, loc[p].ups) IN
    /\ pc[p] = "build"
    /\ root.refs[DefaultBranch] # None => eff[DefaultBranch] # None
    /\ Packed(bare[g], eff)
    /\ Set(p, [loc[p] EXCEPT !.start = root.ver, !.refs = eff,
                            !.objs = IF eff = NoRefs THEN {} ELSE ReachOf(bare[g].refs)])
    /\ Goto(p, "commit")
    /\ UNCHANGED <<root, mirrors, verdict, history>>

BuildFails(p) ==
    /\ pc[p] = "build"
    /\ GiveUp(p, "ng")
    /\ UNCHANGED <<root, bare, history>>

CommitAnyVersion(p) ==  \* mutant: the version the body was built on is not compared
    /\ root' = [ver |-> root.ver + 1, refs |-> loc[p].refs, objs |-> loc[p].objs]
    /\ committed' = committed \cup {p}
    /\ stomped' = IF \E r \in Named(loc[p].ups) : root.refs[r] # loc[p].adv[r]
                  THEN stomped \cup {p} ELSE stomped

CommitTwice(p) ==  \* mutant: the version is counted twice
    /\ root.ver = loc[p].start
    /\ root' = [ver |-> root.ver + 2, refs |-> loc[p].refs, objs |-> loc[p].objs]
    /\ UNCHANGED <<committed, stomped>>

\* The commit callback and the conditional put.
Commit(p) ==
    /\ root.ver = loc[p].start
    /\ root' = [ver |-> root.ver + 1, refs |-> loc[p].refs, objs |-> loc[p].objs]
    /\ committed' = committed \cup {p}
    /\ stomped' = IF \E r \in Named(loc[p].ups) : root.refs[r] # loc[p].adv[r]
                  THEN stomped \cup {p} ELSE stomped

Put(p) ==
    /\ pc[p] = "commit"
    /\ Commit(p)
    /\ Goto(p, "readback")
    /\ UNCHANGED <<mirrors, loc, verdict, notified>>

\* A stale version or a storage error, which may come after the put.
PutFails(p) ==
    /\ pc[p] = "commit"
    /\ (StorageErrors /\ Commit(p)) \/ UNCHANGED <<root, committed, stomped>>
    /\ GiveUp(p, "ng")
    /\ UNCHANGED <<bare, notified>>

ReadBackLenient(p) ==  \* mutant: off by one in the version-skip check
    LET raced == root.ver > loc[p].pre + 2 IN
    /\ pc[p] = "readback"
    /\ GiveUp(p, IF raced THEN "ng" ELSE "ok")
    /\ notified' = IF raced THEN notified ELSE notified \cup {p}
    /\ UNCHANGED <<root, bare, committed, stomped>>

\* The version-skip check, then the events.
ReadBack(p) ==
    LET raced == root.ver > loc[p].pre + 1 IN
    /\ pc[p] = "readback"
    /\ GiveUp(p, IF raced THEN "ng" ELSE "ok")
    /\ notified' = IF raced THEN notified ELSE notified \cup {p}
    /\ UNCHANGED <<root, bare, committed, stomped>>

ReadBackFails(p) ==
    /\ pc[p] = "readback" /\ StorageErrors
    /\ GiveUp(p, "ok")
    /\ UNCHANGED <<root, bare, history>>

Push(p) ==
    \/ Admit(p) \/ Refuse(p) \/ ApplyRef(p) \/ ApplyFails(p) \/ Build(p) \/ BuildFails(p)
    \/ Put(p) \/ PutFails(p) \/ ReadBack(p) \/ ReadBackFails(p)

\* serveFetch: under the read lock, wants must be reachable from the refs of
\* the bare repository.
Serve(p) ==
    LET g == Home[p] IN
    /\ p \in Fetches /\ pc[p] = "opened" /\ Free(g)
    /\ Answer(p, IF ReachOf(loc[p].adv) \subseteq ReachOf(bare[g].refs) THEN "served" ELSE "refused")
    /\ UNCHANGED <<root, mirrors, history>>

-----------------------------------------------------------------------------
\* The process dies; what is on its disk and in the store stays.
Crash(g) ==
    LET dead == {p \in Requests : Home[p] = g /\ pc[p] \notin {"idle", "done"}} IN
    /\ Crashes /\ dead # {}
    /\ pc' = [p \in Requests |-> IF p \in dead THEN "done" ELSE pc[p]]
    /\ loc' = [p \in Requests |-> IF p \in dead THEN Blank ELSE loc[p]]
    /\ verdict' = [p \in Requests |-> IF p \in dead THEN "lost" ELSE verdict[p]]
    /\ Unlock(g)
    /\ UNCHANGED <<root, bare, sentinel, history>>

Step(p) == Open(p) \/ Push(p) \/ Serve(p)

Idle == (\A p \in Requests : pc[p] = "done") /\ UNCHANGED vars

Next == (\E p \in Requests : Step(p)) \/ (\E g \in Gateways : Crash(g)) \/ Idle

Spec == Init /\ [][Next]_vars

\* A goroutine that can take its next step does; Go's locks are handed on.
Fairness == \A p \in Requests : WF_vars(Step(p))
FairSpec == Spec /\ Fairness

-----------------------------------------------------------------------------
TypeOK ==
    /\ root \in Roots
    /\ bare \in [Gateways -> Bares]
    /\ sentinel \in [Gateways -> Versions]
    /\ writer \in [Gateways -> Requests \cup {None}]
    /\ pc \in [Requests -> Labels]
    /\ loc \in [Requests -> Locals]
    /\ verdict \in [Requests -> Verdicts]
    /\ committed \subseteq Pushes /\ stomped \subseteq Pushes /\ notified \subseteq Pushes

\* A root never names a commit that its packs do not hold, although each push
\* packs a bare repository that other pushes, of this gateway or of others,
\* may have left behind the root or ahead of it (BuildAndCommit).
RootClosed == ReachOf(root.refs) \subseteq root.objs

\* A mirror that the next request takes for current is the root's: no ref of
\* a push that failed is left in it, no ref of another gateway's is missing
\* (SyncToCurrent and the markMirrorStale calls).  A gateway that died during a
\* push is excepted.
MirrorCurrent ==
    \A g \in Gateways :
        Free(g) /\ Current(g) /\ (\A p \in Pushes : Home[p] = g => verdict[p] # "lost")
        => bare[g].refs = root.refs /\ root.objs \subseteq bare[g].objs

\* Events are enqueued only for pushes that replaced the values their client
\* had seen and were told "ok", and "ok" is said only of committed pushes: the
\* version-skip check after the commit sees every race.  While storage answers
\* every "ok" has its events.
OkMeansReplacedAsSeen ==
    \A p \in Pushes :
        /\ verdict[p] = "ok" => p \in committed /\ (p \in notified \/ StorageErrors)
        /\ p \in notified => verdict[p] = "ok" /\ p \notin stomped

\* A push replaces a value its client never saw only where a push through
\* another gateway was committed: within one gateway the mirror's lock and the
\* check of the old values under it keep pushes apart.
StompedFromOutside == \A p \in stomped : \E q \in committed : Home[q] # Home[p]

\* A commit moves the refs its push names and no other: a body built on an
\* older root never brings back an older value.
OnlyNamedRefsMove ==
    [][\A p \in committed' \ committed : \A r \in Refs :
          loc[p].ups[r] = Keep => root'.refs[r] = root.refs[r]]_vars

\* What ls-refs advertised can be fetched, while refs only move forward, none
\* was stomped and storage answers: a fetch never meets a mirror older than
\* its own reading (SyncToCurrent before the read lock).
FetchServed == stomped = {} => \A p \in Fetches : verdict[p] # "refused"

\* "The mirror is a derived view that can be wiped and rebuilt from the M2
\* exporter at any time."
RootExportable == Exportable(root)

\* Every request that comes in is answered: no push waits for ever for a
\* mirror's lock.
RequestsAnswered == \A p \in Requests : pc[p] = "open" ~> pc[p] = "done"
=============================================================================
