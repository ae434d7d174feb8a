----------------------------- MODULE Maintenance -----------------------------
(***************************************************************************)
(* What a root manifest says about packs and indexes, and the maintenance  *)
(* pipeline (internal/maintenance) that rewrites it while pushes and       *)
(* reshard-refs go on.                                                     *)
(*                                                                         *)
(* A push packs everything its refs reach into one pack, which replaces    *)
(* the packs before it, rebuilds the object map and the commit graph, and  *)
(* appends a reachability delta.  A maintenance run takes a snapshot of    *)
(* the root, builds a pack and indexes from it, and merges them into       *)
(* whatever root it finds when it commits.  No lock excludes a second run. *)
(*                                                                         *)
(* Every change of the root goes through Repo.Commit, which AtomicCommit   *)
(* shows to apply its callback to the root it replaces.  A push and a      *)
(* reshard commit only on the very version they read, so each of them is   *)
(* one step here; a maintenance run reads, backfills, merges and refreshes *)
(* the bundle in steps of their own.  A pack is named by its bytes:        *)
(* packing the same objects again usually gives another pack, and now and  *)
(* then the same (buildcommit.go, "a deterministic repack reproduced       *)
(* existing bytes"), so which of Takes comes out is a free choice.         *)
(***************************************************************************)
EXTENDS Naturals, Sequences, FiniteSets

CONSTANTS
    Refs, DefaultBranch,
    Commits,
    Reach,          \* function: a commit's ancestors and itself
    Maintainers,    \* maintenance runs
    Takes,          \* bound: the packs that one set of objects may become
    MaxDeltas,      \* bound: deltas in the chain while pushes may rewrite
    Settings,       \* what may happen beside maintenance, one per behaviour
    None

ASSUME ReachAssumption ==
    /\ Reach \in [Commits -> SUBSET Commits]
    /\ \A c \in Commits : c \in Reach[c] /\ \A d \in Reach[c] : Reach[d] \subseteq Reach[c]
ASSUME DefaultAssumption == DefaultBranch \in Refs /\ None \notin Commits
ASSUME BoundAssumption == MaxDeltas \in Nat
\* runs: how many maintenance runs may overlap; refs: the refs pushes name;
\* rewrites: whether pushes may move refs back, aside, or delete them;
\* reshards: whether reshard-refs may run; takes: the packs that come out.
ASSUME SettingsAssumption ==
    Settings \subseteq [runs : Nat, refs : SUBSET Refs, rewrites : BOOLEAN,
                        reshards : BOOLEAN, takes : SUBSET Takes]

Tips == Commits \cup {None}
RefMaps == [Refs -> Tips]
NoRefs == [r \in Refs |-> None]
ReachOf(m) == UNION {Reach[m[r]] : r \in {q \in Refs : m[q] # None}}

\* PackKey, and the key of no pack.
PackKeys == [objs : SUBSET Commits, by : {"push", "repack"}, take : Takes]
NoPack == [objs |-> {}, by |-> "none"]
\* A PackEntry: its key and whether PackChecksum is filled in.
Packs == [key : PackKeys, sum : BOOLEAN]
Deltas == [ref : Refs, old : Tips, new : Tips, commits : SUBSET Commits, pack : PackKeys]

Bodies == [refs : RefMaps, shards : RefMaps, packs : Seq(Packs),
           omap : PackKeys \cup {NoPack}, cg : SUBSET Commits,
           chain : Seq(Deltas), bundle : Tips]

EmptyBody == [refs |-> NoRefs, shards |-> NoRefs, packs |-> <<>>, omap |-> NoPack,
              cg |-> {}, chain |-> <<>>, bundle |-> None]

Sharded(b) == b.shards # NoRefs
List(b) == IF Sharded(b) THEN b.shards ELSE b.refs

-----------------------------------------------------------------------------
(***************************************************************************)
(* The bodies that operations commit.                                      *)
(***************************************************************************)
PushPack(m, t) == [objs |-> ReachOf(m), by |-> "push", take |-> t]

\* buildDelta: the commits no ref reached before, the ref's move, the new pack.
DeltaOf(b, r, c, m, t) ==
    [ref |-> r, old |-> List(b)[r], new |-> c,
     commits |-> IF c = None THEN {} ELSE Reach[c] \ ReachOf(List(b)),
     pack |-> PushPack(m, t)]

\* makeDeltaPatcher: a body without indexes gets no delta.
ChainAfter(b, r, c, m, t) ==
    IF b.omap = NoPack THEN b.chain ELSE Append(b.chain, DeltaOf(b, r, c, m, t))

PushBodyNoBundle(b, r, c, t) ==  \* mutant: the bundles are not carried over
    LET m == [List(b) EXCEPT ![r] = c]
    IN  IF m = NoRefs THEN EmptyBody
        ELSE [refs |-> m, shards |-> NoRefs,
              packs |-> <<[key |-> PushPack(m, t), sum |-> FALSE]>>, omap |-> PushPack(m, t),
              cg |-> ReachOf(m), chain |-> ChainAfter(b, r, c, m, t), bundle |-> None]

\* BuildAndCommit, and commitEmptyBody when no ref is left.
PushBody(b, r, c, t) ==
    LET m == [List(b) EXCEPT ![r] = c]
    IN  IF m = NoRefs THEN [EmptyBody EXCEPT !.bundle = b.bundle]
        ELSE [refs |-> IF Sharded(b) THEN NoRefs ELSE m,
              shards |-> IF Sharded(b) THEN m ELSE NoRefs,
              packs |-> <<[key |-> PushPack(m, t), sum |-> FALSE]>>,
              omap |-> PushPack(m, t),
              cg |-> ReachOf(m),
              chain |-> ChainAfter(b, r, c, m, t),
              bundle |-> b.bundle]

ReshardBody(b) == [b EXCEPT !.refs = NoRefs, !.shards = b.refs]

\* The pack Repack builds from a snapshot holds what the snapshot's refs reach.
Repacked(snap, t) == [objs |-> ReachOf(snap.refs), by |-> "repack", take |-> t]

Keys(b) == {b.packs[i].key : i \in DOMAIN b.packs}
Stored(b) == UNION {k.objs : k \in Keys(b)}
Hashes(b) == {b.chain[i] : i \in DOMAIN b.chain}

TrimAll(chain, consumed) == <<>>  \* mutant: the whole chain counts as consumed

TrimNewest(chain, consumed) ==  \* mutant: trimmed by count, from the wrong end
    SubSeq(chain, 1, Len(chain) - Cardinality(consumed))

\* trimConsumedByHash.
Trim(chain, consumed) == SelectSeq(chain, LAMBDA d : d \notin consumed)

MergedBodyAlone(prev, snap, t) ==  \* mutant: packs of concurrent pushes are dropped
    [prev EXCEPT !.packs = <<[key |-> Repacked(snap, t), sum |-> TRUE]>>, !.omap = Repacked(snap, t)]

MergedBodyOldRefs(prev, snap, t) ==  \* mutant: the refs of the snapshot are committed
    [prev EXCEPT !.refs = snap.refs]

\* buildMergedBody: the snapshot's packs give way to the new one, packs that
\* came later stay; Refs is copied, RefShards is not.
MergedBody(prev, snap, t) ==
    [refs |-> prev.refs, shards |-> NoRefs,
     packs |-> <<[key |-> Repacked(snap, t), sum |-> TRUE]>>
               \o SelectSeq(prev.packs, LAMBDA p : p.key \notin Keys(snap)),
     omap |-> Repacked(snap, t),
     cg |-> ReachOf(snap.refs),
     chain |-> Trim(prev.chain, Hashes(snap)),
     bundle |-> prev.bundle]

CompactBodyNewMap(prev, snap) ==  \* mutant: the map of the local pack is swapped in
    [prev EXCEPT !.omap = [objs |-> ReachOf(snap.refs), by |-> "repack", take |-> 1], !.cg = ReachOf(snap.refs)]

\* buildCompactOnlyBody: only the commit graph and the chain change.
CompactBody(prev, snap) ==
    [refs |-> prev.refs, shards |-> NoRefs,
     packs |-> prev.packs,
     omap |-> prev.omap,
     cg |-> ReachOf(snap.refs),
     chain |-> Trim(prev.chain, Hashes(snap)),
     bundle |-> prev.bundle]

Unsummed(b) == {i \in DOMAIN b.packs : ~b.packs[i].sum}
Filled(b, S) ==
    [b EXCEPT !.packs = [i \in DOMAIN @ |-> IF i \in S THEN [@[i] EXCEPT !.sum = TRUE] ELSE @[i]]]

-----------------------------------------------------------------------------
VARIABLES
    root,   \* the body of the root manifest
    pc,     \* where a maintenance run is
    mode,   \* what its triggers and options ask for
    m0,     \* its snapshot
    setting \* of Settings, the same throughout a behaviour

vars == <<root, pc, mode, m0, setting>>

Modes == {"repack", "compact", "bundle", "none"}

\* A repository as Import leaves it, or an empty one.
Init ==
    /\ setting \in Settings
    /\ root \in {PushBody(EmptyBody, DefaultBranch, c, t) : c \in Commits, t \in setting.takes}
               \cup {EmptyBody}
    /\ pc = [w \in Maintainers |-> "idle"]
    /\ mode = [w \in Maintainers |-> "none"]
    /\ m0 = [w \in Maintainers |-> EmptyBody]

Goto(w, l) == pc' = [pc EXCEPT ![w] = l]

Rest(w) ==
    /\ Goto(w, "idle")
    /\ mode' = [mode EXCEPT ![w] = "none"]
    /\ m0' = [m0 EXCEPT ![w] = EmptyBody]

\* Without rewrites a push only creates refs and moves them forward.
Push ==
    /\ \E r \in setting.refs, c \in Tips, t \in setting.takes :
          LET old == List(root)[r] IN
          /\ c # old
          /\ c = None => r # DefaultBranch
          /\ setting.rewrites \/ (c # None /\ (old = None \/ old \in Reach[c]))
          /\ setting.rewrites => Len(ChainAfter(root, r, c, List(root), t)) <= MaxDeltas
          /\ root' = PushBody(root, r, c, t)
    /\ UNCHANGED <<pc, mode, m0>>

Reshard ==
    /\ setting.reshards
    /\ ~Sharded(root) /\ root.refs # NoRefs
    /\ root' = ReshardBody(root)
    /\ UNCHANGED <<pc, mode, m0>>

-----------------------------------------------------------------------------
(***************************************************************************)
(* A maintenance run.                                                      *)
(***************************************************************************)
\* Phase 0: read the root and evaluate the triggers; only a chain with deltas
\* in it asks for compaction.
Load(w) ==
    /\ pc[w] = "idle"
    /\ Cardinality({v \in Maintainers : pc[v] # "idle"}) < setting.runs
    /\ m0' = [m0 EXCEPT ![w] = root]
    /\ \E d \in Modes :
          /\ d = "compact" => root.chain # <<>>
          /\ mode' = [mode EXCEPT ![w] = d]
    /\ Goto(w, "backfill")
    /\ UNCHANGED root

\* Phase 0b: checksums that are missing from the root are filled in as far as
\* the packs can be read; the body committed becomes the snapshot.
Backfill(w) ==
    /\ pc[w] = "backfill"
    /\ \/ /\ Unsummed(m0[w]) # {}
          /\ \E S \in SUBSET Unsummed(root) \ {{}} : root' = Filled(root, S)
          /\ m0' = [m0 EXCEPT ![w] = root']
       \/ UNCHANGED <<root, m0>>
    /\ Goto(w, "snapshot")
    /\ UNCHANGED mode

\* The guard on empty repositories, which takes a sharded one for empty, and
\* the gate on triggers.
Noop(w) ==
    /\ pc[w] = "snapshot"
    /\ m0[w].refs = NoRefs \/ m0[w].packs = <<>> \/ mode[w] = "none"
    /\ Rest(w)
    /\ UNCHANGED root

\* Materialize downloads the snapshot's packs and runs git fsck over its refs.
Working(w) ==
    /\ pc[w] = "snapshot"
    /\ m0[w].refs # NoRefs /\ m0[w].packs # <<>>
    /\ ReachOf(m0[w].refs) \subseteq Stored(m0[w])

RepackCommit(w) ==
    /\ Working(w) /\ mode[w] = "repack"
    /\ \E t \in setting.takes : root' = MergedBody(root, m0[w], t)
    /\ Goto(w, "bundle")
    /\ UNCHANGED <<mode, m0>>

SamePackCount(prev, snap) == Len(prev.packs) = Len(snap.packs)

CompactCommit(w) ==
    /\ Working(w) /\ mode[w] = "compact"
    /\ SamePackCount(root, m0[w])
    /\ root' = CompactBody(root, m0[w])
    /\ Goto(w, "bundle")
    /\ UNCHANGED <<mode, m0>>

BundleOnly(w) ==
    /\ Working(w) /\ mode[w] = "bundle"
    /\ Goto(w, "bundle")
    /\ UNCHANGED <<root, mode, m0>>

BundleOfRefs(w) ==  \* mutant: the entry records the refs, not the tip
    /\ pc[w] = "bundle"
    /\ root' = [root EXCEPT !.bundle = m0[w].refs]
    /\ Rest(w)

\* Phase BR: the bundle of the snapshot's default branch replaces the one in
\* the root, unless there is no such branch, no trigger, or an error.
Bundle(w) ==
    /\ pc[w] = "bundle"
    /\ \/ /\ m0[w].refs[DefaultBranch] # None
          /\ root' = [root EXCEPT !.bundle = m0[w].refs[DefaultBranch]]
       \/ UNCHANGED root
    /\ Rest(w)

\* An error, an exhausted retry budget, a compaction that found another number
\* of packs, or the death of the process.
Fail(w) ==
    /\ pc[w] # "idle"
    /\ Rest(w)
    /\ UNCHANGED root

Run(w) ==
    \/ Load(w) \/ Backfill(w) \/ Noop(w)
    \/ RepackCommit(w) \/ CompactCommit(w) \/ BundleOnly(w)
    \/ Bundle(w) \/ Fail(w)

Next == (Push \/ Reshard \/ \E w \in Maintainers : Run(w)) /\ UNCHANGED setting

Spec == Init /\ [][Next]_vars

-----------------------------------------------------------------------------
TypeOK ==
    /\ setting \in Settings
    /\ root \in Bodies
    /\ pc \in [Maintainers -> {"idle", "backfill", "snapshot", "bundle"}]
    /\ mode \in [Maintainers -> Modes]
    /\ m0 \in [Maintainers -> Bodies]

\* Every commit that a ref reaches is in a pack the root lists: a repack that
\* drops the packs of its snapshot never drops what a concurrent push needs.
RefsResolvable == ReachOf(List(root)) \subseteq Stored(root)

\* Negotiation knows every commit that a ref reaches, from the commit graph or
\* from a delta (reachability.Set.Has), while maintenance runs come one after
\* the other and nobody reshards.
Known(b) == b.cg \cup UNION {d.commits : d \in Hashes(b)}
HistoryIndexed ==
    setting.runs = 1 /\ ~setting.reshards /\ root.omap # NoPack
        => ReachOf(List(root)) \subseteq Known(root)

\* reachability.Load replays the chain over the refs, and gets the refs back.
Replay(refs, chain) ==
    LET After[n \in 0..Len(chain)] ==
          IF n = 0 THEN refs ELSE [After[n - 1] EXCEPT ![chain[n].ref] = chain[n].new]
    IN  After[Len(chain)]
TipsReplayed ==
    ~setting.reshards => Replay(List(root), root.chain) = List(root)

\* "Invariant maintained: body.Indexes.ObjectMap pack-id table is a subset of
\* the manifest pack IDs."
ObjectMapListed == root.omap = NoPack \/ root.omap \in Keys(root)

Merging(w) == pc[w] # pc'[w] /\ root' # root

\* "Refs = prev.Refs (preserved verbatim)": no maintenance run changes a ref.
MaintenanceKeepsRefs ==
    [][\A w \in Maintainers : Merging(w) => List(root') = List(root)]_vars

\* A maintenance run changes no ref of a root that keeps its refs inline.
InlineRefsKept ==
    [][\A w \in Maintainers : Merging(w) /\ ~Sharded(root) => List(root') = List(root)]_vars

\* "By trimming on hash membership we only drop the exact deltas we consumed,
\* preserving any delta appended by a concurrent push": true while no push
\* repeats a move that an earlier one made.
DropsOnlyConsumed ==
    [][\A w \in Maintainers : Merging(w) /\ ~setting.rewrites /\ ~setting.reshards =>
          Len(root.chain) - Len(root'.chain) <= Len(m0[w].chain)]_vars

\* A bundle that was advertised is replaced, never lost.
BundleKept == [][root.bundle # None => root'.bundle # None]_vars
=============================================================================
