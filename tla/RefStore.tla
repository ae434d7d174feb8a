------------------------------ MODULE RefStore ------------------------------
(***************************************************************************)
(* How a repository keeps its refs, and how pushes and the reshard command *)
(* change them (internal/repo/refstore, importer.BuildAndCommit,           *)
(* maintenance.Reshard).                                                   *)
(*                                                                         *)
(* A root body either holds the refs inline or names one content-addressed *)
(* object per shard.  A push reads the root, stages its updates against    *)
(* that body, refuses to delete the default branch, puts the shard objects *)
(* the stage changed, and commits on condition that the version is still   *)
(* the one it read.  Reshard rewrites inline refs as shards the same way.  *)
(*                                                                         *)
(* The key of a shard object is the hash of its contents, so an object is  *)
(* represented by its contents.  Repo.Commit is taken as its two visible   *)
(* steps, the callback on a fresh read and the conditional put (RepoCommit *)
(* models the rest of it).                                                 *)
(***************************************************************************)
EXTENDS Naturals, FiniteSets

CONSTANTS
    Refnames, Oids, ShardIds,
    ShardKey,        \* function: the shard of a ref name
    MaxRefs,         \* bound: refs named by one push
    DefaultBranch,   \* body.DefaultBranch
    Pushers,         \* calls of BuildAndCommit
    Resharders,      \* calls of Reshard
    None, Keep,      \* no ref; a ref the update does not mention
    NoShard          \* no entry for a shard in RefShards

ASSUME ShardKeyAssumption == ShardKey \in [Refnames -> ShardIds]
ASSUME DefaultBranchAssumption == DefaultBranch \in Refnames
ASSUME NoneAssumption == None \notin Oids /\ Keep \notin Oids /\ Keep # None

RefMaps == [Refnames -> Oids \cup {None}]
Updates == [Refnames -> Oids \cup {None, Keep}]
NoRefs == [r \in Refnames |-> None]
NoUpdate == [r \in Refnames |-> Keep]

\* Bound: a push names at most MaxRefs refs.
PushedUpdates ==
    {ups \in Updates : Cardinality({r \in Refnames : ups[r] # Keep}) \in 1..MaxRefs}

ASSUME NoShardAssumption == NoShard \notin RefMaps

Bodies == [refs : RefMaps, shards : [ShardIds -> RefMaps \cup {NoShard}]]
NoShards == [s \in ShardIds |-> NoShard]
Inline(refs) == [refs |-> refs, shards |-> NoShards]

\* refstore.New dispatches on whether the body has shards.
IsSharded(b) == \E s \in ShardIds : b.shards[s] # NoShard

-----------------------------------------------------------------------------
(***************************************************************************)
(* Reading.                                                                *)
(***************************************************************************)
\* The contents of a shard, empty when RefShards has no entry for it.
Loaded(b, s) == IF b.shards[s] = NoShard THEN NoRefs ELSE b.shards[s]

Lookup(b, r) == IF IsSharded(b) THEN Loaded(b, ShardKey[r])[r] ELSE b.refs[r]

List(b) == [r \in Refnames |-> Lookup(b, r)]

-----------------------------------------------------------------------------
(***************************************************************************)
(* Staging.                                                                *)
(***************************************************************************)
ApplyVerbatim(m, ups) == ups  \* mutant: refs the update leaves out lose their value

Apply(m, ups) == [r \in Refnames |-> IF ups[r] = Keep THEN m[r] ELSE ups[r]]

Touched(ups) == {ShardKey[r] : r \in {q \in Refnames : ups[q] # Keep}}

InShard(ups, s) == [r \in Refnames |-> IF ShardKey[r] = s THEN ups[r] ELSE Keep]

StageShardKeepsEmpty(b, ups, s) ==  \* mutant: an emptied shard is kept as "{}"
    IF s \in Touched(ups) THEN Apply(Loaded(b, s), InShard(ups, s)) ELSE b.shards[s]

StageShardDropsRest(b, ups, s) ==  \* mutant: a touched shard starts from empty
    IF s \in Touched(ups)
    THEN LET refs == Apply(NoRefs, InShard(ups, s))
         IN  IF refs = NoRefs THEN NoShard ELSE refs
    ELSE b.shards[s]

\* An emptied shard loses its entry; an untouched one is forwarded.
StageShard(b, ups, s) ==
    IF s \in Touched(ups)
    THEN LET refs == Apply(Loaded(b, s), InShard(ups, s))
         IN  IF refs = NoRefs THEN NoShard ELSE refs
    ELSE b.shards[s]

StageBody(b, ups) ==
    IF IsSharded(b)
    THEN [refs |-> NoRefs, shards |-> [s \in ShardIds |-> StageShard(b, ups, s)]]
    ELSE Inline(Apply(b.refs, ups))

\* NewShardObjects: the shards whose contents the stage changed.
StageWrites(b, ups) ==
    LET new == StageBody(b, ups)
    IN  {new.shards[s] : s \in {t \in ShardIds : /\ new.shards[t] # NoShard
                                                  /\ new.shards[t] # b.shards[t]}}

\* Stage.Lookup on the default branch, and its fallback to the state before
\* the stage when no staged object covers the branch's shard.
HasDefaultAfter(b, ups) ==
    LET s == ShardKey[DefaultBranch]
        new == StageBody(b, ups)
        staged == new.shards[s] # NoShard /\ new.shards[s] # b.shards[s]
    IN  IF ~IsSharded(b) THEN new.refs[DefaultBranch] # None
        ELSE IF staged THEN new.shards[s][DefaultBranch] # None
        ELSE Lookup(b, DefaultBranch) # None

GuardForgotten(b, ups) == FALSE  \* mutant: deletions of the default branch pass

DeletesDefault(b, ups) ==
    Lookup(b, DefaultBranch) # None /\ ~HasDefaultAfter(b, ups)

\* buildEffectiveRefs: the flat map the indexes of the new body are built for.
EffectiveRefs(b, ups) ==
    IF IsSharded(b) THEN Apply(List(b), ups) ELSE StageBody(b, ups).refs

\* Reshard groups the inline refs by shard.
ReshardBody(b) ==
    [refs |-> NoRefs,
     shards |-> [s \in ShardIds |->
        LET refs == [r \in Refnames |-> IF ShardKey[r] = s THEN b.refs[r] ELSE None]
        IN  IF refs = NoRefs THEN NoShard ELSE refs]]

-----------------------------------------------------------------------------
VARIABLES
    root,      \* [version, body] of the root manifest
    objects,   \* shard objects in the bucket
    pc,        \* where a call is; "ok" and "failed" are how it ended
    start, base,   \* version and body the operation read
    request,       \* refUpdates of a push
    next,          \* the body it will commit
    writes         \* shard objects it still has to put

vars == <<root, objects, pc, start, base, request, next, writes>>

Procs == Pushers \cup Resharders
ASSUME ProcsAssumption == Pushers \cap Resharders = {}

\* A repository as Create or Import leaves it: any refs, inline.
Init ==
    /\ \E refs \in RefMaps : root = [version |-> 1, body |-> Inline(refs)]
    /\ objects = {}
    /\ pc = [p \in Procs |-> "new"]
    /\ start = [p \in Procs |-> 0]
    /\ base = [p \in Procs |-> Inline(NoRefs)]
    /\ request = [p \in Procs |-> NoUpdate]
    /\ next = [p \in Procs |-> Inline(NoRefs)]
    /\ writes = [p \in Procs |-> {}]

Ended == {"ok", "failed"}

Goto(p, l) == pc' = [pc EXCEPT ![p] = l]

Read(p) ==
    /\ pc[p] = "new"
    /\ start' = [start EXCEPT ![p] = root.version]
    /\ base' = [base EXCEPT ![p] = root.body]

Return(p, r) ==
    /\ Goto(p, r)
    /\ start' = [start EXCEPT ![p] = 0]
    /\ base' = [base EXCEPT ![p] = Inline(NoRefs)]
    /\ request' = [request EXCEPT ![p] = NoUpdate]
    /\ next' = [next EXCEPT ![p] = Inline(NoRefs)]
    /\ writes' = [writes EXCEPT ![p] = {}]

-----------------------------------------------------------------------------
\* BuildAndCommit reads the root and stages the updates the client asked for.
\* Staging reads only the snapshot and immutable objects.
PushBegin(p) ==
    /\ p \in Pushers
    /\ Read(p)
    /\ \E ups \in PushedUpdates :
          /\ ~DeletesDefault(root.body, ups)
          /\ request' = [request EXCEPT ![p] = ups]
          /\ next' = [next EXCEPT ![p] = StageBody(root.body, ups)]
          /\ writes' = [writes EXCEPT ![p] = StageWrites(root.body, ups)]
    /\ Goto(p, "callback")
    /\ UNCHANGED <<root, objects>>

PushRefused(p) ==
    /\ p \in Pushers /\ pc[p] = "new"
    /\ \E ups \in PushedUpdates : DeletesDefault(root.body, ups)
    /\ Return(p, "failed")
    /\ UNCHANGED <<root, objects>>

\* Reshard leaves a sharded or an empty body alone.
ReshardNoop(p) ==
    /\ p \in Resharders /\ pc[p] = "new"
    /\ IsSharded(root.body) \/ root.body.refs = NoRefs
    /\ Return(p, "ok")
    /\ UNCHANGED <<root, objects>>

ReshardBegin(p) ==
    /\ p \in Resharders
    /\ Read(p)
    /\ ~IsSharded(root.body) /\ root.body.refs # NoRefs
    /\ next' = [next EXCEPT ![p] = ReshardBody(root.body)]
    /\ writes' = [writes EXCEPT ![p] =
          {next'[p].shards[s] : s \in {t \in ShardIds : next'[p].shards[t] # NoShard}}]
    /\ Goto(p, "put")
    /\ UNCHANGED <<root, objects, request>>

-----------------------------------------------------------------------------
CallbackUnchecked(p) ==  \* mutant: the callback ignores the version it is shown
    /\ pc[p] = "callback"
    /\ start' = [start EXCEPT ![p] = root.version]
    /\ Goto(p, IF p \in Pushers THEN "put" ELSE "cas")
    /\ UNCHANGED <<root, objects, base, request, next, writes>>

\* The callback of Repo.Commit fails fast when the version has advanced.  A
\* push puts its shards in the callback, Reshard has put them before.
Callback(p) ==
    /\ pc[p] = "callback"
    /\ \/ /\ root.version = start[p]
          /\ Goto(p, IF p \in Pushers THEN "put" ELSE "cas")
          /\ UNCHANGED <<start, base, request, next, writes>>
       \/ /\ root.version # start[p]
          /\ Return(p, "failed")
    /\ UNCHANGED <<root, objects>>

PutSkipped(p) ==  \* mutant: the root is put before the shards
    /\ pc[p] = "put"
    /\ Goto(p, "cas")
    /\ UNCHANGED <<root, objects, start, base, request, next, writes>>

\* One PutIfAbsent; an object that is already there has the same contents.
PutShard(p) ==
    /\ pc[p] = "put"
    /\ \/ \E w \in writes[p] :
             /\ objects' = objects \cup {w}
             /\ writes' = [writes EXCEPT ![p] = @ \ {w}]
             /\ UNCHANGED pc
       \/ /\ writes[p] = {}
          /\ Goto(p, IF p \in Pushers THEN "cas" ELSE "callback")
          /\ UNCHANGED <<objects, writes>>
    /\ UNCHANGED <<root, start, base, request, next>>

\* The conditional put, and a conflict, after which Repo.Commit calls back.
CAS(p) ==
    /\ pc[p] = "cas"
    /\ \/ /\ root.version = start[p]
          /\ root' = [version |-> start[p] + 1, body |-> next[p]]
          /\ Goto(p, "done")
       \/ /\ root.version # start[p]
          /\ Goto(p, "callback")
          /\ UNCHANGED root
    /\ UNCHANGED <<objects, start, base, request, next, writes>>

Done(p) ==
    /\ pc[p] = "done"
    /\ Return(p, "ok")
    /\ UNCHANGED <<root, objects>>

\* A fetch, a put or the commit fails, the context ends or the process dies;
\* whatever was put stays in the bucket.
Fail(p) ==
    /\ pc[p] \notin Ended \cup {"new"}
    /\ Return(p, "failed")
    /\ UNCHANGED <<root, objects>>

Finished ==
    /\ \A p \in Procs : pc[p] \in Ended
    /\ UNCHANGED vars

Next ==
    \/ \E p \in Procs :
          \/ PushBegin(p) \/ PushRefused(p) \/ ReshardNoop(p) \/ ReshardBegin(p)
          \/ Callback(p) \/ PutShard(p) \/ CAS(p) \/ Done(p) \/ Fail(p)
    \/ Finished

Spec == Init /\ [][Next]_vars

-----------------------------------------------------------------------------
TypeOK ==
    /\ root \in [version : Nat, body : Bodies]
    /\ objects \subseteq RefMaps
    /\ pc \in [Procs -> {"new", "callback", "put", "cas", "done"} \cup Ended]
    /\ start \in [Procs -> Nat]
    /\ base \in [Procs -> Bodies]
    /\ request \in [Procs -> Updates]
    /\ next \in [Procs -> Bodies]
    /\ writes \in [Procs -> SUBSET RefMaps]

\* Every shard object the root names is in the bucket: Fetching a shard never
\* fails for want of the object, because shards are put before the root.
RootShardsStored ==
    \A s \in ShardIds : root.body.shards[s] # NoShard => root.body.shards[s] \in objects

\* manifest.UnmarshalBody accepts every body that was committed: never inline
\* refs together with shards, never an empty shard, never two shards with the
\* same contents, and every ref in the shard its name hashes to.
ValidBody(b) ==
    /\ b.refs # NoRefs => ~IsSharded(b)
    /\ \A s \in ShardIds : b.shards[s] # NoShard =>
          /\ b.shards[s] # NoRefs
          /\ \A r \in Refnames : b.shards[s][r] # None => ShardKey[r] = s
          /\ \A t \in ShardIds \ {s} : b.shards[t] # b.shards[s]
RootIsValid == ValidBody(root.body)

\* The refs a push builds its commit graph and reachability data for are the
\* refs of the body it commits, in both layouts.
IndexesCoverRefs ==
    \A p \in Pushers : pc[p] \in {"callback", "put", "cas"} =>
        EffectiveRefs(base[p], request[p]) = List(next[p])

\* "Refuse to commit a body where DefaultBranch points at a deleted ref": no
\* commit makes the default branch disappear.
DefaultBranchKept ==
    [][Lookup(root.body, DefaultBranch) # None
         => Lookup(root'.body, DefaultBranch) # None]_root

\* The same, for repositories whose refs are inline.
InlineDefaultBranchKept ==
    [][~IsSharded(root.body) /\ Lookup(root.body, DefaultBranch) # None
         => Lookup(root'.body, DefaultBranch) # None]_root

(***************************************************************************)
(* Both layouts, and the migration between them, implement one flat map.   *)
(***************************************************************************)
AbsStatus(p) ==
    CASE pc[p] \in {"callback", "put", "cas"} -> "pending"
      [] pc[p] = "done" -> "applied"
      [] OTHER -> pc[p]

Abs == INSTANCE RefMap WITH
    refs <- List(root.body),
    request <- [p \in Pushers |-> request[p]],
    seen <- [p \in Pushers |-> List(base[p])],
    status <- [p \in Pushers |-> AbsStatus(p)]

RefMapSpec == Abs!Spec
=============================================================================
