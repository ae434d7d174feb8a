--------------------------------- MODULE Gc ---------------------------------
(***************************************************************************)
(* Garbage collection (internal/gc) beside the writers it runs against.    *)
(*                                                                         *)
(* A collection marks, sweeps, or does both, and takes no lock.  The mark  *)
(* phase reads the root, lists the bucket and stores every object the root *)
(* does not name as a candidate, with the time it was first seen that way; *)
(* a candidate of the previous mark keeps its time.  The sweep phase reads *)
(* the root again and deletes the candidates that are older than the       *)
(* retention window and still not named.  Transaction records count as     *)
(* candidates only without a commit marker, and are deleted only once a    *)
(* mark has seen a marker ("armed").                                       *)
(*                                                                         *)
(* A push is cut down to what collection can see of it: an artifact (its   *)
(* pack and indexes, which share their fate), a transaction record, the    *)
(* conditional put of the root, which RepoCommit shows to be atomic, and   *)
(* the marker.  Time is kept as ages that saturate at Retention, and ids   *)
(* that nothing refers to any more are used again, so behaviours are       *)
(* unbounded although states are finitely many.                            *)
(***************************************************************************)
EXTENDS Integers

CONSTANTS
    Ids,             \* identities of artifacts and transactions
    Writers,
    Retention,       \* retention_seconds, in ticks
    SessionMax,      \* ticks from a push's first upload to its end
    MarkMax,         \* ticks a mark phase takes
    ReuseAges,       \* ages as a candidate (-1: not one) at which a push may
                     \* find its artifact already stored (ErrAlreadyExists)
    Modes,           \* of "both", "mark", "sweep": the phases runs ask for
    CollectorFails   \* whether a collection may die or hit a storage error

ASSUME RetentionAssumption == Retention \in Nat /\ SessionMax \in Nat /\ MarkMax \in Nat
\* The retention window is longer than a push and two mark phases together.
ASSUME WindowAssumption == SessionMax + 2 * MarkMax < Retention
\* An artifact is found again only while a whole push still fits in its window.
ASSUME ReuseAssumption == \A a \in ReuseAges : a \in Int /\ a + SessionMax < Retention
ASSUME SwitchAssumption == CollectorFails \in BOOLEAN

VARIABLES
    root,                     \* [tx, art] named by the root manifest
    arts, records, markers,   \* objects in the bucket
    mark,                     \* the latest mark record
    wpc, id, art, stale, age, \* a push: its transaction, its artifact, whether
                              \* the root moved since it was read, ticks so far
    gpc, mode, stamp,         \* the collection, ticks since it started to mark
    view,                     \* the root its mark phase read
    listed, draft,            \* what the mark phase has listed so far
    todo,                     \* what the sweep phase has decided to delete
    dropped,                  \* history: ticks since the root named the artifact
    early,                    \* history: artifacts that became the root's while a
                              \* candidate, or during a mark phase, and since then
                              \* were a candidate of every mark
    everMarked                \* history: whether a marker ever was written

store == <<root, arts, records, markers>>
writer == <<wpc, id, art, stale, age>>
collector == <<gpc, mode, stamp, view, listed, draft, todo>>
history == <<dropped, early, everMarked>>
vars == <<root, arts, records, markers, mark, wpc, id, art, stale, age,
          gpc, mode, stamp, view, listed, draft, todo, dropped, early, everMarked>>

NoAge == -1
NoCandidates == [k \in Ids |-> NoAge]
Nothing == [arts |-> {}, records |-> {}, markers |-> {}]
NoDraft == [armed |-> FALSE, arts |-> {}, records |-> {}, markers |-> {}]
NoMark == [exists |-> FALSE, armed |-> FALSE,
           arts |-> NoCandidates, records |-> NoCandidates, markers |-> NoCandidates]

Older(a) == IF a = NoAge \/ a >= Retention THEN a ELSE a + 1
AllOlder(ages) == [k \in Ids |-> Older(ages[k])]
Named(ages) == {k \in Ids : ages[k] # NoAge}

\* What a root manifest keeps alive (BuildLiveSet).
Live(r) == [arts |-> {r.art}, tx |-> {r.tx}]

\* A repository in use.  One from before markers existed has the records of
\* its earlier commits and no marker.
Init ==
    /\ \E k \in Ids :
          /\ root = [tx |-> k, art |-> k]
          /\ arts = {k}
          /\ \/ records = {k} /\ markers = {k}
             \/ markers = {} /\ \E old \in SUBSET Ids : records = old \cup {k}
          /\ id = [w \in Writers |-> k]
          /\ art = [w \in Writers |-> k]
          /\ dropped = [j \in Ids |-> IF j = k THEN 0 ELSE Retention]
    /\ view = root
    /\ mark = NoMark
    /\ wpc = [w \in Writers |-> "idle"]
    /\ stale = [w \in Writers |-> FALSE]
    /\ age = [w \in Writers |-> 0]
    /\ gpc = "idle" /\ mode = "none" /\ stamp = 0
    /\ listed = {} /\ draft = NoDraft /\ todo = Nothing
    /\ early = {} /\ everMarked = (markers # {})

-----------------------------------------------------------------------------
(***************************************************************************)
(* Pushes.                                                                 *)
(***************************************************************************)
Marking == gpc \in {"arts", "records", "markers", "write"}

\* The ids in use: by an object, a root, a push under way or a collection.
Used ==
    arts \cup records \cup markers \cup {root.tx, root.art, view.tx, view.art}
    \cup {id[w] : w \in {v \in Writers : wpc[v] # "idle"}}
    \cup {art[w] : w \in {v \in Writers : wpc[v] # "idle"}}
    \cup Named(mark.arts) \cup Named(mark.records) \cup Named(mark.markers)
    \cup listed \cup draft.arts \cup draft.records \cup draft.markers
    \cup todo.arts \cup todo.records \cup todo.markers

\* A push that ended: its locals go out of scope.
Rest(w) ==
    /\ wpc' = [wpc EXCEPT ![w] = "idle"]
    /\ id' = [id EXCEPT ![w] = root'.tx]
    /\ art' = [art EXCEPT ![w] = root'.art]
    /\ age' = [age EXCEPT ![w] = 0]

\* BuildAndCommit reads the root and uploads its artifact under a fresh key, or
\* finds the same bytes there.
Upload(w) ==
    /\ wpc[w] = "idle"
    /\ \E n \in Ids \ Used :
          /\ id' = [id EXCEPT ![w] = n]
          /\ \/ /\ arts' = arts \cup {n}
                /\ art' = [art EXCEPT ![w] = n]
                /\ dropped' = [dropped EXCEPT ![n] = Retention]
             \/ \E a \in arts :
                /\ mark.arts[a] \in ReuseAges
                /\ art' = [art EXCEPT ![w] = a]
                /\ UNCHANGED <<arts, dropped>>
    /\ stale' = [stale EXCEPT ![w] = FALSE]
    /\ age' = [age EXCEPT ![w] = 0]
    /\ wpc' = [wpc EXCEPT ![w] = "uploaded"]
    /\ UNCHANGED <<root, records, markers, mark, collector, early, everMarked>>

\* The callback refuses when the root has moved; otherwise the record is put.
WriteTx(w) ==
    /\ wpc[w] = "uploaded" /\ ~stale[w]
    /\ records' = records \cup {id[w]}
    /\ wpc' = [wpc EXCEPT ![w] = "cas"]
    /\ UNCHANGED <<root, arts, markers, mark, id, art, stale, age, collector,
                   history>>

CAS(w) ==
    /\ wpc[w] = "cas" /\ ~stale[w]
    /\ root' = [tx |-> id[w], art |-> art[w]]
    /\ stale' = [v \in Writers |-> TRUE]
    /\ dropped' = [dropped EXCEPT ![root.art] = 0, ![art[w]] = 0]
    /\ early' = IF Marking \/ mark.arts[art[w]] # NoAge THEN early \cup {art[w]}
                ELSE early \ {art[w]}
    /\ wpc' = [wpc EXCEPT ![w] = "marker"]
    /\ UNCHANGED <<arts, records, markers, mark, id, art, age, collector, everMarked>>

\* Best effort: the marker may be lost.
WriteMarker(w) ==
    /\ wpc[w] = "marker"
    /\ \/ markers' = markers \cup {id[w]} /\ everMarked' = TRUE
       \/ UNCHANGED <<markers, everMarked>>
    /\ UNCHANGED root
    /\ Rest(w)
    /\ UNCHANGED <<arts, records, mark, stale, collector, dropped, early>>

\* A conflict, an error or the death of the process.
Abandon(w) ==
    /\ wpc[w] # "idle"
    /\ UNCHANGED root
    /\ Rest(w)
    /\ UNCHANGED <<arts, records, markers, mark, stale, collector, history>>

-----------------------------------------------------------------------------
(***************************************************************************)
(* The mark phase: read the root, take the time, list artifacts, records   *)
(* and markers (a record's key sorts before its marker's), write the mark. *)
(***************************************************************************)
MarkBegin ==
    /\ gpc = "idle"
    /\ mode' \in Modes \cap {"both", "mark"}
    /\ view' = root
    /\ stamp' = 0
    /\ gpc' = "arts"
    /\ UNCHANGED <<store, mark, writer, listed, draft, todo, history>>

MarkArtsLive ==  \* mutant: the live set is not consulted
    /\ gpc = "arts"
    /\ draft' = [draft EXCEPT !.arts = arts]
    /\ gpc' = "records"
    /\ UNCHANGED <<store, mark, writer, mode, stamp, view, listed, todo, history>>

MarkArts ==
    /\ gpc = "arts"
    /\ draft' = [draft EXCEPT !.arts = arts \ Live(view).arts]
    /\ gpc' = "records"
    /\ UNCHANGED <<store, mark, writer, mode, stamp, view, listed, todo, history>>

MarkRecords ==
    /\ gpc = "records"
    /\ listed' = records
    /\ gpc' = "markers"
    /\ UNCHANGED <<store, mark, writer, mode, stamp, view, draft, todo, history>>

MarkersForgotten(mkrs) == listed \ Live(view).tx  \* mutant: records with a marker count

OrphanRecords(mkrs) == listed \ (Live(view).tx \cup mkrs)

AlwaysArmed(mkrs) == TRUE  \* mutant: the gate on markers is left out

\* Armed once any mark saw a marker.
Armed(mkrs) == mkrs # {} \/ mark.armed

MarkMarkers ==
    /\ gpc = "markers"
    /\ draft' = [draft EXCEPT !.armed = Armed(markers),
                             !.records = OrphanRecords(markers),
                             !.markers = markers \ listed]
    /\ listed' = {}
    /\ gpc' = "write"
    /\ UNCHANGED <<store, mark, writer, mode, stamp, view, todo, history>>

CandidatesUntimed(prev, found) ==  \* mutant: new candidates get the zero time
    [k \in Ids |-> IF k \notin found THEN NoAge
                   ELSE IF prev[k] # NoAge THEN prev[k] ELSE Retention + 1]

CandidatesRestamped(prev, found) ==  \* mutant: every mark takes the time anew
    [k \in Ids |-> IF k \in found THEN stamp ELSE NoAge]

\* A candidate of the previous mark keeps the time it was first seen.
Candidates(prev, found) ==
    [k \in Ids |-> IF k \notin found THEN NoAge
                   ELSE IF prev[k] # NoAge THEN prev[k] ELSE stamp]

MarkWrite ==
    /\ gpc = "write"
    /\ mark' = [exists |-> TRUE, armed |-> draft.armed,
                arts |-> Candidates(mark.arts, draft.arts),
                records |-> Candidates(mark.records, draft.records),
                markers |-> Candidates(mark.markers, draft.markers)]
    /\ gpc' = IF mode = "mark" THEN "idle" ELSE "sweep"
    /\ draft' = NoDraft /\ stamp' = 0 /\ view' = root
    /\ early' = early \cap draft.arts
    /\ UNCHANGED <<store, writer, mode, listed, todo, dropped, everMarked>>

-----------------------------------------------------------------------------
(***************************************************************************)
(* The sweep phase: decide on the root as it is now, then delete one       *)
(* object after the other.                                                 *)
(***************************************************************************)
SweepOnly ==
    /\ gpc = "idle"
    /\ "sweep" \in Modes /\ mark.exists
    /\ mode' = "sweep"
    /\ gpc' = "sweep"
    /\ UNCHANGED <<store, mark, writer, stamp, view, listed, draft, todo, history>>

ClassifyAnyAge(ages, live) == Named(ages) \ live  \* mutant: retention is ignored

ClassifyNoRevival(ages, live) ==  \* mutant: the root is not read again
    {k \in Ids : ages[k] >= Retention}

\* Revived candidates and candidates within the window are skipped.
Classify(ages, live) == {k \in Ids : ages[k] >= Retention} \ live

SweepBegin ==
    /\ gpc = "sweep"
    /\ todo' = [arts |-> Classify(mark.arts, Live(root).arts),
                records |-> IF mark.armed THEN Classify(mark.records, Live(root).tx) ELSE {},
                markers |-> Classify(mark.markers, Live(root).tx)]
    /\ gpc' = "sweepRecords"
    /\ UNCHANGED <<store, mark, writer, mode, stamp, view, listed, draft, history>>

\* Head and DeleteIfVersionMatches; a failure is noted and the sweep goes on.
SweepRecord ==
    /\ gpc = "sweepRecords"
    /\ \/ \E k \in todo.records :
             /\ \/ records' = records \ {k}
                \/ CollectorFails /\ UNCHANGED records
             /\ todo' = [todo EXCEPT !.records = @ \ {k}]
             /\ UNCHANGED gpc
       \/ /\ todo.records = {}
          /\ gpc' = "sweepArts"
          /\ UNCHANGED <<records, todo>>
    /\ UNCHANGED <<root, arts, markers, mark, writer, mode, stamp, view, listed, draft,
                   history>>

SweepArt ==
    /\ gpc = "sweepArts"
    /\ \/ \E k \in todo.arts :
             /\ \/ arts' = arts \ {k}
                \/ CollectorFails /\ UNCHANGED arts
             /\ todo' = [todo EXCEPT !.arts = @ \ {k}]
             /\ UNCHANGED gpc
       \/ /\ todo.arts = {}
          /\ gpc' = "sweepMarkers"
          /\ UNCHANGED <<arts, todo>>
    /\ UNCHANGED <<root, records, markers, mark, writer, mode, stamp, view, listed, draft,
                   history>>

\* A marker whose record is there again is left alone.
SweepMarker ==
    /\ gpc = "sweepMarkers"
    /\ \/ \E k \in todo.markers :
             /\ \/ k \notin records /\ markers' = markers \ {k}
                \/ (k \in records \/ CollectorFails) /\ UNCHANGED markers
             /\ todo' = [todo EXCEPT !.markers = @ \ {k}]
             /\ UNCHANGED <<gpc, mode>>
       \/ /\ todo.markers = {}
          /\ gpc' = "idle" /\ mode' = "none"
          /\ UNCHANGED <<markers, todo>>
    /\ UNCHANGED <<root, arts, records, mark, writer, stamp, view, listed, draft,
                   history>>

\* A collection dies, or an error ends it; what it stored and deleted stays.
CollectorDies ==
    /\ CollectorFails /\ gpc # "idle"
    /\ gpc' = "idle" /\ mode' = "none" /\ stamp' = 0 /\ view' = root
    /\ listed' = {} /\ draft' = NoDraft /\ todo' = Nothing
    /\ UNCHANGED <<store, mark, writer, history>>

\* Time passes; pushes and mark phases are not overdue, and a sweep follows its
\* mark at once.
Tick ==
    /\ gpc # "sweep"
    /\ \A w \in Writers : wpc[w] # "idle" => age[w] < SessionMax
    /\ Marking => stamp < MarkMax
    /\ age' = [w \in Writers |-> IF wpc[w] = "idle" THEN 0 ELSE age[w] + 1]
    /\ stamp' = IF Marking THEN stamp + 1 ELSE stamp
    /\ mark' = [mark EXCEPT !.arts = AllOlder(@), !.records = AllOlder(@),
                           !.markers = AllOlder(@)]
    /\ dropped' = [k \in Ids |-> IF k = root.art THEN 0 ELSE Older(dropped[k])]
    /\ UNCHANGED <<store, wpc, id, art, stale, gpc, mode, view, listed, draft, todo,
                   early, everMarked>>

Push(w) == Upload(w) \/ WriteTx(w) \/ CAS(w) \/ WriteMarker(w)

Mark == MarkArts \/ MarkRecords \/ MarkMarkers \/ MarkWrite
Sweep == SweepBegin \/ SweepRecord \/ SweepArt \/ SweepMarker

Next ==
    \/ \E w \in Writers : Push(w) \/ Abandon(w)
    \/ MarkBegin \/ SweepOnly \/ Mark \/ Sweep
    \/ CollectorDies
    \/ Tick

Spec == Init /\ [][Next]_vars

\* Pushes end, the clock never stands still for good, and collections are started
\* again and again (the operator's schedule) and carried through.
FairSpec ==
    /\ Spec
    /\ \A w \in Writers : WF_vars(wpc[w] # "idle" /\ (Push(w) \/ Abandon(w)))
    /\ SF_vars(Tick)
    /\ WF_vars(MarkBegin \/ Mark \/ Sweep)

-----------------------------------------------------------------------------
Ages == -1..Retention
Found == [arts : SUBSET Ids, records : SUBSET Ids, markers : SUBSET Ids]

TypeOK ==
    /\ root \in [tx : Ids, art : Ids] /\ view \in [tx : Ids, art : Ids]
    /\ arts \subseteq Ids /\ records \subseteq Ids /\ markers \subseteq Ids
    /\ mark \in [exists : BOOLEAN, armed : BOOLEAN,
                 arts : [Ids -> Ages], records : [Ids -> Ages], markers : [Ids -> Ages]]
    /\ wpc \in [Writers -> {"idle", "uploaded", "cas", "marker"}]
    /\ id \in [Writers -> Ids] /\ art \in [Writers -> Ids]
    /\ stale \in [Writers -> BOOLEAN] /\ age \in [Writers -> 0..SessionMax]
    /\ gpc \in {"idle", "arts", "records", "markers", "write",
               "sweep", "sweepRecords", "sweepArts", "sweepMarkers"}
    /\ mode \in {"none", "both", "mark", "sweep"} /\ stamp \in 0..MarkMax
    /\ listed \subseteq Ids
    /\ draft \in [armed : BOOLEAN, arts : SUBSET Ids, records : SUBSET Ids, markers : SUBSET Ids]
    /\ todo \in Found
    /\ dropped \in [Ids -> 0..Retention] /\ early \subseteq Ids /\ everMarked \in BOOLEAN

\* The artifacts and the transaction record that the root names are in the
\* bucket, whatever a collection that overlaps a push deletes.
RootComplete == root.art \in arts /\ root.tx \in records

\* What a push has put in the bucket is still there when its commit names it.
UploadsKept ==
    \A w \in Writers : ~stale[w] =>
        /\ wpc[w] \in {"uploaded", "cas"} => art[w] \in arts
        /\ wpc[w] = "cas" => id[w] \in records

\* No transaction record is deleted before a commit marker was ever written:
\* in a repository from before markers, a missing marker means nothing.
UnmarkedHistoryKept == [][records' # records /\ ~(records \subseteq records') => everMarked]_vars

\* "By classification, an orphan tx record has no .commit sibling": a record
\* that is deleted by a run that marked first has no marker beside it, however
\* pushes and the mark phase overlapped.
SweptRecordsUnmarked ==
    [][(records \ records') \cap markers # {} => mode = "sweep"]_vars

\* An artifact that the root stopped naming at T2 "MUST remain protected until
\* at least T2 + retention_window": true of every artifact but those a mark saw
\* before their push committed and no mark saw named by the root.
DroppedKeptForRetention ==
    [][\A k \in arts \ arts' : k \in early \/ dropped[k] = Retention]_vars

\* An artifact that nothing names is deleted in the end, unless a push takes it
\* up again.
Garbage(k) == k \in arts /\ k # root.art /\ \A w \in Writers : wpc[w] = "idle" \/ art[w] # k
GarbageCollected == \A k \in Ids : Garbage(k) ~> ~Garbage(k)
=============================================================================
