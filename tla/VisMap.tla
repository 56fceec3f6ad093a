------------------------------- MODULE VisMap -------------------------------
(***************************************************************************)
(* The visibility-map fork that lets an index-only scan skip the fetch.    *)
(* VACUUM lists the all-visible row groups and then sets the bit of every  *)
(* synthetic block (K row numbers) that lies inside a run of them; writers *)
(* clear the bit of a row's block when they buffer the write; a rewrite or *)
(* expire clears the blocks of the groups it retires.  VACUUM, the rewrite *)
(* and expire exclude each other (ShareUpdateExclusiveLock), none excludes *)
(* DML.                                                                    *)
(***************************************************************************)
EXTENDS Integers, Sequences, SequencesExt

CONSTANTS
    Writers, Readers,
    Overlap,        \* may VACUUM run while a statement holds unflushed deletes?
    K,              \* COLUMNAR_VALID_ITEMPOINTER_OFFSETS: rows per synthetic block
    MaxCount,       \* bound: rows of one group
    MaxRow,         \* bound: row numbers
    MaxXid          \* bound: transaction ids

ASSUME VisMapConstants ==
    /\ Overlap \in BOOLEAN /\ K \in Nat \ {0}
    /\ MaxCount \in Nat \ {0} /\ MaxRow \in Nat /\ MaxXid \in Nat

VARIABLES
    groups,     \* committed row_group rows
    dead,       \* row numbers whose delete is committed
    nextRow, nextXid,
    vm,         \* blocks with the all-visible bit set
    wxid,       \* xid of each writer's transaction, 0 when idle
    wgroups,    \* groups it has written
    wmarks,     \* its delete buffer
    wflushed,   \* rows of the delete_vector rows it has written
    sxmin, svis,    \* each reader's snapshot: xmin, rows it sees
    vtodo,      \* blocks VACUUM has still to mark
    mgone, mnew, mxid,  \* maintenance: groups it retires, has written, its xid
    mheld       \* groups in which it makes the flush of a delete wait

wvars == <<wxid, wgroups, wmarks, wflushed>>
svars == <<sxmin, svis>>
mvars == <<mgone, mnew, mxid, mheld>>
vars == <<groups, dead, nextRow, nextXid, vm, wvars, svars, vtodo, mvars>>

RowGroup == [first : Nat, count : Nat \ {0}, xid : Nat]
After(g) == g.first + g.count                       \* the first row past g
RowsOf(g) == g.first .. (After(g) - 1)
RowsIn(gs) == UNION {RowsOf(g) : g \in gs}
Block(n) == n \div K                                \* PgColumnarVMClearForRow
RowsOfBlock(b) == (b * K) .. (b * K + K - 1)
Blocks(rs) == {Block(n) : n \in rs}                 \* PgColumnarVMClearForRowRange

Init ==
    /\ groups = {} /\ dead = {} /\ nextRow = 1 /\ nextXid = 1 /\ vm = {}
    /\ wxid = [w \in Writers |-> 0] /\ wgroups = [w \in Writers |-> {}]
    /\ wmarks = [w \in Writers |-> {}] /\ wflushed = [w \in Writers |-> {}]
    /\ sxmin = [r \in Readers |-> 0] /\ svis = [r \in Readers |-> {}]
    /\ vtodo = {} /\ mgone = {} /\ mnew = {} /\ mxid = 0 /\ mheld = {}

Running == ({wxid[w] : w \in Writers} \cup {mxid}) \ {0}
OldestRunning == Min(Running \cup {nextXid})

\* TransactionIdPrecedes(x, PgColumnarOldestXmin)
BehindHorizon(x) ==
    /\ x < OldestRunning
    /\ \A r \in Readers : sxmin[r] # 0 => x < sxmin[r]
---------------------------------------------------------------------------
Begin(w) ==
    /\ wxid[w] = 0 /\ nextXid <= MaxXid
    /\ wxid' = [wxid EXCEPT ![w] = nextXid] /\ nextXid' = nextXid + 1
    /\ UNCHANGED <<groups, dead, nextRow, vm, wgroups, wmarks, wflushed, svars, vtodo, mvars>>

\* tuple_insert of n rows, each clearing its block's bit, and their flush.
Insert(w, n) ==
    /\ wxid[w] # 0 /\ nextRow + n <= MaxRow + 1
    /\ LET g == [first |-> nextRow, count |-> n, xid |-> wxid[w]]
       IN  /\ wgroups' = [wgroups EXCEPT ![w] = @ \cup {g}]
           /\ vm' = vm \ Blocks(RowsOf(g))
    /\ nextRow' = nextRow + n
    /\ UNCHANGED <<groups, dead, nextXid, wxid, wmarks, wflushed, svars, vtodo, mvars>>

\* PgColumnarMarkRowDeleted: the mark is buffered and the bit cleared, now.
\* Another writer's marks are not looked at until the flush.
MarkRowDeleted(w, n) ==
    /\ wxid[w] # 0 /\ (Overlap \/ vtodo = {})
    /\ n \in RowsIn(groups) \ dead
    /\ n \notin wmarks[w] \cup wflushed[w]
    /\ wmarks' = [wmarks EXCEPT ![w] = @ \cup {n}]
    /\ vm' = vm \ {Block(n)}
    /\ UNCHANGED <<groups, dead, nextRow, nextXid, wxid, wgroups, wflushed, svars, vtodo, mvars>>

\* The groups w has marks in.
Marked(w) == {g \in groups : wmarks[w] \cap RowsOf(g) # {}}

\* delete_vector_flush_buffer: the marks become delete_vector rows.  A group
\* another deleter or maintenance holds is waited for; a retired group, and a
\* row another transaction has deleted meanwhile, fail the flush.
FlushMarks(w) ==
    /\ wmarks[w] # {} /\ wmarks[w] \subseteq RowsIn(groups) \ dead
    /\ \A v \in Writers \ {w} : wflushed[v] \cap RowsIn(Marked(w)) = {}
    /\ Marked(w) \cap mheld = {}
    /\ wflushed' = [wflushed EXCEPT ![w] = @ \cup wmarks[w]]
    /\ wmarks' = [wmarks EXCEPT ![w] = {}]
    /\ UNCHANGED <<groups, dead, nextRow, nextXid, vm, wxid, wgroups, svars, vtodo, mvars>>

EndWriter(w) ==
    /\ wxid' = [wxid EXCEPT ![w] = 0] /\ wgroups' = [wgroups EXCEPT ![w] = {}]
    /\ wmarks' = [wmarks EXCEPT ![w] = {}] /\ wflushed' = [wflushed EXCEPT ![w] = {}]
    /\ UNCHANGED <<nextRow, nextXid, vm, svars, vtodo, mvars>>

Commit(w) ==
    /\ wxid[w] # 0 /\ wmarks[w] = {}
    /\ groups' = groups \cup wgroups[w]
    /\ dead' = dead \cup wflushed[w]
    /\ EndWriter(w)

Abort(w) ==
    /\ wxid[w] # 0
    /\ EndWriter(w) /\ UNCHANGED <<groups, dead>>

TakeSnapshot(r) ==
    /\ sxmin[r] = 0
    /\ sxmin' = [sxmin EXCEPT ![r] = OldestRunning]
    /\ svis' = [svis EXCEPT ![r] = RowsIn(groups) \ dead]
    /\ UNCHANGED <<groups, dead, nextRow, nextXid, vm, wvars, vtodo, mvars>>

EndRead(r) ==
    /\ sxmin[r] # 0
    /\ sxmin' = [sxmin EXCEPT ![r] = 0] /\ svis' = [svis EXCEPT ![r] = {}]
    /\ UNCHANGED <<groups, dead, nextRow, nextXid, vm, wvars, vtodo, mvars>>
---------------------------------------------------------------------------
\* Mutant: an MVCC snapshot, which misses the deletes in progress.
CommittedDeletes == dead

\* Deletes a dirty snapshot sees: delete_vector rows, committed or in progress.
DirtyDeletes == dead \cup UNION {wflushed[w] : w \in Writers}

\* PgColumnarComputeAllVisibleGroups
AllVisibleGroups ==
    {g \in groups : BehindHorizon(g.xid) /\ RowsOf(g) \cap DirtyDeletes = {}}

\* Mutant: two groups merge only when they overlap.
MergeOverlapping(runs, g) ==
    IF runs # <<>> /\ g.first < Last(runs).hi
    THEN [runs EXCEPT ![Len(runs)].hi = Max({@, After(g)})]
    ELSE Append(runs, [lo |-> g.first, hi |-> After(g)])

\* The merge loop: group g, next in row order, extends the last run when it
\* starts at or before the run's end, and starts a new run otherwise.
Merge(runs, g) ==
    IF runs # <<>> /\ g.first <= Last(runs).hi
    THEN [runs EXCEPT ![Len(runs)].hi = Max({@, After(g)})]
    ELSE Append(runs, [lo |-> g.first, hi |-> After(g)])

\* The runs [lo, hi) of contiguous groups: the loop over the sorted array.
Runs(gs) == FoldLeft(Merge, <<>>, SetToSortSeq(gs, LAMBDA g, h : g.first < h.first))

\* Mutant: the loop also sets the block that holds row hi.
BlocksThrough(run) == ((run.lo + K - 1) \div K) .. (run.hi \div K)

\* The blocks the loop sets for one run: ceil(lo / K) to floor(hi / K) - 1.
BlocksWithin(run) == ((run.lo + K - 1) \div K) .. ((run.hi \div K) - 1)

WholeBlocks(gs) == UNION {BlocksWithin(run) : run \in Range(Runs(gs))}

\* PgColumnarVMSetVisibleForRelation lists first ...
VacuumList ==
    /\ vtodo = {} /\ mxid = 0
    /\ Overlap \/ \A w \in Writers : wmarks[w] = {}
    /\ vtodo' = WholeBlocks(AllVisibleGroups)
    /\ UNCHANGED <<groups, dead, nextRow, nextXid, vm, wvars, svars, mvars>>

\* ... and then marks block after block, in ascending order.
VacuumSet ==
    /\ vtodo # {}
    /\ vm' = vm \cup {Min(vtodo)} /\ vtodo' = vtodo \ {Min(vtodo)}
    /\ UNCHANGED <<groups, dead, nextRow, nextXid, wvars, svars, mvars>>

\* VACUUM is cancelled.
VacuumStop ==
    /\ vtodo # {} /\ vtodo' = {}
    /\ UNCHANGED <<groups, dead, nextRow, nextXid, vm, wvars, svars, mvars>>
---------------------------------------------------------------------------
\* Mutant: a group with no live row is rewritten to an empty one.
RewriteToEmpty(g) ==
    /\ mxid = 0 /\ vtodo = {} /\ nextXid <= MaxXid
    /\ \A w \in Writers : wflushed[w] \cap RowsOf(g) = {}
    /\ LET n == Cardinality(RowsOf(g) \ dead)
       IN  /\ nextRow + n <= MaxRow + 1
           /\ mnew' = {[first |-> nextRow, count |-> n, xid |-> nextXid]}
           /\ nextRow' = nextRow + n
    /\ vm' = vm \ Blocks(RowsOf(g))
    /\ mgone' = {g} /\ mheld' = {g} /\ mxid' = nextXid /\ nextXid' = nextXid + 1
    /\ UNCHANGED <<groups, dead, wvars, svars, vtodo>>

\* rewrite_one_group: live rows to a new group, the old group's blocks cleared.
\* Deleters of the group hold its lock until they end.
RewriteOneGroup(g) ==
    /\ mxid = 0 /\ vtodo = {} /\ nextXid <= MaxXid
    /\ \A w \in Writers : wflushed[w] \cap RowsOf(g) = {}
    /\ LET n == Cardinality(RowsOf(g) \ dead)
       IN  /\ nextRow + n <= MaxRow + 1
           /\ mnew' = IF n = 0 THEN {} ELSE {[first |-> nextRow, count |-> n, xid |-> nextXid]}
           /\ nextRow' = nextRow + n
    /\ vm' = vm \ Blocks(RowsOf(g))
    /\ mgone' = {g} /\ mheld' = {g} /\ mxid' = nextXid /\ nextXid' = nextXid + 1
    /\ UNCHANGED <<groups, dead, wvars, svars, vtodo>>

\* Mutant: expire leaves the bits of the group it retires.
ExpireKeepsBits(g) ==
    /\ mxid = 0 /\ vtodo = {} /\ nextXid <= MaxXid
    /\ LET stored == dead \cap RowsOf(g) # {}
       IN  /\ stored => \A w \in Writers : wflushed[w] \cap RowsOf(g) = {}
           /\ mheld' = IF stored THEN {g} ELSE {}
    /\ mgone' = {g} /\ mxid' = nextXid /\ nextXid' = nextXid + 1
    /\ UNCHANGED <<groups, dead, nextRow, vm, wvars, svars, vtodo, mnew>>

\* pgcolumnar_expire of one group: the blocks of its rows are cleared and the
\* group is retired.  It takes no chunk-group lock; it and a deleter of the
\* group wait for each other only over a delete_vector row that exists.
Expire(g) ==
    /\ mxid = 0 /\ vtodo = {} /\ nextXid <= MaxXid
    /\ LET stored == dead \cap RowsOf(g) # {}
       IN  /\ stored => \A w \in Writers : wflushed[w] \cap RowsOf(g) = {}
           /\ mheld' = IF stored THEN {g} ELSE {}
    /\ vm' = vm \ Blocks(RowsOf(g))
    /\ mgone' = {g} /\ mxid' = nextXid /\ nextXid' = nextXid + 1
    /\ UNCHANGED <<groups, dead, nextRow, wvars, svars, vtodo, mnew>>

EndMaint ==
    /\ mgone' = {} /\ mnew' = {} /\ mxid' = 0 /\ mheld' = {}
    /\ UNCHANGED <<dead, nextRow, nextXid, vm, wvars, svars, vtodo>>

MaintCommit ==
    /\ mxid # 0 /\ groups' = (groups \ mgone) \cup mnew /\ EndMaint

MaintAbort ==
    /\ mxid # 0 /\ groups' = groups /\ EndMaint

Next ==
    \/ \E w \in Writers :
         \/ Begin(w) \/ FlushMarks(w) \/ Commit(w) \/ Abort(w)
         \/ \E n \in 1..MaxCount : Insert(w, n)
         \/ \E n \in RowsIn(groups) : MarkRowDeleted(w, n)
    \/ \E r \in Readers : TakeSnapshot(r) \/ EndRead(r)
    \/ VacuumList \/ VacuumSet \/ VacuumStop
    \/ \E g \in groups : RewriteOneGroup(g) \/ Expire(g)
    \/ MaintCommit \/ MaintAbort

Spec == Init /\ [][Next]_vars
---------------------------------------------------------------------------
\* No row group is empty, and maintenance retires only groups of the catalog.
VisMapTypeOK ==
    /\ groups \subseteq RowGroup /\ dead \subseteq Nat
    /\ nextRow \in Nat /\ nextXid \in Nat /\ vm \subseteq Nat
    /\ wxid \in [Writers -> Nat] /\ wgroups \in [Writers -> SUBSET RowGroup]
    /\ wmarks \in [Writers -> SUBSET Nat] /\ wflushed \in [Writers -> SUBSET Nat]
    /\ sxmin \in [Readers -> Nat] /\ svis \in [Readers -> SUBSET Nat]
    /\ vtodo \subseteq Nat
    /\ mgone \subseteq groups /\ mnew \subseteq RowGroup /\ mxid \in Nat
    /\ mheld \subseteq mgone

\* The sort, the merge and the rounding of the set loop find exactly the blocks
\* every row of which is in an all-visible group: "every synthetic block that lies
\* *entirely* within a merged all-visible run", also when the run is made of
\* several groups, and no boundary block.
SetsWholeBlocks ==
    WholeBlocks(AllVisibleGroups) =
        {b \in 0..MaxRow : RowsOfBlock(b) \subseteq RowsIn(AllVisibleGroups)}

\* "An index-only answer therefore never returns a row the snapshot cannot see":
\* every row number of a block whose bit is set is one that every snapshot sees.
IndexOnlyReadsVisible ==
    \A r \in Readers : sxmin[r] # 0 => \A b \in vm : RowsOfBlock(b) \subseteq svis[r]

\* The insert side of the same promise: a set bit covers only rows of committed
\* groups, and no snapshot predates one of them.
SetBitsCoverOldInserts ==
    \A b \in vm : \A n \in RowsOfBlock(b) :
        \E g \in groups : n \in RowsOf(g) /\ BehindHorizon(g.xid)
=============================================================================
