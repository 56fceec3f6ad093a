------------------------------ MODULE Reclaim ------------------------------
(***************************************************************************)
(* Physical space of one columnar table: row groups appended at the        *)
(* metapage highwater, groups retired by online maintenance into the       *)
(* free_space catalog, freed ranges reused by later maintenance once the   *)
(* oldest-xmin horizon has passed the freeing transaction, and physical    *)
(* end-truncation of the file.                                             *)
(*                                                                         *)
(* Unit.  Offsets and lengths are in pages.  The code keeps bytes, but     *)
(* every reservation starts on a page boundary (PgColumnarReserveOffset    *)
(* rounds up), every footprint is COLUMNAR_PAGE_ROUND_UP of the data, and  *)
(* every comparison with the highwater is made against a page-aligned      *)
(* offset, so rounding the highwater up to a page loses nothing.  Page 0   *)
(* here is the first data page, COLUMNAR_FIRST_LOGICAL_OFFSET.             *)
(*                                                                         *)
(* Locks.  Maintenance verbs hold ShareUpdateExclusiveLock to the end of   *)
(* their transaction, so one maintenance transaction exists at a time and  *)
(* its uncommitted catalog changes are kept here as its private view       *)
(* (mfree, mnew, mgone) that a commit installs and an abort drops.  Bytes  *)
(* and the metapage are not transactional: they keep what was written.     *)
(***************************************************************************)
EXTENDS Integers, FiniteSets

CONSTANTS
    Writers,    \* backends running INSERT or COPY
    Readers,    \* backends holding a snapshot
    Coalesce,   \* the settings pgcolumnar.reclaim_coalesce takes over time
    MaxLen,     \* bound: pages of one row group
    MaxPage,    \* bound: pages of the file
    MaxXid,     \* bound: transaction ids
    MaxGroup    \* bound: row group numbers

ASSUME ReclaimConstants ==
    /\ Coalesce \subseteq BOOLEAN
    /\ MaxLen \in Nat \ {0} /\ MaxPage \in Nat \ {0}
    /\ MaxXid \in Nat \ {0} /\ MaxGroup \in Nat \ {0}

VARIABLES
    groups,     \* committed row_group rows
    dead,       \* group number -> xid of the delete that emptied it, 0 if live
    free,       \* committed free_space rows
    hw,         \* metapage reservedOffset
    eof,        \* blocks in the main fork
    page,       \* page -> number of the group whose bytes it holds, 0 if none
    nextId,     \* metapage reservedStripeId
    nextXid,    \* next transaction id
    wxid,       \* writer -> its xid, 0 when idle
    wnew,       \* writer -> row_group rows it has inserted, uncommitted
    sxmin,      \* reader -> xmin of its snapshot, 0 when it has none
    svis,       \* reader -> groups its snapshot sees
    slock,      \* readers that have the table open
    mpc,        \* what the maintenance transaction is doing
    mxid,       \* its xid
    mfree,      \* its view of free_space
    mnew,       \* row_group rows it has inserted
    mgone,      \* committed row_group rows it has deleted
    mend        \* the live end a truncation computed (its local liveEnd)

store == <<groups, dead, free, hw, eof, page, nextId, nextXid>>
wvars == <<wxid, wnew>>
svars == <<sxmin, svis, slock>>
mvars == <<mpc, mxid, mfree, mnew, mgone, mend>>
vars  == <<store, wvars, svars, mvars>>

Group == [id : Nat, off : Nat, len : Nat \ {0}, xmin : Nat]
FreeRow == [off : Nat, len : Nat \ {0}, xid : Nat]

\* The verbs that may allocate or retire, and the phases of pgcolumnar.truncate.
Verbs == {"compact", "rewrite", "expire"}
TruncPhases == {"healed", "shrunk", "lowered"}

End(r) == r.off + r.len
Disjoint(r, s) == End(r) <= s.off \/ End(s) <= r.off
Footprint(r) == r.off .. (End(r) - 1)

InFlight == UNION {wnew[w] : w \in Writers}

\* x precedes GetOldestNonRemovableTransactionId: no running transaction and
\* no snapshot is as old as x.
BehindHorizon(x) ==
    /\ x < nextXid
    /\ \A w \in Writers : wxid[w] # 0 => x < wxid[w]
    /\ \A r \in Readers : sxmin[r] # 0 => x < sxmin[r]
    /\ mpc # "idle" => x < mxid

\* x is the xmin a snapshot taken now gets: the oldest running xid.
SnapshotXmin(x) ==
    LET running == {wxid[w] : w \in Writers} \cup
                   (IF mpc = "idle" THEN {} ELSE {mxid})
    IN  /\ x \in (running \ {0}) \cup {nextXid}
        /\ \A y \in running \ {0} : x <= y

\* Mutant: the relation lock is released once the file is shrunk.
ExclusiveUntilShrunk == mpc # "healed"

\* The table is not held under AccessExclusiveLock, which a truncation keeps to
\* the end of its transaction.
NotExclusive == mpc \notin TruncPhases
---------------------------------------------------------------------------
Init ==
    /\ groups = {} /\ free = {} /\ hw = 0 /\ eof = 0
    /\ dead = [g \in 1..MaxGroup |-> 0]
    /\ page = [p \in 0..(MaxPage - 1) |-> 0]
    /\ nextId = 1 /\ nextXid = 1
    /\ wxid = [w \in Writers |-> 0] /\ wnew = [w \in Writers |-> {}]
    /\ sxmin = [r \in Readers |-> 0] /\ svis = [r \in Readers |-> {}]
    /\ slock = {}
    /\ mpc = "idle" /\ mxid = 0 /\ mfree = {} /\ mnew = {} /\ mgone = {}
    /\ mend = 0

\* PgColumnarWriteLogicalData: write group g's bytes, extending the file over
\* any gap between its end and the first page written.
WriteLogicalData(g) ==
    /\ page' = [p \in DOMAIN page |-> IF p \in Footprint(g) THEN g.id ELSE page[p]]
    /\ eof' = IF End(g) > eof THEN End(g) ELSE eof

\* The group a flush of n pages writes at offset o under transaction x.
NewGroup(o, n, x) == [id |-> nextId, off |-> o, len |-> n, xmin |-> x]

\* A plain insert flushes a row group: it always appends at the highwater
\* (PgColumnarReserveOffset) and writes under the relation extension lock.
\* Writers overlap: the storage-row lock (module RowConflict) serializes plain
\* INSERTs from their first flush, but a bulk-parallel loader skips it.
InsertFlush(w, n) ==
    /\ NotExclusive
    /\ nextId <= MaxGroup /\ hw + n <= MaxPage
    /\ wxid[w] # 0 \/ nextXid <= MaxXid
    /\ LET x == IF wxid[w] = 0 THEN nextXid ELSE wxid[w]
           g == NewGroup(hw, n, x)
       IN  /\ wnew' = [wnew EXCEPT ![w] = @ \cup {g}]
           /\ wxid' = [wxid EXCEPT ![w] = x]
           /\ nextXid' = IF wxid[w] = 0 THEN nextXid + 1 ELSE nextXid
           /\ WriteLogicalData(g)
    /\ hw' = hw + n
    /\ nextId' = nextId + 1
    /\ UNCHANGED <<groups, dead, free, svars, mvars>>

WriterCommit(w) ==
    /\ wxid[w] # 0
    /\ groups' = groups \cup wnew[w]
    /\ wxid' = [wxid EXCEPT ![w] = 0]
    /\ wnew' = [wnew EXCEPT ![w] = {}]
    /\ UNCHANGED <<dead, free, hw, eof, page, nextId, nextXid, svars, mvars>>

\* An aborted insert leaves its bytes and the advanced highwater behind.
WriterAbort(w) ==
    /\ wxid[w] # 0
    /\ wxid' = [wxid EXCEPT ![w] = 0]
    /\ wnew' = [wnew EXCEPT ![w] = {}]
    /\ UNCHANGED <<store, svars, mvars>>

\* A committed DELETE of every row of g.  A group under rewrite is refused by
\* the chunk-group lock (module RowConflict has that protocol in full).
DeleteAllRows(g) ==
    /\ NotExclusive /\ nextXid <= MaxXid
    /\ g \in groups \ mgone /\ dead[g.id] = 0
    /\ dead' = [dead EXCEPT ![g.id] = nextXid]
    /\ nextXid' = nextXid + 1
    /\ UNCHANGED <<groups, free, hw, eof, page, nextId, wvars, svars, mvars>>

TakeSnapshot(r) ==
    /\ sxmin[r] = 0
    /\ \E x \in 1..nextXid : SnapshotXmin(x) /\ sxmin' = [sxmin EXCEPT ![r] = x]
    /\ svis' = [svis EXCEPT ![r] = groups]
    /\ UNCHANGED <<store, wvars, slock, mvars>>

\* The scan opens the table, after the snapshot was taken.
OpenTable(r) ==
    /\ NotExclusive
    /\ sxmin[r] # 0 /\ r \notin slock
    /\ slock' = slock \cup {r}
    /\ UNCHANGED <<store, wvars, sxmin, svis, mvars>>

EndRead(r) ==
    /\ sxmin[r] # 0
    /\ sxmin' = [sxmin EXCEPT ![r] = 0]
    /\ svis' = [svis EXCEPT ![r] = {}]
    /\ slock' = slock \ {r}
    /\ UNCHANGED <<store, wvars, mvars>>
---------------------------------------------------------------------------
\* PgColumnarReconcileFreeList: drop the free rows that overlap a live group.
Reconcile(fs, gs) == {f \in fs : \A g \in gs : Disjoint(f, g)}

\* The groups the maintenance transaction's latest snapshot sees.
Live == (groups \ mgone) \cup mnew

\* A maintenance verb starts, in a new transaction or in the open one.
\* compact, compact_rewrite and recluster reconcile first; expire does not.
MaintBegin(v) ==
    /\ v \in Verbs
    /\ mpc = "idle" \/ mpc \in Verbs \ {v}
    /\ mpc = "idle" => nextXid <= MaxXid
    /\ mpc' = v
    /\ mxid' = IF mpc = "idle" THEN nextXid ELSE mxid
    /\ nextXid' = IF mpc = "idle" THEN nextXid + 1 ELSE nextXid
    /\ LET fs == IF mpc = "idle" THEN free ELSE mfree
       IN  mfree' = IF v = "expire" THEN fs ELSE Reconcile(fs, Live)
    /\ UNCHANGED <<groups, dead, free, hw, eof, page, nextId, wvars, svars,
                   mnew, mgone, mend>>

\* The free ranges a reservation of n pages may consume.
Fitting(n) == {f \in mfree : f.len >= n /\ BehindHorizon(f.xid)}

\* Mutant: the remnant starts one page early, inside the range handed out.
RemnantTooLong(f, n, c) ==
    IF c /\ f.len > n
    THEN {[off |-> f.off + n - 1, len |-> f.len - n + 1, xid |-> f.xid]}
    ELSE {}

\* Mutant: an exact fit leaves an empty remnant behind.
RemnantOnExactFit(f, n, c) ==
    IF c THEN {[off |-> f.off + n, len |-> f.len - n, xid |-> f.xid]} ELSE {}

\* What the consumption of f by n pages leaves in the free list.
Remnant(f, n, c) ==
    IF c /\ f.len > n
    THEN {[off |-> f.off + n, len |-> f.len - n, xid |-> f.xid]}
    ELSE {}

\* flush_row_group in a transaction that holds ShareUpdateExclusiveLock: the
\* rows a rewrite verb moves, or an INSERT that follows a verb in the same
\* transaction.  PgColumnarAllocateFreeSpace hands out the smallest fitting range.
MaintReuse(f, n, c) ==
    /\ mpc \in Verbs /\ nextId <= MaxGroup
    /\ f \in Fitting(n) /\ \A h \in Fitting(n) : f.len <= h.len
    /\ mfree' = (mfree \ {f}) \cup Remnant(f, n, c)
    /\ LET g == NewGroup(f.off, n, mxid)
       IN  WriteLogicalData(g) /\ mnew' = mnew \cup {g}
    /\ nextId' = nextId + 1
    /\ UNCHANGED <<groups, dead, free, hw, nextXid, wvars, svars,
                   mpc, mxid, mgone, mend>>

\* ... and appends at the highwater when no freed range fits.
MaintAppend(n) ==
    /\ mpc \in Verbs /\ nextId <= MaxGroup /\ hw + n <= MaxPage
    /\ Fitting(n) = {}
    /\ hw' = hw + n
    /\ LET g == NewGroup(hw, n, mxid)
       IN  WriteLogicalData(g) /\ mnew' = mnew \cup {g}
    /\ nextId' = nextId + 1
    /\ UNCHANGED <<groups, dead, free, nextXid, wvars, svars,
                   mpc, mxid, mfree, mgone, mend>>

\* record_free_space: add g's footprint, freed by x, merging it with a left and
\* a right neighbour that the same transaction freed.  free_space never holds
\* two rows that overlap, so there is at most one of each.
RecordFreeSpace(fs, g, x, c) ==
    LET L  == {f \in fs : c /\ f.xid = x /\ End(f) = g.off}
        R  == {f \in fs : c /\ f.xid = x /\ f.off = End(g)}
        lo == IF L = {} THEN g.off ELSE (CHOOSE f \in L : TRUE).off
        hi == IF R = {} THEN End(g) ELSE End(CHOOSE f \in R : TRUE)
    IN  (fs \ (L \cup R)) \cup {[off |-> lo, len |-> hi - lo, xid |-> x]}

\* PgColumnarRetireGroup.  compact retires a group that is fully deleted as of
\* the horizon; the rewrites and expire retire a group that still has rows.
Retire(g, c) ==
    /\ mpc \in Verbs /\ g \in Live
    /\ mpc = "compact" => /\ dead[g.id] # 0 /\ BehindHorizon(dead[g.id])
                          /\ BehindHorizon(g.xmin)
    /\ mfree' = RecordFreeSpace(mfree, g, mxid, c)
    /\ mnew' = mnew \ {g}
    /\ mgone' = IF g \in groups THEN mgone \cup {g} ELSE mgone
    /\ UNCHANGED <<store, wvars, svars, mpc, mxid, mend>>

EndMaint ==
    /\ mpc' = "idle" /\ mxid' = 0 /\ mfree' = {} /\ mnew' = {} /\ mgone' = {}
    /\ mend' = 0

MaintCommit ==
    /\ mpc \in Verbs
    /\ groups' = Live
    /\ free' = mfree
    /\ EndMaint
    /\ UNCHANGED <<dead, hw, eof, page, nextId, nextXid, wvars, svars>>

MaintAbort ==
    /\ mpc \in Verbs
    /\ EndMaint
    /\ UNCHANGED <<store, wvars, svars>>
---------------------------------------------------------------------------
\* Mutant: the end of any live group is taken for the end of the live data.
IsSomeLiveEnd(e) == e = 0 \/ \E g \in groups : End(g) = e

\* e is the end of the highest live group.
IsLiveEnd(e) ==
    /\ \A g \in groups : End(g) <= e
    /\ e = 0 \/ \E g \in groups : End(g) = e

\* Mutant: the tail is cut without a look at the horizon.
TrailingFreeSpaceUnchecked(fs, e) == TRUE

\* PgColumnarTrailingFreeSpaceSafe: no freed range of the tail can be read.
TrailingFreeSpaceSafe(fs, e) == \A f \in fs : f.off >= e => BehindHorizon(f.xid)

\* pgcolumnar_do_end_truncation up to and including the physical truncate,
\* under a conditionally acquired AccessExclusiveLock: purge the free rows at
\* or above the highwater, reconcile, compute the live end, and, when the tail
\* is reclaimable, drop its free rows and shrink the file.  The live end is not
\* compared with the highwater.
Truncate(e) ==
    /\ mpc = "idle" /\ nextXid <= MaxXid
    /\ slock = {} /\ \A w \in Writers : wxid[w] = 0
    /\ IsLiveEnd(e) /\ mend' = e
    /\ mxid' = nextXid /\ nextXid' = nextXid + 1
    /\ LET fs == Reconcile({f \in free : f.off < hw}, groups)
       IN  IF e < eof /\ TrailingFreeSpaceSafe(fs, e)
           THEN mpc' = "shrunk" /\ eof' = e /\ mfree' = {f \in fs : f.off < e}
           ELSE mpc' = "healed" /\ eof' = eof /\ mfree' = fs
    /\ UNCHANGED <<groups, dead, free, hw, page, nextId, wvars, svars, mnew, mgone>>

\* PgColumnarSetReservedOffset, after the physical truncate, to the live end
\* computed before it.
TruncateLower ==
    /\ mpc = "shrunk"
    /\ hw' = mend
    /\ mpc' = "lowered"
    /\ UNCHANGED <<groups, dead, free, eof, page, nextId, nextXid, wvars, svars,
                   mxid, mfree, mnew, mgone, mend>>

TruncateCommit ==
    /\ mpc \in {"healed", "lowered"}
    /\ free' = mfree
    /\ EndMaint
    /\ UNCHANGED <<groups, dead, hw, eof, page, nextId, nextXid, wvars, svars>>

\* The server stops: every open transaction aborts and every snapshot goes.
\* The file and the metapage stay as they are, the catalog as committed.
CrashEffect ==
    /\ wxid' = [w \in Writers |-> 0] /\ wnew' = [w \in Writers |-> {}]
    /\ sxmin' = [r \in Readers |-> 0] /\ svis' = [r \in Readers |-> {}]
    /\ slock' = {}
    /\ EndMaint
    /\ UNCHANGED store

\* A crash anywhere but between the lowering of the highwater and the commit.
Crash == mpc # "lowered" /\ CrashEffect

\* A crash in that window: the lowered highwater persists, and the free_space
\* rows whose deletion was not committed are back.
CrashInWindow == mpc = "lowered" /\ CrashEffect

Next ==
    \/ \E w \in Writers : \/ \E n \in 1..MaxLen : InsertFlush(w, n)
                          \/ WriterCommit(w)
                          \/ WriterAbort(w)
    \/ \E g \in groups : DeleteAllRows(g)
    \/ \E r \in Readers : TakeSnapshot(r) \/ OpenTable(r) \/ EndRead(r)
    \/ \E v \in Verbs : MaintBegin(v)
    \/ \E n \in 1..MaxLen, f \in mfree, c \in Coalesce : MaintReuse(f, n, c)
    \/ \E n \in 1..MaxLen : MaintAppend(n)
    \/ \E g \in Live, c \in Coalesce : Retire(g, c)
    \/ MaintCommit
    \/ MaintAbort
    \/ \E e \in 0..MaxPage : Truncate(e)
    \/ TruncateLower
    \/ TruncateCommit
    \/ Crash

Spec == Init /\ [][Next]_vars

\* The same system when a crash can also fall in the truncation's last window.
WindowSpec == Init /\ [][Next \/ CrashInWindow]_vars
---------------------------------------------------------------------------
\* The catalog rows, the file and metapage state and the per-backend state have
\* the types the code gives them; a free_space or row_group row is never empty.
TypeOK ==
    /\ groups \subseteq Group /\ free \subseteq FreeRow
    /\ dead \in [1..MaxGroup -> Nat]
    /\ hw \in Nat /\ eof \in Nat
    /\ page \in [0..(MaxPage - 1) -> Nat]
    /\ nextId \in Nat \ {0} /\ nextXid \in Nat \ {0}
    /\ wxid \in [Writers -> Nat] /\ wnew \in [Writers -> SUBSET Group]
    /\ sxmin \in [Readers -> Nat] /\ svis \in [Readers -> SUBSET Group]
    /\ slock \subseteq Readers
    /\ mpc \in {"idle"} \cup Verbs \cup TruncPhases
    /\ mxid \in Nat /\ mfree \subseteq FreeRow
    /\ mnew \subseteq Group /\ mgone \subseteq Group
    /\ mend \in Nat

\* gs and fs are groups and free ranges no two of which share a page.
NoOverlapAmong(gs, fs) ==
    /\ \A g, h \in gs : g # h => Disjoint(g, h)
    /\ \A f, h \in fs : f # h => Disjoint(f, h)
    /\ \A g \in gs, f \in fs : Disjoint(g, f)

\* No page belongs to two row groups, to a row group and a free range, or to
\* two free ranges: neither in the committed catalog (what an abort of the
\* maintenance transaction leaves) nor in the maintenance transaction's view
\* (what its commit installs).  PgColumnarCheckFreeSpaceNoOverlap asserts the
\* second at the end of each verb, for the groups that verb can see.
NoOverlap ==
    /\ NoOverlapAmong(groups \cup InFlight, free)
    /\ mpc # "idle" => NoOverlapAmong(Live \cup InFlight, mfree)

\* No two row groups that are committed or being written share a page: a freed
\* range is never handed out on top of a group.
GroupsDisjoint ==
    \A g, h \in groups \cup InFlight \cup mnew : g # h => Disjoint(g, h)

\* The file still holds every byte of group g.
Intact(g) == End(g) <= eof /\ \A p \in Footprint(g) : page[p] = g.id

\* Every snapshot can still read every group it sees: the bytes of a group that
\* maintenance retired are neither overwritten by a reuse nor cut off by an
\* end-truncation while some snapshot sees the group.
SnapshotReadsIntact ==
    \A r \in Readers : \A g \in svis[r] : Intact(g)

\* Committed groups stay readable through any crash, abort or reuse.
CommittedReadsIntact == \A g \in groups : Intact(g)

\* The step that sets the highwater to the live end computed before the shrink
\* never raises it (the Assert of PgColumnarSetReservedOffset), and the highwater
\* never moves below the end of a group that is by then committed or being
\* written: no flush reserves space between the computation and its use.
TruncateLowersHighwater ==
    [][/\ mpc = "shrunk" /\ mpc' = "lowered" => hw' <= hw
       /\ hw' < hw => \A g \in groups' \cup InFlight' : End(g) <= hw']_vars
=============================================================================
