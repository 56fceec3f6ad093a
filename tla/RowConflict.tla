---------------------------- MODULE RowConflict ----------------------------
(***************************************************************************)
(* Concurrent UPDATE and DELETE of one table, and the online rewrites      *)
(* (compact_rewrite, recluster) that move its rows to new row groups.      *)
(*                                                                         *)
(* A statement buffers its new rows and its delete marks and serializes at *)
(* the flush: the new rows first, under the storage-row lock that every    *)
(* flush of a row group takes; then the row-identity bucket locks in       *)
(* ascending order, one look at the latest committed delete vectors, and   *)
(* per row group, in ascending order, the chunk-group lock, the check that *)
(* the group still exists, and the read-modify-write of its delete_vector  *)
(* row.  All locks last until the transaction ends.                        *)
(*                                                                         *)
(* Data.  A row version is [n, grp, item, gen]: row number, row group, and *)
(* which logical row it is after how many updates.  item and gen are what  *)
(* the user's data says; the code never reads them.  nupd and killed count *)
(* what committed transactions did to each item.                           *)
(***************************************************************************)
EXTENDS Naturals, FiniteSets, FiniteSetsExt

CONSTANTS
    Txns,           \* backends that run DML transactions
    Maint,          \* the backend that runs a rewrite (ShareUpdateExclusiveLock)
    None,           \* a lock nobody holds
    Start,          \* the row versions of the table at the start
    StartDeleted,   \* the row numbers deleted before
    NumBuckets,     \* pgcolumnar.row_lock_buckets
    MaxStmts,       \* bound: statements per transaction
    MaxRow,         \* bound: row numbers
    MaxGroup        \* bound: row group numbers

Version == [n : 1..MaxRow, grp : 1..MaxGroup, item : Nat, gen : Nat]

ASSUME RowConflictConstants ==
    /\ NumBuckets \in Nat \ {0} /\ MaxStmts \in Nat /\ MaxRow \in Nat /\ MaxGroup \in Nat
    /\ Maint \notin Txns /\ None \notin Txns \cup {Maint}
    /\ Start \subseteq Version /\ StartDeleted \subseteq {r.n : r \in Start}
    /\ \A r, s \in Start : r.n = s.n \/ r.item = s.item => r = s

VARIABLES
    rows,       \* row versions of the committed row groups
    bits,       \* committed delete_vector row of each group: deleted row numbers
    nextRow, nextGroup,     \* the metapage's reservations
    pc,         \* what each backend is doing
    snap,       \* row versions the statement's snapshot shows
    marks,      \* the delete buffer
    mine,       \* row versions the transaction wrote, uncommitted
    stripe,     \* group number its open write buffer has reserved, or 0
    pend,       \* its delete_vector versions: <<group, row numbers>>
    stmts,      \* statements begun in the transaction
    did,        \* what it did: <<"update" or "delete", version>>
    todo,       \* groups the rewrite has still to lock
    work,       \* groups the rewrite retires at commit
    stlock,     \* holder of the storage-row lock
    bucket,     \* holder of each row-identity lock
    chunk,      \* holder of each chunk-group lock
    nupd,       \* committed updates of each item
    killed      \* items a committed transaction deleted

tvars == <<snap, marks, stripe, pend, stmts, did>>
mvars == <<todo, work>>
catalog == <<rows, bits, nupd, killed>>
vars == <<catalog, nextRow, nextGroup, pc, tvars, mine, mvars, stlock, bucket, chunk>>

Actors == Txns \cup {Maint}
Buckets == 0..(NumBuckets - 1)
Items == {r.item : r \in Start}

Bucket(r) == r.n % NumBuckets                     \* row_identity_lock_key % numBuckets
GroupsOf(rs) == {r.grp : r \in rs}
Live == {r \in rows : r.n \notin bits[r.grp]}     \* what GetLatestSnapshot shows
Removed(t) == UNION {q[2] : q \in pend[t]}

Init ==
    /\ rows = Start
    /\ bits = [g \in 1..MaxGroup |-> {r.n : r \in {s \in Start : s.grp = g}} \cap StartDeleted]
    /\ nextRow = Max({r.n : r \in Start}) + 1
    /\ nextGroup = Max(GroupsOf(Start)) + 1
    /\ pc = [a \in Actors |-> "idle"]
    /\ snap = [t \in Txns |-> {}] /\ marks = [t \in Txns |-> {}]
    /\ stripe = [t \in Txns |-> 0] /\ pend = [t \in Txns |-> {}]
    /\ stmts = [t \in Txns |-> 0] /\ did = [t \in Txns |-> {}]
    /\ mine = [a \in Actors |-> {}] /\ todo = {} /\ work = {}
    /\ stlock = None /\ bucket = [b \in Buckets |-> None]
    /\ chunk = [g \in 1..MaxGroup |-> None]
    /\ nupd = [i \in Items |-> 0] /\ killed = {r.item : r \in Start \ Live}

\* A transaction ends: its locks go, its buffers go.
ReleaseLocks(a) ==
    /\ stlock' = IF stlock = a THEN None ELSE stlock
    /\ bucket' = [b \in Buckets |-> IF bucket[b] = a THEN None ELSE bucket[b]]
    /\ chunk' = [g \in 1..MaxGroup |-> IF chunk[g] = a THEN None ELSE chunk[g]]
    /\ pc' = [pc EXCEPT ![a] = "idle"]
    /\ mine' = [mine EXCEPT ![a] = {}]

EndTxn(t) ==
    /\ ReleaseLocks(t)
    /\ snap' = [snap EXCEPT ![t] = {}] /\ marks' = [marks EXCEPT ![t] = {}]
    /\ stripe' = [stripe EXCEPT ![t] = 0] /\ pend' = [pend EXCEPT ![t] = {}]
    /\ stmts' = [stmts EXCEPT ![t] = 0] /\ did' = [did EXCEPT ![t] = {}]
    /\ UNCHANGED <<nextRow, nextGroup, mvars>>
---------------------------------------------------------------------------
\* A statement starts.  READ COMMITTED takes a new snapshot, REPEATABLE READ
\* keeps its first one; either shows what the transaction itself did before.
StmtBegin(t) ==
    /\ pc[t] \in {"idle", "open"} /\ stmts[t] < MaxStmts
    /\ \E base \in {Live} \cup (IF pc[t] = "open" THEN {snap[t]} ELSE {}) :
         snap' = [snap EXCEPT ![t] = {r \in base \cup mine[t] : r.n \notin Removed(t)}]
    /\ pc' = [pc EXCEPT ![t] = "stmt"]
    /\ stmts' = [stmts EXCEPT ![t] = @ + 1]
    /\ UNCHANGED <<catalog, nextRow, nextGroup, marks, stripe, pend, did, mine, mvars,
                   stlock, bucket, chunk>>

\* tuple_delete: a row the snapshot shows and the buffer does not hold already
\* (PgColumnarRowWriteConflict reports that one TM_SelfModified).
DeleteRow(t, r) ==
    /\ pc[t] = "stmt" /\ r \in snap[t] \ marks[t]
    /\ marks' = [marks EXCEPT ![t] = @ \cup {r}]
    /\ did' = [did EXCEPT ![t] = @ \cup {<<"delete", r>>}]
    /\ UNCHANGED <<catalog, nextRow, nextGroup, pc, snap, stripe, pend, stmts, mine,
                   mvars, stlock, bucket, chunk>>

\* tuple_update: mark the old version, append the new one under a row number
\* and group number reserved from the metapage.
UpdateRow(t, r) ==
    /\ pc[t] = "stmt" /\ r \in snap[t] \ marks[t]
    /\ nextRow <= MaxRow /\ (stripe[t] = 0 => nextGroup <= MaxGroup)
    /\ marks' = [marks EXCEPT ![t] = @ \cup {r}]
    /\ did' = [did EXCEPT ![t] = @ \cup {<<"update", r>>}]
    /\ LET g == IF stripe[t] = 0 THEN nextGroup ELSE stripe[t]
       IN  /\ stripe' = [stripe EXCEPT ![t] = g]
           /\ nextGroup' = IF stripe[t] = 0 THEN nextGroup + 1 ELSE nextGroup
           /\ mine' = [mine EXCEPT ![t] = @ \cup
                {[n |-> nextRow, grp |-> g, item |-> r.item, gen |-> r.gen + 1]}]
    /\ nextRow' = nextRow + 1
    /\ UNCHANGED <<catalog, pc, snap, pend, stmts, mvars, stlock, bucket, chunk>>

\* Flushing a row group of a table whose storage row is committed takes the
\* storage-row lock, finds the row and leaves it (PgColumnarInsertNativeStorageRow).
LockStorageRow(a) == stlock \in {None, a} /\ stlock' = a

\* PgColumnarWriteRow at stripe_row_limit: the new versions so far are written
\* out in the middle of the statement.
RowLimitFlush(t) ==
    /\ pc[t] = "stmt" /\ stripe[t] # 0
    /\ LockStorageRow(t)
    /\ stripe' = [stripe EXCEPT ![t] = 0]
    /\ UNCHANGED <<catalog, nextRow, nextGroup, pc, snap, marks, pend, stmts, did, mine,
                   mvars, bucket, chunk>>

\* executor_end: the new versions are written out, then the delete buffer is
\* flushed (delete_vector_flush_buffer, the steps below).
FlushBegin(t) ==
    /\ pc[t] = "stmt"
    /\ IF stripe[t] # 0 THEN LockStorageRow(t) ELSE UNCHANGED stlock
    /\ stripe' = [stripe EXCEPT ![t] = 0]
    /\ pc' = [pc EXCEPT ![t] = IF marks[t] = {} THEN "open" ELSE "buckets"]
    /\ UNCHANGED <<catalog, nextRow, nextGroup, snap, marks, pend, stmts, did, mine,
                   mvars, bucket, chunk>>

\* Mutant: buckets are locked in the order of the row numbers, not of the keys.
NextBucketByRow(t) ==
    Min({r.n : r \in {s \in marks[t] : bucket[Bucket(s)] # t}}) % NumBuckets

\* The bucket PgColumnarSerializeFlushRows waits for: a held one is a no-op.
WantedBuckets(t) == {b \in {Bucket(r) : r \in marks[t]} : bucket[b] # t}
NextBucket(t) == Min(WantedBuckets(t))

LockBucket(t) ==
    /\ pc[t] = "buckets" /\ WantedBuckets(t) # {}
    /\ bucket[NextBucket(t)] = None
    /\ bucket' = [bucket EXCEPT ![NextBucket(t)] = t]
    /\ UNCHANGED <<catalog, nextRow, nextGroup, pc, tvars, mine, mvars, stlock, chunk>>

\* committed_deleted_in, for some row of the buffer: a committed group covers it
\* and its bit is set.
CommittedDeleted(t) == \E r \in marks[t] : r \in rows /\ r.n \in bits[r.grp]

SerializeRows(t) ==
    /\ pc[t] = "buckets" /\ WantedBuckets(t) = {}
    /\ ~CommittedDeleted(t)
    /\ pc' = [pc EXCEPT ![t] = "chunks"]
    /\ UNCHANGED <<catalog, nextRow, nextGroup, tvars, mine, mvars, stlock, bucket, chunk>>

\* serialization_failure at the row check
SerializeFails(t) ==
    /\ pc[t] = "buckets" /\ WantedBuckets(t) = {}
    /\ CommittedDeleted(t)
    /\ EndTxn(t) /\ UNCHANGED catalog

\* Mutant: no check that the group survived the wait for its lock.
RowGroupAssumed(t, g) == TRUE

NextChunk(t) == Min(GroupsOf(marks[t]))
RowGroupExists(t, g) == g \in GroupsOf(rows \cup mine[t])

\* The stored bitmap as SnapshotSelf sees it: the transaction's own version of
\* the delete_vector row if it has written one.
StoredBitmap(t, g) ==
    LET own == {q \in pend[t] : q[1] = g}
    IN  IF own = {} THEN bits[g] ELSE UNION {q[2] : q \in own}

\* PgColumnarUpsertDeleteVector of the next group.
UpsertDeleteVector(t) ==
    /\ pc[t] = "chunks"
    /\ LET g == NextChunk(t)
           hit == {r \in marks[t] : r.grp = g}
       IN  /\ chunk[g] \in {None, t}
           /\ RowGroupExists(t, g)
           /\ chunk' = [chunk EXCEPT ![g] = t]
           /\ pend' = [pend EXCEPT ![t] = {q \in @ : q[1] # g} \cup
                         {<<g, StoredBitmap(t, g) \cup {r.n : r \in hit}>>}]
           /\ marks' = [marks EXCEPT ![t] = @ \ hit]
           /\ pc' = [pc EXCEPT ![t] = IF marks[t] = hit THEN "open" ELSE "chunks"]
    /\ UNCHANGED <<catalog, nextRow, nextGroup, snap, stripe, stmts, did, mine, mvars,
                   stlock, bucket>>

\* "row group was compacted concurrently"
UpsertFails(t) ==
    /\ pc[t] = "chunks"
    /\ chunk[NextChunk(t)] \in {None, t}
    /\ ~RowGroupExists(t, NextChunk(t))
    /\ EndTxn(t) /\ UNCHANGED catalog

Commit(t) ==
    /\ pc[t] = "open"
    /\ rows' = rows \cup mine[t]
    /\ bits' = [g \in 1..MaxGroup |->
                  IF \E q \in pend[t] : q[1] = g THEN StoredBitmap(t, g) ELSE bits[g]]
    /\ nupd' = [i \in Items |->
                  nupd[i] + Cardinality({d \in did[t] : d[1] = "update" /\ d[2].item = i})]
    /\ killed' = killed \cup {d[2].item : d \in {e \in did[t] : e[1] = "delete"}}
    /\ EndTxn(t)

\* ROLLBACK, any error, or the deadlock detector.
Abort(t) ==
    /\ pc[t] # "idle"
    /\ EndTxn(t) /\ UNCHANGED catalog
---------------------------------------------------------------------------
\* compact_rewrite: the partially deleted groups, from the latest snapshot.
Partial == {g \in GroupsOf(rows) : bits[g] # {} /\ g \in GroupsOf(Live)}

MaintBegin(verb, gs) ==
    /\ pc[Maint] = "idle" /\ gs # {}
    /\ pc' = [pc EXCEPT ![Maint] = verb]
    /\ todo' = gs
    /\ UNCHANGED <<catalog, nextRow, nextGroup, tvars, mine, work, stlock, bucket, chunk>>

\* Mutant: the moved rows are numbered from one past the reservation.
MoveOffByOne(gs) ==
    LET old == {r \in Live : r.grp \in gs}
        rank(r) == Cardinality({s \in old : s.n <= r.n})
    IN  /\ nextRow + Cardinality(old) <= MaxRow + 1 /\ nextGroup <= MaxGroup
        /\ mine' = [mine EXCEPT ![Maint] = @ \cup
                      {[r EXCEPT !.n = nextRow + rank(r), !.grp = nextGroup] : r \in old}]
        /\ nextRow' = nextRow + Cardinality(old)
        /\ nextGroup' = IF old = {} THEN nextGroup ELSE nextGroup + 1
        /\ IF old # {} THEN LockStorageRow(Maint) ELSE UNCHANGED stlock

\* The live rows of the groups gs move to one new group, under new row numbers.
Move(gs) ==
    LET old == {r \in Live : r.grp \in gs}
        rank(r) == Cardinality({s \in old : s.n < r.n})
    IN  /\ nextRow + Cardinality(old) <= MaxRow + 1 /\ nextGroup <= MaxGroup
        /\ mine' = [mine EXCEPT ![Maint] = @ \cup
                      {[r EXCEPT !.n = nextRow + rank(r), !.grp = nextGroup] : r \in old}]
        /\ nextRow' = nextRow + Cardinality(old)
        /\ nextGroup' = IF old = {} THEN nextGroup ELSE nextGroup + 1
        /\ IF old # {} THEN LockStorageRow(Maint) ELSE UNCHANGED stlock

\* rewrite_one_group: take the group's lock ...
RewriteLock ==
    /\ pc[Maint] = "rewrite" /\ todo # {} /\ chunk[Min(todo)] = None
    /\ chunk' = [chunk EXCEPT ![Min(todo)] = Maint]
    /\ UNCHANGED <<catalog, nextRow, nextGroup, pc, tvars, mine, mvars, stlock, bucket>>

\* ... then read, move and retire the group.
RewriteOneGroup ==
    /\ pc[Maint] = "rewrite" /\ todo # {} /\ chunk[Min(todo)] = Maint
    /\ Move({Min(todo)})
    /\ work' = work \cup {Min(todo)}
    /\ todo' = todo \ {Min(todo)}
    /\ UNCHANGED <<catalog, pc, tvars, bucket, chunk>>

\* recluster: lock every listed group in ascending order ...
ReclusterLock ==
    /\ pc[Maint] = "recluster" /\ todo # {}
    /\ LET g == Min(todo)
       IN  /\ chunk[g] = None
           /\ chunk' = [chunk EXCEPT ![g] = Maint]
           /\ work' = work \cup {g}
           /\ todo' = todo \ {g}
    /\ UNCHANGED <<catalog, nextRow, nextGroup, pc, tvars, mine, stlock, bucket>>

\* ... then read the listed groups under a new snapshot, and rewrite them.
ReclusterMove ==
    /\ pc[Maint] = "recluster" /\ todo = {}
    /\ Move(work)
    /\ pc' = [pc EXCEPT ![Maint] = "rewrite"]
    /\ UNCHANGED <<catalog, tvars, mvars, bucket, chunk>>

EndMaint ==
    /\ ReleaseLocks(Maint)
    /\ todo' = {} /\ work' = {}
    /\ UNCHANGED <<nextRow, nextGroup, tvars, nupd, killed>>

\* PgColumnarRetireGroup took the catalog rows of each group, its delete_vector
\* row included.
MaintCommit ==
    /\ pc[Maint] = "rewrite" /\ todo = {}
    /\ rows' = {r \in rows : r.grp \notin work} \cup mine[Maint]
    /\ bits' = [g \in 1..MaxGroup |-> IF g \in work THEN {} ELSE bits[g]]
    /\ EndMaint

MaintAbort ==
    /\ pc[Maint] # "idle"
    /\ EndMaint /\ UNCHANGED <<rows, bits>>

Next ==
    \/ \E t \in Txns :
         \/ StmtBegin(t) \/ RowLimitFlush(t) \/ FlushBegin(t) \/ LockBucket(t)
         \/ SerializeRows(t) \/ SerializeFails(t)
         \/ UpsertDeleteVector(t) \/ UpsertFails(t)
         \/ Commit(t) \/ Abort(t)
         \/ \E r \in snap[t] : DeleteRow(t, r) \/ UpdateRow(t, r)
    \/ MaintBegin("rewrite", Partial) \/ MaintBegin("recluster", GroupsOf(rows))
    \/ RewriteLock \/ RewriteOneGroup \/ ReclusterLock \/ ReclusterMove
    \/ MaintCommit \/ MaintAbort

Spec == Init /\ [][Next]_vars
---------------------------------------------------------------------------
\* Every row number and group number written is one the metapage reserved within
\* its bounds, and every lock has at most one holder, a backend.
RowConflictTypeOK ==
    /\ rows \subseteq Version /\ bits \in [1..MaxGroup -> SUBSET (1..MaxRow)]
    /\ nextRow \in Nat /\ nextGroup \in Nat
    /\ pc \in [Actors -> {"idle", "stmt", "buckets", "chunks", "open", "rewrite", "recluster"}]
    /\ snap \in [Txns -> SUBSET Version] /\ marks \in [Txns -> SUBSET Version]
    /\ mine \in [Actors -> SUBSET Version]
    /\ stripe \in [Txns -> 0..MaxGroup] /\ stmts \in [Txns -> 0..MaxStmts]
    /\ pend \in [Txns -> SUBSET ((1..MaxGroup) \X SUBSET (1..MaxRow))]
    /\ did \in [Txns -> SUBSET ({"update", "delete"} \X Version)]
    /\ todo \subseteq 1..MaxGroup /\ work \subseteq 1..MaxGroup
    /\ stlock \in Actors \cup {None} /\ bucket \in [Buckets -> Actors \cup {None}]
    /\ chunk \in [1..MaxGroup -> Actors \cup {None}]
    /\ nupd \in [Items -> Nat] /\ killed \subseteq Items

\* No update is lost and no row is duplicated or resurrected: an item that a
\* committed transaction deleted has no live version, and any other has exactly
\* one, which carries every committed update of it.
EveryWriteCounts ==
    \A i \in Items :
        LET live == {r \in Live : r.item = i}
        IN  IF i \in killed THEN live = {}
            ELSE \E v \in live : live = {v} /\ v.gen = nupd[i]

\* The groups the rewrite is about to move.
Moving ==
    IF pc[Maint] = "recluster" /\ todo = {} THEN work
    ELSE {g \in todo : pc[Maint] = "rewrite" /\ g = Min(todo) /\ chunk[g] = Maint}

\* The holders, other than a, of the locks a may be waiting for now.
WaitsFor(a) ==
    {h \in Actors : h # a /\
        \/ a = Maint /\ todo # {} /\ h = chunk[Min(todo)]
        \/ a = Maint /\ h = stlock /\ \E r \in Live : r.grp \in Moving
        \/ a \in Txns /\ pc[a] = "stmt" /\ stripe[a] # 0 /\ h = stlock
        \/ a \in Txns /\ pc[a] = "buckets" /\ WantedBuckets(a) # {} /\ h = bucket[NextBucket(a)]
        \/ a \in Txns /\ pc[a] = "chunks" /\ h = chunk[NextChunk(a)]}

\* The actors of S wait on one another in a circle.
Circle(S) == S # {} /\ \A a \in S : WaitsFor(a) \cap S # {}

\* A transaction of S keeps the locks of an earlier statement.
KeepsLocks(S) == \E t \in S \cap Txns : stmts[t] > 1

\* "every transaction acquires in the same order, so no AB-BA cycle forms":
\* DML transactions that flush once never wait on one another in a circle.  A
\* rewrite is in a circle only with a transaction that has written rows: the
\* rewrite takes the storage-row lock after the group locks, an UPDATE before.
NoFlushDeadlock ==
    \A S \in SUBSET Actors :
        Circle(S) => KeepsLocks(S) \/ (Maint \in S /\ stlock \in S \cap Txns)

\* "lock every group in ascending order (deadlock-safe), held to commit": a
\* rewrite and transactions that flush once never wait in a circle.
RewriteDeadlockSafe ==
    \A S \in SUBSET Actors : Circle(S) => KeepsLocks(S)
=============================================================================
