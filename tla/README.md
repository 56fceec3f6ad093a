# pgColumnar: a TLA+ verification project

pgColumnar is a PostgreSQL table access method that stores tables by column.
This directory holds TLA+ models of the parts of it whose correctness depends on
ordering (of transactions, locks, flushes, maintenance and crashes), TLC
configurations that check them on small instances, and TLAPS proofs about the
module everything else stands on, the physical space of a table.

## The system

Rows are buffered per backend and written out as **row groups**: a contiguous
byte range of the main fork plus transactional catalog rows that describe it.
Deletes are bits in a per-group **delete vector** row; an UPDATE is a delete plus
an insert. Everything in the catalog (`row_group`, `delete_vector`, `free_space`,
...) is MVCC heap data; the data pages and the **metapage** (highwater, next row
number, next group number) are not: they keep what was written when a
transaction aborts. Most of what is delicate follows from that split.

| Part | Source (`src/src/columnar_*.c`) | Module |
|---|---|---|
| Metapage, reservations, logical writes | `storage` | `Reclaim`, `VisMap` |
| free_space catalog: record, coalesce, allocate, reconcile | `metadata` | `Reclaim` |
| compact, compact_rewrite, recluster, expire, truncate | `vacuum`, `metadata` | `Reclaim`, `RowConflict`, `VisMap` |
| Write buffer, row-group flush | `write_state` | `SubXact`, `RowConflict` |
| Delete buffer, delete vectors | `delete_vector`, `metadata` | `SubXact`, `RowConflict`, `VisMap` |
| Row-identity locks | `row_lock` | `RowConflict` |
| Transaction, subtransaction and executor callbacks | `tableam` | `SubXact`, `RowConflict` |
| Visibility-map fork | `visibilitymap`, `metadata` | `VisMap` |
| Storage row (format version), its lock | `metadata` | `RowConflict` (the lock) |
| Extent catalog | `extent` | planned |
| Parallel COPY (two-phase commit over workers) | `parallel_copy` | planned |
| Unique-key serialization | `unique`, `row_lock` | planned |
| Maintenance launcher | `autovacuum` | planned |
| Sorted-run bookkeeping | `vacuum`, `write_state` | planned |
| Reader: decode, pruning, fetch cache, group memo, parallel claim | `reader` | planned in part |
| Encodings, compression, bloom, HLL, curves | `encoding`, `compression`, `bloom`, `sketch`, `curve` | planned (pure operators) |
| Projections, runtime filter | `projection`, `runtime_filter` | planned |
| Byte sink, object store, parallel export | `sink`, `objstore`, `parallel_export`, `objstore/` | planned in part |
| Iceberg and its readers | `iceberg*`, `avro`, `puffin` | planned in part |
| Planner, vectorized execution, Parquet, Arrow, Thrift | `customscan`, `vector`, `parquet*`, `arrow`, `thrift`, `flatbuffers` | not modelled: sequential translation or cost arithmetic |

`PROJECT.json` has the same inventory with a note on each part, the hazards of
the code at the line where they bite, and for every definition of a model the
source lines it stands for.

## The modules

**`Reclaim`** is the space of one table, in pages. State: committed row groups
and free ranges, highwater, file length, which group's bytes each page holds, the
writers' uncommitted groups, the readers' snapshots, and the open maintenance
transaction's private view of the catalog (`mfree`, `mnew`, `mgone`), which commit
installs and abort drops. Actions: `InsertFlush` (always appends), `DeleteAllRows`,
`MaintBegin` with `Reconcile`, `MaintReuse` (best fit behind the oldest-xmin
horizon, remnant kept when coalescing is on), `MaintAppend`, `Retire` with
`RecordFreeSpace` (merge with neighbours freed by the same transaction),
`Truncate` / `TruncateLower` / `TruncateCommit` (the three persistent steps of
end-truncation), `Crash`. `Truncate` computes the live end once and keeps it in
`mend`, as the code keeps it in a local variable; `TruncateLower` sets the highwater
to that value, not to one recomputed, so what other backends did in between counts. One maintenance transaction exists at a time because
every verb holds ShareUpdateExclusiveLock to its end. Several verbs may run in
one transaction. Retirement is modelled in a maintenance transaction only; the
group may be one that the same transaction wrote.

**`SubXact`** is one backend: nested statements and subtransactions as a stack of
frames, the write and delete buffers as sequences of `[owner, rows, under,
eager]`, and the catalog rows with the subtransaction they were written under.
`Scan` flushes every pending buffer under the *current* subtransaction and keeps
the enclosing ones (`under`); `SubCommit` promotes, `SubAbort` discards and makes
kept buffers pending again. The type invariant also says whose buffers exist: every
one belongs to an open subtransaction, and a kept one was written out by a
subtransaction that is open inside its owner. **`HeapXact`** is the specification it implements: a
set of rows with savepoints.

**`RowConflict`** is concurrent UPDATE and DELETE and an online rewrite of the
same groups. A statement runs under its snapshot, then flushes in the code's
order: new rows (storage-row lock; `RowLimitFlush` writes some of them out earlier,
when the buffer reaches its row limit), row-identity buckets in ascending order, the
committed-delete check, and per group in ascending order the chunk-group lock, the
existence re-check and the read-modify-write of the delete vector. compact_rewrite
locks, moves and retires group by group; recluster locks every listed group first
and reads under a later snapshot. `item`, `gen`, `nupd` and `killed` are history:
they say which logical row a version is and what was committed to it.

**`VisMap`** is the visibility-map fork. `VacuumList` computes the all-visible
groups under a dirty snapshot and runs the set loop's arithmetic on them: sort by
first row, `Merge` contiguous groups into runs, round each run to the blocks inside
it (`BlocksWithin`). `VacuumSet` sets one bit per step. Inserts and delete *marks*
clear bits when they are buffered, without a look at other writers' marks;
`FlushMarks` writes the delete vectors later, waits for the groups that another
deleter or a rewrite holds, and cannot succeed on a row that is gone. A rewrite and
`Expire` clear the blocks of the group they retire; expire takes no chunk-group lock.

**`ReclaimProofs`**, **`ReclaimReadProofs`** hold the theorems about `Reclaim`;
`MC*` modules instantiate the specifications for TLC.

## What the runs show

| Run | Instance | Result |
|---|---|---|
| `Reclaim` | 1 writer, 1 reader, 3 pages, groups of 1 or 2 pages, 3 groups, 4 xids, coalescing switched on and off | pass: `NoOverlap`, `SnapshotReadsIntact`, `CommittedReadsIntact`, `TruncateLowersHighwater` |
| `ReclaimWindow` | 1 writer, no reader, 2 pages, one-page groups, and a crash possible between the lowering of the highwater and the commit | `GroupsDisjoint` violated (finding 1) |
| `SubXact` | 2 rows, 3 subtransaction ids, 5 nested frames, flush at 2 rows | pass: `WrittenOnce`, `NothingKeptAtCommit`, and `ImplementsHeap` (refinement of `HeapXact`) |
| `RowConflict` | 2 transactions of 2 statements, one rewrite, one group of 3 rows, 2 buckets | pass: `EveryWriteCounts` |
| `RowLockOrder` | 2 one-statement transactions, a rewrite, 2 groups, 2 buckets | pass: `NoFlushDeadlock` |
| `RewriteLockOrder` | the same | `RewriteDeadlockSafe` violated (finding 3) |
| `VisMap` | 2 writers, 1 reader, 4 rows, 2 rows per block, VACUUM never overlapping an unflushed delete | pass: `IndexOnlyReadsVisible`, `SetBitsCoverOldInserts` |
| `VisMapBlocks` | the same with 1 writer and 5 rows, so that two blocks can be set and one run can join several groups | pass: `SetsWholeBlocks`, `IndexOnlyReadsVisible` |
| `VisMapOverlap` | 2 writers, 5 rows, and the overlap the code allows | `IndexOnlyReadsVisible` violated (finding 2) |

### Findings

1. **A crash in the truncation's last window** (`write_state.c`, reuse). The
   highwater is lowered by a WAL-logged page write, the trailing free_space rows are
   deleted by the transaction. If the server stops in between, the rows are back and
   lie *above* the highwater. Reconciliation drops only rows that overlap a live
   group, so a rewrite may take such a row before any insert covers it; the group it
   writes lies above the highwater, which reuse does not advance, and a later insert
   reserves the same pages. The comment on reconciliation and the design note
   consider only the opposite order, in which the insert comes first. End-truncation's
   own self-heal purges the row if it runs first.
2. **A visibility-map bit set between a delete's mark and its flush**
   (`delete_vector.c:275`). The bit is cleared when the mark is buffered; the
   delete_vector row that VACUUM's dirty snapshot would see is written at the flush.
   A VACUUM that lists in between sets the bit again and nothing clears it after the
   commit. The comments say that the dirty snapshot and clear-on-write together
   exclude this.
3. **Lock order of a rewrite and an UPDATE** (`vacuum.c:743`). An UPDATE takes the
   storage-row lock and then a chunk-group lock, a rewrite the other way round. The
   comment calls the rewrite's locking deadlock-safe; it is among group locks, which
   `NoFlushDeadlock` checks. The outcome is an abort by the deadlock detector, not a
   wrong result: `EveryWriteCounts` holds with it.

### Bounds

The instances are the smallest in which every case of the code occurs: three pages
and groups of one and two pages give an exact fit, a fit with remnant, a merge with
either neighbour, an append and a truncatable tail; four xids give a snapshot
older than a retirement that is older than a reuse. Two rows and three
subtransactions give a buffer kept under a grandchild. Two statements per
transaction give locks kept from one statement into the next, and READ COMMITTED
and REPEATABLE READ snapshots. Blocks of two rows and groups of up to three give
blocks that straddle groups; row numbers start at 1, so block 0 is never whole and
five rows are needed for two whole blocks. Every bound is a constant that appears in a guard.

Deadlock checking is off where the bounds stop the system (no more xids, rows or
groups); it is on in `SubXact`, where a transaction can always end. Lock deadlocks
are stated as an invariant over the waits-for relation instead (`Circle`).

### Fairness

None is assumed and no liveness property is stated: what the modelled parts
promise is safety. Waiting ends by PostgreSQL's lock manager and deadlock
detector, which are outside the repository.

## What is proved

For every number of writers, readers, pages, groups and transactions (the only
assumption, `ReclaimConstants`, is that the bounds are positive and coalescing is a
Boolean setting), from `Spec`, that is, with crashes everywhere but in the window
of finding 1:

- `TypeCorrect`, `NoOverlapAlways` (`ReclaimProofs`);
- `SnapshotReadsIntactAlways`, `CommittedReadsIntactAlways`,
  `TruncateLowersHighwaterAlways` (`ReclaimReadProofs`).

**The argument.** `NoOverlap` is not inductive: an append is disjoint from
everything only if everything lies below the highwater, and lowering the
highwater keeps that only if the truncation has emptied the tail first.
`SpaceInv` adds `Bounds` (everything allocated ends at or below the highwater, but
for committed free rows while the transaction that lowered it has not committed),
`Phases` (what the maintenance transaction can hold in each phase; after the
shrink the kept live end is still the live end, at or below the highwater, and the
free ranges end at or below it) and `Owners` (group numbers
are handed out once, so a group has one owner).

A snapshot's bytes need more. A retired group is in no catalog row that `NoOverlap`
speaks of; what keeps it from being overwritten is that its pages are *covered* by
free ranges whose freeing xid the snapshot does not see, and that reuse and
truncation wait until the horizon passes that xid. `ReadInv` says so for each
snapshot (`Protected`), in the committed catalog and in the maintenance
transaction's view, so that either its commit or its abort preserves it; with
`Uncommitted` (an open transaction never writes over a committed group, since
ranges it freed itself carry its own xid), `Ages` (snapshot xmins against
the transaction's) and the intactness of everything stored. Coalescing keeps
`Covered` because it merges only ranges with equal xid. Each action has a lemma;
`SpaceNext` and `ReadNext` combine them.

Proved nowhere and only model-checked: the properties of `SubXact` (a refinement over
sequences of buffers), `RowConflict` and `VisMap`. Liveness under fairness, ENABLED and induction over data are outside the
prover's reach; none is claimed.

## Abstractions

- Lengths and offsets are pages; the code rounds every reservation and footprint to
  a page.
- A row group is its range, its inserting xid and (where they matter) its rows.
  Column chunks, zone maps and encodings change nothing the properties tell apart.
- The oldest-xmin horizon is the minimum over running transactions and snapshots.
  PostgreSQL leaves lazy VACUUM out of other backends' horizon; that refinement is
  a listed hazard, not modelled.
- In `Reclaim` writers overlap freely. The storage-row lock serializes plain
  INSERTs from their first flush; bulk-parallel loaders skip it. The model covers
  both.
- `RowConflict` has the row-identity locks on (`pgcolumnar.enable_row_update_lock`)
  and a table without unique index, and its row-identity key is the row number. The
  table's storage row is committed, so a flush takes its lock and finds it.
- `SubXact` has no DDL in the transaction, so a buffer is never replaced because the
  table gained a column.
- PostgreSQL itself (snapshots, commit, abort, lock manager, crash recovery) is
  modelled from how the code uses it; those definitions are marked external.

## Plan

1. Extent catalog: mark, pre-commit write and recompute against concurrent inserters.
2. Parallel COPY: coordinator, workers, prepared transactions, fingerprint, crash.
3. Unique keys and `PgColumnarSerializeRowNow`; storage-row creation and retry,
   the PREPARE arms of the callbacks; expire against DML in `RowConflict`.
4. Sorted-run bookkeeping, parallel scan claims, the maintenance launcher, the
   sink's transaction end.
5. Pure algorithms against reference definitions: TID mapping, encodings,
   bloom filter, curves, HyperLogLog, Iceberg delete application.
6. Proofs: the lost-update invariant of `RowConflict`, the insert side of
   `VisMap`, and the lock-order argument.
