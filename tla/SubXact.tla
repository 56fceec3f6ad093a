------------------------------ MODULE SubXact ------------------------------
(***************************************************************************)
(* The write and delete buffers of one backend across statements and       *)
(* subtransactions (savepoints and plpgsql EXCEPTION blocks).              *)
(*                                                                         *)
(* A row written to a columnar table is buffered under the subtransaction  *)
(* that wrote it; a deleted row is a mark in a delete buffer.  A flush     *)
(* writes catalog rows under the subtransaction that is CURRENT.  A read   *)
(* below the owner of a buffer has to see its rows, so the read writes the *)
(* buffer out and keeps it (flushedUnder) until the subtransaction it was  *)
(* written under resolves.                                                 *)
(*                                                                         *)
(* Data.  A row group is the set of rows flushed together, with the        *)
(* subtransaction its catalog row was written under.  A delete_vector row  *)
(* is a set of bits; an upsert merges the stored bits into a new version.  *)
(* With row-and-subtransaction pairs that is a union, and the version an   *)
(* abort restores is what the remaining pairs say.                         *)
(***************************************************************************)
EXTENDS Integers, Sequences, SequencesExt, FiniteSets

CONSTANTS
    MaxRow,     \* bound: rows ever inserted
    MaxSub,     \* bound: subtransaction ids of one transaction
    MaxDepth,   \* bound: nested statements and subtransactions
    RowLimit    \* stripe_row_limit: a buffer this full is flushed

ASSUME SubXactConstants ==
    /\ MaxRow \in Nat \ {0} /\ MaxSub \in Nat \ {0} /\ MaxDepth \in Nat \ {0}
    /\ RowLimit \in Nat \ {0}

VARIABLES
    frames,     \* open statements and subtransactions, outermost first
    nextSub,    \* next subtransaction id; the top transaction is 1
    nextRow,    \* next row number
    wbuf,       \* PgColumnarWriteStates, in list order
    dbuf,       \* PgColumnarDeleteVectorBuffers, in list order
    cat,        \* the row groups, in the order written
    dv,         \* <<row, sub>>: delete_vector bits written under sub
    seen        \* the rows the last scan returned

vars == <<frames, nextSub, nextRow, wbuf, dbuf, cat, dv, seen>>

Committed == 0      \* the tag of catalog rows of earlier transactions
Invalid == 0        \* InvalidSubTransactionId
TopSub == 1         \* TopSubTransactionId

Frame == [kind : {"stmt", "sub"}, id : Nat]
RowGroup == [rows : SUBSET Nat, by : Nat]
Buffer == [owner : Nat, rows : SUBSET Nat, under : Nat, eager : BOOLEAN]
NewBuffer(s) == [owner |-> s, rows |-> {}, under |-> Invalid, eager |-> FALSE]

Top == Last(frames)
Current == Top.id                       \* GetCurrentSubTransactionId
InStatement == Top.kind = "stmt"

RowsIn(s) == UNION {s[i].rows : i \in DOMAIN s}     \* of buffers or row groups
Deleted(pairs) == {p[1] : p \in pairs}

Init ==
    /\ frames = <<[kind |-> "sub", id |-> TopSub]>>
    /\ nextSub = TopSub + 1 /\ nextRow = 1
    /\ wbuf = <<>> /\ dbuf = <<>> /\ cat = <<>> /\ dv = {} /\ seen = {}

\* The first buffer the current subtransaction owns, made if there is none
\* (PgColumnarGetWriteState, delete_vector_get_buffer).
WithOwn(bufs) ==
    IF \E i \in DOMAIN bufs : bufs[i].owner = Current
    THEN bufs ELSE Append(bufs, NewBuffer(Current))

OwnIndex(bufs) ==
    CHOOSE i \in DOMAIN bufs : /\ bufs[i].owner = Current
                               /\ \A j \in 1..(i - 1) : bufs[j].owner # Current
---------------------------------------------------------------------------
StmtStart ==
    /\ Len(frames) < MaxDepth
    /\ frames' = Append(frames, [kind |-> "stmt", id |-> Current])
    /\ UNCHANGED <<nextSub, nextRow, wbuf, dbuf, cat, dv, seen>>

\* The row groups a flush of these buffers writes, under the current
\* subtransaction; an empty buffer writes none (pgcolumnar_flush_row_group).
GroupsOf(bufs) ==
    LET full == SelectSeq(bufs, LAMBDA b : b.rows # {})
    IN  [i \in DOMAIN full |-> [rows |-> full[i].rows, by |-> Current]]

\* The delete_vector bits such a flush writes (delete_vector_flush_buffer).
BitsOf(bufs) == RowsIn(bufs) \X {Current}

\* PgColumnarWriteRow, then PgColumnarWriteStateAfterAppend: a full buffer is
\* flushed, and so is one a deeper read wrote out before and an abort returned.
WriteRow ==
    /\ nextRow <= MaxRow
    /\ nextRow' = nextRow + 1
    /\ LET bufs == WithOwn(wbuf)
           i == OwnIndex(bufs)
           rows == bufs[i].rows \cup {nextRow}
           flush == \/ Cardinality(rows) >= RowLimit
                    \/ bufs[i].eager /\ bufs[i].under = Invalid
       IN  /\ wbuf' = [bufs EXCEPT ![i].rows = IF flush THEN {} ELSE rows,
                                   ![i].eager = @ /\ bufs[i].under # Invalid]
           /\ cat' = IF flush THEN Append(cat, [rows |-> rows, by |-> Current]) ELSE cat

\* PgColumnarMarkRowDeleted of a row a scan can return and this transaction has
\* not marked yet (PgColumnarRowWriteConflict refuses a marked one).
MarkRowDeleted(r) ==
    /\ r \in RowsIn(cat) \ Deleted(dv)
    /\ r \notin RowsIn(dbuf)
    /\ LET bufs == WithOwn(dbuf)
       IN  dbuf' = [bufs EXCEPT ![OwnIndex(bufs)].rows = @ \cup {r}]

InsertRow ==
    /\ InStatement /\ WriteRow
    /\ UNCHANGED <<frames, nextSub, dbuf, dv, seen>>

DeleteRow(r) ==
    /\ InStatement /\ MarkRowDeleted(r)
    /\ UNCHANGED <<frames, nextSub, nextRow, wbuf, cat, dv, seen>>

\* Update is delete-plus-insert.
UpdateRow(r) ==
    /\ InStatement /\ MarkRowDeleted(r) /\ WriteRow
    /\ UNCHANGED <<frames, nextSub, dv, seen>>

\* A buffer that no open subtransaction has written out.
Pending(b) == b.under = Invalid

\* Mutant: an enclosing subtransaction's buffer is emptied too, not kept.
AfterScanKeepsNothing(b) == IF Pending(b) THEN [b EXCEPT !.rows = {}] ELSE b

\* What a scan leaves of buffer b: its own is emptied, an enclosing one is kept.
AfterScan(b) ==
    IF ~Pending(b) \/ b.rows = {} THEN b
    ELSE IF b.owner = Current THEN [b EXCEPT !.rows = {}]
    ELSE [b EXCEPT !.under = Current]

\* Scan start: PgColumnarFlushWriteStateForRelation, then
\* PgColumnarFlushDeleteVectorForRelation, then the rows the catalog has.
Scan ==
    /\ InStatement
    /\ cat' = cat \o GroupsOf(SelectSeq(wbuf, Pending))
    /\ dv' = dv \cup BitsOf(SelectSeq(dbuf, Pending))
    /\ wbuf' = [i \in DOMAIN wbuf |->
                  LET b == AfterScan(wbuf[i])
                  IN  [b EXCEPT !.eager = @ \/ b.under # wbuf[i].under]]
    /\ dbuf' = [i \in DOMAIN dbuf |-> AfterScan(dbuf[i])]
    /\ seen' = RowsIn(cat') \ Deleted(dv')
    /\ UNCHANGED <<frames, nextSub, nextRow>>

\* The buffers the end of a statement flushes: the current subtransaction's.
Ending(b) == b.owner = Current

\* executor_end: PgColumnarFlushPendingWritesOfSubXact, then
\* PgColumnarFlushDeleteVectorsOfSubXact.
StmtEnd ==
    /\ InStatement
    /\ cat' = cat \o GroupsOf(SelectSeq(wbuf, Ending))
    /\ dv' = dv \cup BitsOf(SelectSeq(dbuf, Ending))
    /\ wbuf' = [i \in DOMAIN wbuf |-> IF Ending(wbuf[i])
                  THEN [wbuf[i] EXCEPT !.rows = {}, !.eager = FALSE] ELSE wbuf[i]]
    /\ dbuf' = [i \in DOMAIN dbuf |-> IF Ending(dbuf[i])
                  THEN [dbuf[i] EXCEPT !.rows = {}] ELSE dbuf[i]]
    /\ frames' = Front(frames)
    /\ UNCHANGED <<nextSub, nextRow, seen>>

\* SAVEPOINT, or a plpgsql EXCEPTION block entered inside a statement.
SubBegin ==
    /\ Len(frames) < MaxDepth /\ nextSub <= MaxSub
    /\ frames' = Append(frames, [kind |-> "sub", id |-> nextSub])
    /\ nextSub' = nextSub + 1
    /\ UNCHANGED <<nextRow, wbuf, dbuf, cat, dv, seen>>

\* Mutant: a kept buffer whose rows are now its owner's is not emptied.
PromoteKeepsRows(b, s, p) ==
    LET o == IF b.owner = s THEN p ELSE b.owner
    IN  IF b.under # s THEN [b EXCEPT !.owner = o]
        ELSE IF o = p THEN [b EXCEPT !.owner = o, !.under = Invalid]
        ELSE [b EXCEPT !.under = p]

\* Mutant: the buffers of the committed subtransaction stay its own.
PromoteKeepsOwner(b, s, p) ==
    IF b.under # s THEN b
    ELSE IF b.owner = p THEN [b EXCEPT !.rows = {}, !.under = Invalid]
    ELSE [b EXCEPT !.under = p]

\* PgColumnarWriteStatePromoteSubXact for one buffer: the parent p inherits the
\* buffers of s; a kept buffer whose rows are now its owner's is emptied.
Promote(b, s, p) ==
    LET o == IF b.owner = s THEN p ELSE b.owner
    IN  IF b.under # s THEN [b EXCEPT !.owner = o]
        ELSE IF o = p THEN [b EXCEPT !.owner = o, !.rows = {}, !.under = Invalid]
        ELSE [b EXCEPT !.under = p]

\* A commit hands the catalog rows of s to its parent p.
Inherit(s, p) ==
    /\ cat' = [i \in DOMAIN cat |-> [cat[i] EXCEPT !.by = IF @ = s THEN p ELSE @]]
    /\ dv' = {<<q[1], IF q[2] = s THEN p ELSE q[2]>> : q \in dv}

\* An abort takes the catalog rows written under the subtransactions in S away.
Undo(S) ==
    /\ cat' = SelectSeq(cat, LAMBDA g : g.by \notin S)
    /\ dv' = {q \in dv : q[2] \notin S}

SubCommit ==
    /\ Top.kind = "sub" /\ Len(frames) > 1
    /\ LET s == Current
           p == frames[Len(frames) - 1].id
       IN  /\ wbuf' = [i \in DOMAIN wbuf |-> Promote(wbuf[i], s, p)]
           /\ dbuf' = [i \in DOMAIN dbuf |-> Promote(dbuf[i], s, p)]
           /\ Inherit(s, p)
    /\ frames' = Front(frames)
    /\ UNCHANGED <<nextSub, nextRow, seen>>

\* Mutant: a buffer the aborted subtransaction wrote out stays marked so.
DiscardForgetsKept(bufs, s) == SelectSeq(bufs, LAMBDA b : b.owner # s)

\* PgColumnarWriteStateDiscardSubXact: drop the buffers s owns; a buffer kept
\* because s wrote it out is pending again.
Discard(bufs, s) ==
    LET kept == SelectSeq(bufs, LAMBDA b : b.owner # s)
    IN  [i \in DOMAIN kept |-> IF kept[i].under = s
                               THEN [kept[i] EXCEPT !.under = Invalid] ELSE kept[i]]

\* An error or ROLLBACK TO aborts the innermost subtransaction and every
\* statement open inside it.
SubAbort ==
    LET k == Max({i \in DOMAIN frames : frames[i].kind = "sub"})
        s == frames[k].id
    IN  /\ k > 1
        /\ frames' = SubSeq(frames, 1, k - 1)
        /\ wbuf' = Discard(wbuf, s)
        /\ dbuf' = Discard(dbuf, s)
        /\ Undo({s})
        /\ UNCHANGED <<nextSub, nextRow, seen>>

EndXact ==
    /\ frames' = <<[kind |-> "sub", id |-> TopSub]>>
    /\ nextSub' = TopSub + 1
    /\ wbuf' = <<>> /\ dbuf' = <<>>
    /\ UNCHANGED <<nextRow, seen>>

\* PRE_COMMIT flushes every buffer (PgColumnarFlushAllPendingWrites, then
\* PgColumnarFlushAllDeleteVectors); the buffers then go with the transaction.
XactCommit ==
    /\ Len(frames) = 1
    /\ LET all == cat \o GroupsOf(wbuf)
       IN  cat' = [i \in DOMAIN all |-> [all[i] EXCEPT !.by = Committed]]
    /\ dv' = (Deleted(dv) \cup RowsIn(dbuf)) \X {Committed}
    /\ EndXact

XactAbort ==
    /\ Undo(Nat \ {Committed})
    /\ EndXact

Next ==
    \/ StmtStart \/ InsertRow \/ Scan \/ StmtEnd
    \/ \E r \in 1..MaxRow : DeleteRow(r) \/ UpdateRow(r)
    \/ SubBegin \/ SubCommit \/ SubAbort
    \/ XactCommit \/ XactAbort

Spec == Init /\ [][Next]_vars
---------------------------------------------------------------------------
\* The subtransactions open now, outermost first.
Open == LET subs == SelectSeq(frames, LAMBDA f : f.kind = "sub")
        IN  [i \in DOMAIN subs |-> subs[i].id]

\* The buffers, the frames and the catalog rows have their types, and the buffer
\* lists hold no entry of a subtransaction that has ended: every buffer is owned
\* by an open one, and a kept buffer was written out by one open inside its owner.
SubXactTypeOK ==
    /\ frames \in Seq(Frame) /\ frames # <<>>
    /\ nextSub \in Nat /\ nextRow \in Nat
    /\ wbuf \in Seq(Buffer) /\ dbuf \in Seq(Buffer)
    /\ cat \in Seq(RowGroup) /\ dv \subseteq Nat \X Nat
    /\ seen \subseteq Nat
    /\ \A b \in Range(wbuf) \cup Range(dbuf) :
          \E i \in DOMAIN Open :
              /\ b.owner = Open[i]
              /\ b.under # Invalid => \E j \in DOMAIN Open : i < j /\ b.under = Open[j]

\* A row is written once: no row is live in two row groups, and a buffered row
\* is in the catalog only while its buffer is kept for the subtransaction the
\* catalog row belongs to.  A row flushed twice would be read twice.
WrittenOnce ==
    \A i \in DOMAIN cat :
        /\ \A j \in DOMAIN cat : i # j => cat[i].rows \cap cat[j].rows = {}
        /\ \A k \in DOMAIN wbuf :
              cat[i].rows \cap wbuf[k].rows # {} => wbuf[k].under = cat[i].by

\* "every subtransaction has resolved by now, and with it every kept buffer":
\* the Asserts at the top of the two pre-commit flushes.
NothingKeptAtCommit ==
    Len(frames) = 1 =>
        /\ \A i \in DOMAIN wbuf : wbuf[i].under = Invalid
        /\ \A i \in DOMAIN dbuf : dbuf[i].under = Invalid
---------------------------------------------------------------------------
\* The rows that are left when only the subtransactions in S survive.
LiveUnder(S) ==
    LET Owned(b) == b.owner \in S
    IN  (RowsIn(SelectSeq(cat, LAMBDA g : g.by \in S)) \cup RowsIn(SelectSeq(wbuf, Owned)))
        \ (Deleted({q \in dv : q[2] \in S}) \cup RowsIn(SelectSeq(dbuf, Owned)))

Heap == INSTANCE HeapXact WITH
    Rows  <- 1..MaxRow,
    now   <- LiveUnder({Committed} \cup {Open[i] : i \in DOMAIN Open}),
    saved <- [k \in DOMAIN Open |-> LiveUnder({Committed} \cup {Open[i] : i \in 1..(k - 1)})],
    fresh <- nextRow..MaxRow,
    seen  <- seen

\* The buffers implement savepoint semantics: every scan returns exactly the
\* rows the transaction has written and not deleted, and the abort of a
\* subtransaction takes back what it wrote and nothing of what encloses it.
ImplementsHeap == Heap!Spec
=============================================================================
