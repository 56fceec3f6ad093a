------------------------------ MODULE HeapXact ------------------------------
(***************************************************************************)
(* What a table promises inside one transaction with savepoints: a row     *)
(* written is there for every later read, a rolled-back subtransaction     *)
(* takes back its own writes and nothing else.                             *)
(***************************************************************************)
EXTENDS Naturals, Sequences, SequencesExt

CONSTANT Rows   \* the rows that may ever be inserted

VARIABLES
    now,        \* rows the transaction sees now
    saved,      \* per open (sub)transaction: the rows its abort restores
    fresh,      \* rows not inserted yet
    seen        \* rows the last read returned

Init ==
    now = {} /\ saved = <<{}>> /\ fresh = Rows /\ seen = {}

Insert(r) ==
    /\ r \in fresh
    /\ fresh' = fresh \ {r}
    /\ now' = now \cup {r}
    /\ UNCHANGED <<saved, seen>>

Delete(r) ==
    /\ r \in now
    /\ now' = now \ {r}
    /\ UNCHANGED <<saved, fresh, seen>>

Update(r, n) ==
    /\ r \in now /\ n \in fresh
    /\ fresh' = fresh \ {n}
    /\ now' = (now \ {r}) \cup {n}
    /\ UNCHANGED <<saved, seen>>

Read ==
    /\ seen' = now
    /\ UNCHANGED <<now, saved, fresh>>

Begin ==
    /\ saved' = Append(saved, now)
    /\ UNCHANGED <<now, fresh, seen>>

SubCommit ==
    /\ Len(saved) > 1
    /\ saved' = Front(saved)
    /\ UNCHANGED <<now, fresh, seen>>

SubAbort ==
    /\ Len(saved) > 1
    /\ now' = Last(saved)
    /\ saved' = Front(saved)
    /\ UNCHANGED <<fresh, seen>>

Commit ==
    /\ Len(saved) = 1
    /\ saved' = <<now>>
    /\ UNCHANGED <<now, fresh, seen>>

Abort ==
    /\ now' = saved[1]
    /\ saved' = <<saved[1]>>
    /\ UNCHANGED <<fresh, seen>>

Next ==
    \/ \E r \in Rows : Insert(r) \/ Delete(r)
    \/ \E r, n \in Rows : Update(r, n)
    \/ Read \/ Begin \/ SubCommit \/ SubAbort \/ Commit \/ Abort

Spec == Init /\ [][Next]_<<now, saved, fresh, seen>>
=============================================================================
