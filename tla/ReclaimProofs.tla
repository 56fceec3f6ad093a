--------------------------- MODULE ReclaimProofs ---------------------------
(***************************************************************************)
(* Proofs about Reclaim, for any number of writers and readers and any     *)
(* bounds: the type invariant, the disjointness of groups and free ranges, *)
(* and the intactness of every snapshot's bytes.                           *)
(***************************************************************************)
EXTENDS Reclaim, TLAPS

\* Everything allocated lies below the highwater.  Committed free rows may lie
\* above it only between the lowering of the highwater and the commit that
\* drops them.
Bounds ==
    /\ \A g \in groups \cup InFlight \cup mnew : End(g) <= hw
    /\ \A f \in mfree : End(f) <= hw
    /\ mpc # "lowered" => \A f \in free : End(f) <= hw

\* What the maintenance transaction can hold in each phase.  Until the highwater
\* is set, the live end a truncation carries is still the end of the highest
\* group, and no free range it keeps reaches past it.
Phases ==
    /\ mpc = "idle" => mfree = {} /\ mnew = {} /\ mgone = {}
    /\ mpc \in TruncPhases => InFlight = {} /\ mnew = {} /\ mgone = {}
    /\ mpc = "shrunk" => /\ IsLiveEnd(mend) /\ mend <= hw
                         /\ \A f \in mfree : End(f) <= mend

\* A row_group row belongs to the committed catalog, to one writer or to the
\* maintenance transaction: the metapage hands a group number out once.
Owners ==
    /\ \A g \in groups \cup InFlight \cup mnew : g.id < nextId
    /\ \A g \in InFlight : g \notin groups /\ g \notin mnew
    /\ \A v, w \in Writers : v # w => wnew[v] \cap wnew[w] = {}
    /\ \A w \in Writers : wxid[w] = 0 => wnew[w] = {}

SpaceInv == TypeOK /\ Bounds /\ Phases /\ Owners /\ NoOverlap
---------------------------------------------------------------------------
\* Disjointness of ranges does not depend on their order.
LEMMA DisjointSym ==
    ASSUME NEW r, NEW s, Disjoint(r, s) PROVE Disjoint(s, r)
BY DEF Disjoint

\* The end of a range is a number above its start.
LEMMA EndNat ==
    /\ \A g \in Group : End(g) \in Nat /\ g.off \in Nat /\ g.len \in Nat /\ g.off < End(g)
    /\ \A f \in FreeRow : End(f) \in Nat /\ f.off \in Nat /\ f.len \in Nat /\ f.off < End(f)
BY DEF Group, FreeRow, End

\* Dropping groups and free rows keeps the rest disjoint.
LEMMA OverlapSubset ==
    ASSUME NEW gs, NEW fs, NEW hs, NEW es, NoOverlapAmong(gs, fs),
           hs \subseteq gs, es \subseteq fs
    PROVE  NoOverlapAmong(hs, es)
BY DEF NoOverlapAmong

\* Adding a group disjoint from everything keeps everything disjoint.
LEMMA OverlapAddGroup ==
    ASSUME NEW gs, NEW fs, NEW g, NoOverlapAmong(gs, fs),
           \A h \in gs : Disjoint(h, g), \A f \in fs : Disjoint(g, f)
    PROVE  NoOverlapAmong(gs \cup {g}, fs)
<1>1. \A h, k \in gs \cup {g} : h # k => Disjoint(h, k)
  BY DisjointSym DEF NoOverlapAmong
<1>2. QED  BY <1>1 DEF NoOverlapAmong

\* A group that starts at or above the end of everything is disjoint from it.
LEMMA AppendDisjoint ==
    ASSUME NEW gs \in SUBSET Group, NEW fs \in SUBSET FreeRow, NEW h \in Nat,
           \A r \in gs : End(r) <= h, \A f \in fs : End(f) <= h,
           NEW g \in Group, g.off = h, NoOverlapAmong(gs, fs)
    PROVE  NoOverlapAmong(gs \cup {g}, fs)
<1>1. \A r \in gs : Disjoint(r, g)  BY DEF Disjoint
<1>2. \A f \in fs : Disjoint(g, f)  BY DEF Disjoint
<1>3. QED  BY <1>1, <1>2, OverlapAddGroup

\* rs is fs with g's footprint recorded as a range r that x freed, in place of a
\* left neighbour L and a right neighbour R of g that x freed too, if any.
Recorded(fs, g, x, rs) ==
    \E r \in FreeRow, L \in SUBSET fs, R \in SUBSET fs :
        /\ rs = (fs \ (L \cup R)) \cup {r}
        /\ r.xid = x
        /\ \/ L = {} /\ r.off = g.off
           \/ \E f \in fs : L = {f} /\ r.off = f.off /\ End(f) = g.off /\ f.xid = x
        /\ \/ R = {} /\ End(r) = End(g)
           \/ \E f \in fs : R = {f} /\ End(r) = End(f) /\ f.off = End(g) /\ f.xid = x

\* A retirement records g's footprint and merges at most one range on each side.
LEMMA RecordedRange ==
    ASSUME NEW fs \in SUBSET FreeRow, NEW g \in Group, NEW x \in Nat, NEW c \in BOOLEAN,
           \A f, h \in fs : f # h => Disjoint(f, h)
    PROVE  Recorded(fs, g, x, RecordFreeSpace(fs, g, x, c))
<1> DEFINE L == {f \in fs : c /\ f.xid = x /\ End(f) = g.off}
           R == {f \in fs : c /\ f.xid = x /\ f.off = End(g)}
           lo == IF L = {} THEN g.off ELSE (CHOOSE f \in L : TRUE).off
           hi == IF R = {} THEN End(g) ELSE End(CHOOSE f \in R : TRUE)
           r == [off |-> lo, len |-> hi - lo, xid |-> x]
<1>1. \A f, h \in L : f = h  BY EndNat DEF Disjoint
<1>2. \A f, h \in R : f = h  BY EndNat DEF Disjoint
<1>3. \/ L = {} /\ lo = g.off
      \/ \E f \in fs : L = {f} /\ lo = f.off /\ End(f) = g.off /\ f.xid = x
  <2>1. CASE L = {}  BY <2>1
  <2>2. CASE L # {}
    <3>1. PICK f \in L : f = CHOOSE q \in L : TRUE  BY <2>2
    <3>2. L = {f}  BY <1>1, <3>1
    <3>3. lo = f.off  BY <2>2, <3>1
    <3>4. QED  BY <3>2, <3>3
  <2>3. QED  BY <2>1, <2>2
<1>4. \/ R = {} /\ hi = End(g)
      \/ \E f \in fs : R = {f} /\ hi = End(f) /\ f.off = End(g) /\ f.xid = x
  <2>1. CASE R = {}  BY <2>1
  <2>2. CASE R # {}
    <3>1. PICK f \in R : f = CHOOSE q \in R : TRUE  BY <2>2
    <3>2. R = {f}  BY <1>2, <3>1
    <3>3. hi = End(f)  BY <2>2, <3>1
    <3>4. QED  BY <3>2, <3>3
  <2>3. QED  BY <2>1, <2>2
<1>5. lo \in Nat /\ lo <= g.off  BY <1>3, EndNat
<1>6. hi \in Nat /\ hi >= End(g)  BY <1>4, EndNat
<1>7. g.off < End(g) /\ g.off \in Nat /\ End(g) \in Nat  BY EndNat
<1> HIDE DEF lo, hi, L, R
<1>8. r \in FreeRow /\ r.off = lo /\ r.xid = x /\ End(r) = hi
  BY <1>5, <1>6, <1>7 DEF FreeRow, End
<1>9. RecordFreeSpace(fs, g, x, c) = (fs \ (L \cup R)) \cup {r}
  BY DEF RecordFreeSpace, lo, hi, L, R
<1>10. L \in SUBSET fs /\ R \in SUBSET fs  BY DEF L, R
<1> HIDE DEF r
<1>11. QED  BY <1>3, <1>4, <1>8, <1>9, <1>10 DEF Recorded

\* g left gs and rs is a free list for the rest, below h.
RetiredInto(gs, g, rs, h) ==
    /\ NoOverlapAmong(gs \ {g}, rs)
    /\ rs \in SUBSET FreeRow
    /\ \A f \in rs : End(f) <= h

\* PgColumnarRetireGroup keeps groups and free ranges disjoint: the recorded
\* range is g's footprint joined to ranges that nothing else touches.
LEMMA RetireDisjoint ==
    ASSUME NEW gs \in SUBSET Group, NEW fs \in SUBSET FreeRow, NEW g \in gs,
           NEW x \in Nat, NEW c \in BOOLEAN, NEW h \in Nat, NoOverlapAmong(gs, fs),
           \A q \in gs : End(q) <= h, \A f \in fs : End(f) <= h
    PROVE  RetiredInto(gs, g, RecordFreeSpace(fs, g, x, c), h)
<1>0. g \in Group  OBVIOUS
<1>1. \A f, k \in fs : f # k => Disjoint(f, k)  BY DEF NoOverlapAmong
<1>2. PICK r \in FreeRow, L \in SUBSET fs, R \in SUBSET fs :
        /\ RecordFreeSpace(fs, g, x, c) = (fs \ (L \cup R)) \cup {r}
        /\ r.xid = x
        /\ \/ L = {} /\ r.off = g.off
           \/ \E f \in fs : L = {f} /\ r.off = f.off /\ End(f) = g.off /\ f.xid = x
        /\ \/ R = {} /\ End(r) = End(g)
           \/ \E f \in fs : R = {f} /\ End(r) = End(f) /\ f.off = End(g) /\ f.xid = x
  <2>1. Recorded(fs, g, x, RecordFreeSpace(fs, g, x, c))  BY <1>0, <1>1, RecordedRange
  <2>2. QED  BY <2>1, Zenon DEF Recorded
<1>3. End(r) <= h  BY <1>2
<1>4. \A q \in gs \ {g} : Disjoint(q, r)
  <2> SUFFICES ASSUME NEW q \in gs \ {g} PROVE Disjoint(q, r)  OBVIOUS
  <2>1. Disjoint(q, g) /\ \A f \in fs : Disjoint(q, f)  BY DEF NoOverlapAmong
  <2>2. q \in Group /\ g \in Group  OBVIOUS
  <2>3. QED  BY <1>2, <2>1, <2>2, EndNat DEF Disjoint
<1>5. \A f \in fs \ (L \cup R) : Disjoint(f, r)
  <2> SUFFICES ASSUME NEW f \in fs \ (L \cup R) PROVE Disjoint(f, r)  OBVIOUS
  <2>1. Disjoint(g, f) /\ \A k \in L \cup R : Disjoint(f, k)  BY <1>1 DEF NoOverlapAmong
  <2>2. f \in FreeRow /\ g \in Group  OBVIOUS
  <2>3. QED  BY <1>2, <2>1, <2>2, EndNat DEF Disjoint
<1>6. NoOverlapAmong(gs \ {g}, (fs \ (L \cup R)) \cup {r})
  BY <1>4, <1>5, DisjointSym DEF NoOverlapAmong
<1>7. QED  BY <1>2, <1>3, <1>6 DEF RetiredInto

\* g took the front of f out of fs, leaving a remnant.
SplitOff(gs, fs, f, n, c, g, h) ==
    /\ NoOverlapAmong(gs \cup {g}, (fs \ {f}) \cup Remnant(f, n, c))
    /\ (fs \ {f}) \cup Remnant(f, n, c) \in SUBSET FreeRow
    /\ \A q \in (fs \ {f}) \cup Remnant(f, n, c) : End(q) <= h
    /\ End(g) <= h
    /\ \A q \in Remnant(f, n, c) : q.xid = f.xid /\ q.off >= f.off /\ End(q) = End(f)

\* PgColumnarAllocateFreeSpace keeps them disjoint: the new group and the
\* remnant split the consumed range.
LEMMA ReuseDisjoint ==
    ASSUME NEW gs \in SUBSET Group, NEW fs \in SUBSET FreeRow, NEW f \in fs,
           NEW n \in Nat \ {0}, f.len >= n, NEW c \in BOOLEAN, NEW h \in Nat,
           NoOverlapAmong(gs, fs), NEW g \in Group, g.off = f.off, g.len = n,
           \A q \in fs : End(q) <= h
    PROVE  SplitOff(gs, fs, f, n, c, g, h)
<1> DEFINE R == Remnant(f, n, c)
<1>0. f \in FreeRow /\ f.off \in Nat /\ f.len \in Nat /\ End(f) = f.off + f.len
      /\ End(g) = f.off + n
  BY DEF FreeRow, End
<1>1. R \in SUBSET FreeRow /\ \A q \in R : q.off = f.off + n /\ End(q) = End(f) /\ q.xid = f.xid
  BY DEF Remnant, FreeRow, End
<1>2. \A q, k \in R : q = k  BY DEF Remnant
<1> HIDE DEF R
<1>3. \A q \in gs : Disjoint(q, g) /\ \A k \in R : Disjoint(q, k)
  <2> SUFFICES ASSUME NEW q \in gs
               PROVE Disjoint(q, g) /\ \A k \in R : Disjoint(q, k)  OBVIOUS
  <2>1. Disjoint(q, f)  BY DEF NoOverlapAmong
  <2>2. q \in Group  OBVIOUS
  <2>3. QED  BY <1>0, <1>1, <2>1, <2>2, EndNat DEF Disjoint
<1>4. \A q \in fs \ {f} : Disjoint(g, q) /\ \A k \in R : Disjoint(q, k)
  <2> SUFFICES ASSUME NEW q \in fs \ {f}
               PROVE Disjoint(g, q) /\ \A k \in R : Disjoint(q, k)  OBVIOUS
  <2>1. Disjoint(q, f)  BY DEF NoOverlapAmong
  <2>2. q \in FreeRow  OBVIOUS
  <2>3. QED  BY <1>0, <1>1, <2>1, <2>2, EndNat DEF Disjoint
<1>5. \A k \in R : Disjoint(g, k)  BY <1>0, <1>1 DEF Disjoint
<1>6. NoOverlapAmong(gs, (fs \ {f}) \cup R)
  BY <1>2, <1>3, <1>4, DisjointSym DEF NoOverlapAmong
<1>7. NoOverlapAmong(gs \cup {g}, (fs \ {f}) \cup R)
  BY <1>3, <1>4, <1>5, <1>6, OverlapAddGroup
<1>8. \A q \in (fs \ {f}) \cup R : End(q) <= h  BY <1>1
<1>9. End(g) <= h  BY <1>0
<1>10. (fs \ {f}) \cup R \in SUBSET FreeRow  BY <1>1
<1>11. \A q \in R : q.off >= f.off  BY <1>0, <1>1
<1>12. QED  BY <1>1, <1>7, <1>8, <1>9, <1>10, <1>11 DEF R, SplitOff
---------------------------------------------------------------------------
\* The rows of one writer are in flight; after a change of one writer's rows,
\* what is in flight is the others' and the new ones.
LEMMA InFlightMember ==
    \A g : g \in InFlight <=> \E w \in Writers : g \in wnew[w]
BY DEF InFlight

\* The same after a step.
LEMMA InFlightMemberNext ==
    \A g : g \in InFlight' <=> \E w \in Writers : g \in wnew'[w]
BY DEF InFlight

\* The space invariant holds initially.
LEMMA SpaceInit == Init => SpaceInv
<1> SUFFICES ASSUME Init PROVE SpaceInv  OBVIOUS
<1> USE DEF Init
<1>1. TypeOK
  BY ReclaimConstants DEF TypeOK, Verbs, TruncPhases
<1>2. InFlight = {}  BY DEF InFlight
<1>3. Bounds /\ Phases /\ Owners /\ NoOverlap
  BY <1>2 DEF Bounds, Phases, Owners, NoOverlap, NoOverlapAmong, Live, TruncPhases
<1>4. QED  BY <1>1, <1>3 DEF SpaceInv

\* An insert that flushes a row group appends it above everything.
LEMMA SpaceInsertFlush ==
    ASSUME SpaceInv, NEW w \in Writers, NEW n \in 1..MaxLen, InsertFlush(w, n)
    PROVE  SpaceInv'
<1> DEFINE x == IF wxid[w] = 0 THEN nextXid ELSE wxid[w]
           g == NewGroup(hw, n, x)
<1> USE DEF SpaceInv
<1>0. n \in Nat \ {0}  BY ReclaimConstants
<1>1. x \in Nat  BY DEF TypeOK
<1>2. g \in Group /\ g.off = hw /\ End(g) = hw + n
  BY <1>0, <1>1 DEF TypeOK, Group, NewGroup, End
<1>3. /\ wnew' = [wnew EXCEPT ![w] = @ \cup {g}]
      /\ wxid' = [wxid EXCEPT ![w] = x]
      /\ nextXid' = IF wxid[w] = 0 THEN nextXid + 1 ELSE nextXid
      /\ WriteLogicalData(g)
      /\ hw' = hw + n /\ nextId' = nextId + 1
      /\ UNCHANGED <<groups, dead, free, svars, mvars>>
      /\ mpc \notin TruncPhases
  BY DEF InsertFlush, NotExclusive
<1> HIDE DEF g, x
<1>4. InFlight' = InFlight \cup {g}
  BY <1>3, InFlightMember, InFlightMemberNext DEF TypeOK
<1>5. TypeOK'
  <2>1. page' \in [0..(MaxPage - 1) -> Nat] /\ eof' \in Nat
    BY <1>2, <1>3 DEF WriteLogicalData, TypeOK, Group, NewGroup, g
  <2>2. QED  BY <1>0, <1>1, <1>2, <1>3, <2>1 DEF TypeOK, svars, mvars
<1>6. InFlight \subseteq Group  BY InFlightMember DEF TypeOK
<1>7. mpc # "lowered"  BY <1>3 DEF TruncPhases
<1>8. Bounds'
  BY <1>0, <1>2, <1>3, <1>4, <1>6, <1>7, EndNat DEF Bounds, TypeOK, mvars
<1>9. Phases'
  BY <1>3 DEF Phases, mvars, TruncPhases
<1>10. NoOverlapAmong((groups \cup InFlight) \cup {g}, free)
  BY <1>2, <1>6, <1>7, AppendDisjoint DEF Bounds, TypeOK, NoOverlap
<1>11. mpc # "idle" => NoOverlapAmong((Live \cup InFlight) \cup {g}, mfree)
  BY <1>2, <1>6, AppendDisjoint DEF Bounds, TypeOK, NoOverlap, Live
<1>12. NoOverlap'
  <2>1. Live' = Live /\ free' = free /\ mfree' = mfree /\ mpc' = mpc /\ groups' = groups
    BY <1>3 DEF Live, mvars
  <2>2. (groups \cup InFlight)' = (groups \cup InFlight) \cup {g}
        /\ (Live \cup InFlight)' = (Live \cup InFlight) \cup {g}  BY <2>1, <1>4
  <2>3. QED  BY <1>10, <1>11, <2>1, <2>2 DEF NoOverlap
<1>13. Owners'
  <2>1. g.id = nextId /\ nextId \in Nat  BY DEF g, NewGroup, TypeOK
  <2>2. \A h \in groups \cup InFlight \cup mnew : h.id \in Nat /\ h.id < nextId
    BY <1>6 DEF Owners, TypeOK, Group
  <2>3. \A u, v \in Writers : u # v => wnew'[u] \cap wnew'[v] = {}
    <3>1. \A v \in Writers : g \notin wnew[v]  BY <2>1, <2>2, InFlightMember
    <3>2. QED  BY <1>3, <3>1 DEF Owners, TypeOK
  <2>4. \A v \in Writers : wxid'[v] = 0 => wnew'[v] = {}
    <3>1. x # 0  BY DEF x, TypeOK
    <3>2. QED  BY <1>3, <3>1 DEF Owners, TypeOK
  <2>5. \A h \in groups' \cup InFlight' \cup mnew' : h.id < nextId'
    BY <1>3, <1>4, <2>1, <2>2 DEF mvars
  <2>6. \A h \in InFlight' : h \notin groups' /\ h \notin mnew'
    BY <1>3, <1>4, <2>1, <2>2 DEF Owners, mvars
  <2>7. QED  BY <2>3, <2>4, <2>5, <2>6 DEF Owners
<1>14. QED  BY <1>5, <1>8, <1>9, <1>12, <1>13

\* A writer's commit or abort only moves its groups from in flight to committed,
\* or drops them.
LEMMA SpaceWriterEnd ==
    ASSUME SpaceInv, NEW w \in Writers, WriterCommit(w) \/ WriterAbort(w)
    PROVE  SpaceInv'
<1> USE DEF SpaceInv
<1>1. /\ wxid' = [wxid EXCEPT ![w] = 0] /\ wnew' = [wnew EXCEPT ![w] = {}]
      /\ groups' = groups \cup wnew[w] \/ groups' = groups
      /\ UNCHANGED <<dead, free, hw, eof, page, nextId, nextXid, svars, mvars>>
  BY DEF WriterCommit, WriterAbort, store
<1>2. TypeOK'  BY <1>1 DEF TypeOK, svars, mvars
<1>3. InFlight' \subseteq InFlight /\ wnew[w] \subseteq InFlight
  BY <1>1, InFlightMember, InFlightMemberNext DEF TypeOK
<1>4. groups' \cup InFlight' \subseteq groups \cup InFlight  BY <1>1, <1>3
<1>5. Live' \cup InFlight' \subseteq Live \cup InFlight  BY <1>1, <1>3 DEF Live, mvars
<1>6. Bounds'  BY <1>1, <1>3, <1>4 DEF Bounds, mvars
<1>7. Phases'
  <2>1. mpc \in TruncPhases => groups' = groups /\ InFlight' = {}
    BY <1>1, <1>3 DEF Phases
  <2>2. QED  BY <1>1, <2>1 DEF Phases, mvars, IsLiveEnd, TruncPhases
<1>8. NoOverlapAmong(groups' \cup InFlight', free)
  BY <1>4, OverlapSubset DEF NoOverlap
<1>9. mpc # "idle" => NoOverlapAmong(Live' \cup InFlight', mfree)
  BY <1>5, OverlapSubset DEF NoOverlap
<1>10. NoOverlap'  BY <1>1, <1>8, <1>9 DEF NoOverlap, mvars
<1>11. Owners'
  <2>1. \A h \in InFlight' : h \notin wnew[w]
    BY <1>1, InFlightMemberNext DEF Owners, TypeOK
  <2>2. \A u, v \in Writers : u # v => wnew'[u] \cap wnew'[v] = {}
    BY <1>1 DEF Owners, TypeOK
  <2>3. \A v \in Writers : wxid'[v] = 0 => wnew'[v] = {}
    BY <1>1 DEF Owners, TypeOK
  <2>4. QED  BY <1>1, <1>3, <1>4, <2>1, <2>2, <2>3 DEF Owners, mvars
<1>12. QED  BY <1>2, <1>6, <1>7, <1>10, <1>11

\* Deleting rows and everything a reader does leave the space alone.
LEMMA SpaceUntouched ==
    ASSUME SpaceInv, TypeOK',
           UNCHANGED <<groups, free, hw, nextId, wxid, wnew, mpc, mfree, mnew, mgone, mend>>
    PROVE  SpaceInv'
<1>1. InFlight' = InFlight /\ Live' = Live  BY DEF InFlight, Live
<1>2. Bounds' /\ Phases' /\ Owners' /\ NoOverlap'
  BY <1>1 DEF SpaceInv, Bounds, Phases, Owners, NoOverlap, IsLiveEnd
<1>3. QED  BY <1>2 DEF SpaceInv

\* Snapshots and row deletes move no range.
LEMMA SpaceReadersAndDeletes ==
    ASSUME SpaceInv,
           \/ \E g \in groups : DeleteAllRows(g)
           \/ \E r \in Readers : TakeSnapshot(r) \/ OpenTable(r) \/ EndRead(r)
    PROVE  SpaceInv'
<1>0. TypeOK  BY DEF SpaceInv
<1>1. ASSUME NEW g \in groups, DeleteAllRows(g) PROVE SpaceInv'
  <2>0. dead' \in [1..MaxGroup -> Nat] /\ nextXid' \in Nat \ {0}
    <3>1. dead \in [1..MaxGroup -> Nat] /\ nextXid \in Nat \ {0}  BY <1>0 DEF TypeOK
    <3>2. dead' = [dead EXCEPT ![g.id] = nextXid] /\ nextXid' = nextXid + 1
      BY <1>1 DEF DeleteAllRows
    <3>3. dead' \in [1..MaxGroup -> Nat]  BY <3>1, <3>2, Zenon
    <3>4. QED  BY <3>1, <3>2, <3>3
  <2>1. TypeOK'  BY <1>0, <1>1, <2>0 DEF DeleteAllRows, TypeOK, wvars, svars, mvars
  <2>2. QED  BY <1>1, <2>1, SpaceUntouched DEF DeleteAllRows, wvars, mvars
<1>2. ASSUME NEW r \in Readers, TakeSnapshot(r) PROVE SpaceInv'
  <2>1. TypeOK'
    BY <1>0, <1>2 DEF TakeSnapshot, TypeOK, store, wvars, svars, mvars
  <2>2. QED  BY <1>2, <2>1, SpaceUntouched DEF TakeSnapshot, store, wvars, mvars
<1>3. ASSUME NEW r \in Readers, OpenTable(r) PROVE SpaceInv'
  <2>1. TypeOK'  BY <1>0, <1>3 DEF OpenTable, TypeOK, store, wvars, mvars
  <2>2. QED  BY <1>3, <2>1, SpaceUntouched DEF OpenTable, store, wvars, mvars
<1>4. ASSUME NEW r \in Readers, EndRead(r) PROVE SpaceInv'
  <2>1. TypeOK'  BY <1>0, <1>4 DEF EndRead, TypeOK, store, wvars, mvars
  <2>2. QED  BY <1>4, <2>1, SpaceUntouched DEF EndRead, store, wvars, mvars
<1>5. QED  BY <1>1, <1>2, <1>3, <1>4

\* Starting a verb can only shrink the maintenance view of the free list.
LEMMA SpaceMaintBegin ==
    ASSUME SpaceInv, NEW v \in Verbs, MaintBegin(v)
    PROVE  SpaceInv'
<1> USE DEF SpaceInv
<1>1. /\ mpc' = v /\ mpc' \notin TruncPhases /\ mpc' # "idle" /\ mpc \notin TruncPhases
      /\ mpc # "lowered"
      /\ UNCHANGED <<groups, dead, free, hw, eof, page, nextId, wxid, wnew, svars, mnew, mgone,
                     mend>>
  BY DEF MaintBegin, Verbs, TruncPhases, wvars
<1>2. mfree' \subseteq (IF mpc = "idle" THEN free ELSE mfree)
  BY DEF MaintBegin, Reconcile
<1>3. TypeOK'
  <2>1. mxid' \in Nat /\ nextXid' \in Nat \ {0}  BY DEF MaintBegin, TypeOK
  <2>2. QED  BY <1>1, <1>2, <2>1 DEF TypeOK, svars
<1>4. InFlight' = InFlight /\ Live' = Live  BY <1>1 DEF InFlight, Live
<1>5. mpc = "idle" => Live = groups  BY DEF Phases, Live
<1>6. NoOverlapAmong(Live \cup InFlight, mfree')
  <2>1. CASE mpc = "idle"  BY <2>1, <1>2, <1>5, OverlapSubset DEF NoOverlap
  <2>2. CASE mpc # "idle"  BY <2>2, <1>2, OverlapSubset DEF NoOverlap
  <2>3. QED  BY <2>1, <2>2
<1>7. NoOverlap'  BY <1>1, <1>4, <1>6 DEF NoOverlap
<1>8. Bounds'
  <2>1. \A f \in mfree' : End(f) <= hw  BY <1>1, <1>2 DEF Bounds
  <2>2. QED  BY <1>1, <1>4, <2>1 DEF Bounds
<1>9. Phases'  BY <1>1 DEF Phases, TruncPhases
<1>10. Owners'  BY <1>1, <1>4 DEF Owners
<1>11. QED  BY <1>3, <1>7, <1>8, <1>9, <1>10

\* A flush into a freed range takes the range, or its front, off the free list.
LEMMA SpaceMaintReuse ==
    ASSUME SpaceInv, NEW n \in 1..MaxLen, NEW f \in mfree, NEW c \in Coalesce,
           MaintReuse(f, n, c)
    PROVE  SpaceInv'
<1> DEFINE g == NewGroup(f.off, n, mxid)
<1> USE DEF SpaceInv
<1>0. n \in Nat \ {0} /\ c \in BOOLEAN /\ f \in FreeRow
  BY ReclaimConstants DEF TypeOK
<1>1. g \in Group /\ g.off = f.off /\ g.len = n
  BY <1>0 DEF TypeOK, Group, NewGroup, FreeRow
<1>2. /\ mpc \in Verbs /\ mpc \notin TruncPhases /\ mpc # "idle" /\ mpc # "lowered"
      /\ f.len >= n
      /\ mfree' = (mfree \ {f}) \cup Remnant(f, n, c)
      /\ WriteLogicalData(g) /\ mnew' = mnew \cup {g} /\ nextId' = nextId + 1
      /\ UNCHANGED <<groups, dead, free, hw, nextXid, wxid, wnew, svars, mpc, mxid, mgone,
                     mend>>
  BY DEF MaintReuse, Fitting, Verbs, TruncPhases, wvars
<1> HIDE DEF g
<1>3. Live \cup InFlight \in SUBSET Group /\ mfree \in SUBSET FreeRow /\ hw \in Nat
  BY InFlightMember DEF TypeOK, Live
<1>4. NoOverlapAmong(Live \cup InFlight, mfree)  BY <1>2 DEF NoOverlap
<1>5. \A q \in mfree : End(q) <= hw  BY DEF Bounds
<1>6. /\ NoOverlapAmong((Live \cup InFlight) \cup {g}, mfree')
      /\ mfree' \in SUBSET FreeRow
      /\ \A q \in mfree' : End(q) <= hw
      /\ End(g) <= hw
  <2> DEFINE gs == Live \cup InFlight
             fs == mfree
  <2>1. gs \in SUBSET Group /\ fs \in SUBSET FreeRow /\ f \in fs /\ NoOverlapAmong(gs, fs)
    BY <1>3, <1>4
  <2> HIDE DEF gs, fs
  <2>2. \A q \in fs : End(q) <= hw  BY <1>5 DEF fs
  <2>3. SplitOff(gs, fs, f, n, c, g, hw)
    BY <1>0, <1>1, <1>2, <1>3, <2>1, <2>2, ReuseDisjoint
  <2>4. QED  BY <1>2, <2>3 DEF gs, fs, SplitOff
<1>7. InFlight' = InFlight /\ Live' = Live \cup {g}  BY <1>2 DEF InFlight, Live
<1>8. NoOverlap'
  <2>1. (Live \cup InFlight)' = (Live \cup InFlight) \cup {g}  BY <1>7
  <2>2. QED  BY <1>2, <1>6, <1>7, <2>1 DEF NoOverlap
<1>9. Bounds'  BY <1>2, <1>6, <1>7 DEF Bounds
<1>10. Phases'  BY <1>2 DEF Phases, TruncPhases
<1>11. TypeOK'
  <2>1. page' \in [0..(MaxPage - 1) -> Nat] /\ eof' \in Nat
    BY <1>1, <1>2, EndNat DEF WriteLogicalData, TypeOK, Group
  <2>2. mnew' \subseteq Group /\ mfree' \subseteq FreeRow /\ nextId' \in Nat \ {0}
    BY <1>1, <1>2, <1>6 DEF TypeOK
  <2>3. QED  BY <1>2, <2>1, <2>2 DEF TypeOK, svars
<1>12. Owners'
  <2>1. g.id = nextId /\ nextId \in Nat  BY DEF g, NewGroup, TypeOK
  <2>2. \A h \in groups \cup InFlight \cup mnew : h.id \in Nat /\ h.id < nextId
    BY InFlightMember DEF Owners, TypeOK, Group
  <2>3. \A h \in groups' \cup InFlight' \cup mnew' : h.id < nextId'
    BY <1>2, <1>7, <2>1, <2>2
  <2>4. \A h \in InFlight' : h \notin groups' /\ h \notin mnew'
    <3>1. mnew' = mnew \cup {g} /\ groups' = groups /\ InFlight' = InFlight  BY <1>2, <1>7
    <3>2. g \notin InFlight  BY <2>1, <2>2
    <3>3. QED  BY <3>1, <3>2 DEF Owners
  <2>5. QED  BY <1>2, <2>3, <2>4 DEF Owners
<1>13. QED  BY <1>8, <1>9, <1>10, <1>11, <1>12

\* A flush that finds no fitting range appends above everything.
LEMMA SpaceMaintAppend ==
    ASSUME SpaceInv, NEW n \in 1..MaxLen, MaintAppend(n)
    PROVE  SpaceInv'
<1> DEFINE g == NewGroup(hw, n, mxid)
<1> USE DEF SpaceInv
<1>0. n \in Nat \ {0} /\ hw \in Nat  BY ReclaimConstants DEF TypeOK
<1>1. g \in Group /\ g.off = hw /\ End(g) = hw + n /\ g.id = nextId
  BY <1>0 DEF TypeOK, Group, NewGroup, End
<1>2. /\ mpc \in Verbs /\ mpc \notin TruncPhases /\ mpc # "idle" /\ mpc # "lowered"
      /\ WriteLogicalData(g) /\ mnew' = mnew \cup {g} /\ nextId' = nextId + 1
      /\ hw' = hw + n
      /\ UNCHANGED <<groups, dead, free, nextXid, wxid, wnew, svars, mpc, mxid, mfree,
                     mgone, mend>>
  BY DEF MaintAppend, Verbs, TruncPhases, wvars
<1> HIDE DEF g
<1>3. Live \cup InFlight \in SUBSET Group /\ mfree \in SUBSET FreeRow
      /\ groups \cup InFlight \cup mnew \in SUBSET Group /\ free \in SUBSET FreeRow
  BY InFlightMember DEF TypeOK, Live
<1>4. NoOverlapAmong(Live \cup InFlight, mfree)  BY <1>2 DEF NoOverlap
<1>5. InFlight' = InFlight /\ Live' = Live \cup {g}  BY <1>2 DEF InFlight, Live
<1>6. NoOverlapAmong((Live \cup InFlight) \cup {g}, mfree)
  <2>1. \A r \in Live \cup InFlight : End(r) <= hw  BY DEF Bounds, Live
  <2>2. \A f \in mfree : End(f) <= hw  BY DEF Bounds
  <2>3. QED  BY <1>0, <1>1, <1>3, <1>4, <2>1, <2>2, AppendDisjoint
<1>7. NoOverlap'
  <2>1. (Live \cup InFlight)' = (Live \cup InFlight) \cup {g}  BY <1>5
  <2>2. QED  BY <1>2, <1>5, <1>6, <2>1 DEF NoOverlap
<1>8. Bounds'
  BY <1>0, <1>1, <1>2, <1>3, <1>5, EndNat DEF Bounds
<1>9. Phases'  BY <1>2 DEF Phases, TruncPhases
<1>10. TypeOK'
  <2>1. page' \in [0..(MaxPage - 1) -> Nat] /\ eof' \in Nat
    BY <1>1, <1>2, EndNat DEF WriteLogicalData, TypeOK, Group
  <2>2. QED  BY <1>0, <1>1, <1>2, <2>1 DEF TypeOK, svars
<1>11. Owners'
  <2>1. nextId \in Nat  BY DEF TypeOK
  <2>2. \A h \in groups \cup InFlight \cup mnew : h.id \in Nat /\ h.id < nextId
    BY <1>3 DEF Owners, Group
  <2>3. \A h \in groups' \cup InFlight' \cup mnew' : h.id < nextId'
    BY <1>1, <1>2, <1>5, <2>1, <2>2
  <2>4. \A h \in InFlight' : h \notin groups' /\ h \notin mnew'
    <3>1. mnew' = mnew \cup {g} /\ groups' = groups /\ InFlight' = InFlight  BY <1>2, <1>5
    <3>2. g \notin InFlight  BY <1>1, <2>1, <2>2
    <3>3. QED  BY <3>1, <3>2 DEF Owners
  <2>5. QED  BY <1>2, <2>3, <2>4 DEF Owners
<1>12. QED  BY <1>7, <1>8, <1>9, <1>10, <1>11

\* Retiring a group turns its footprint into free space.
LEMMA SpaceRetire ==
    ASSUME SpaceInv, NEW g \in Live, NEW c \in Coalesce, Retire(g, c)
    PROVE  SpaceInv'
<1> USE DEF SpaceInv
<1>0. c \in BOOLEAN /\ mxid \in Nat /\ hw \in Nat  BY ReclaimConstants DEF TypeOK
<1>1. /\ mpc \in Verbs /\ mpc \notin TruncPhases /\ mpc # "idle" /\ mpc # "lowered"
      /\ mfree' = RecordFreeSpace(mfree, g, mxid, c)
      /\ mnew' = mnew \ {g}
      /\ mgone' = IF g \in groups THEN mgone \cup {g} ELSE mgone
      /\ UNCHANGED <<groups, dead, free, hw, eof, page, nextId, nextXid, wxid, wnew, svars,
                     mpc, mxid, mend>>
  BY DEF Retire, Verbs, TruncPhases, store, wvars
<1>2. InFlight' = InFlight  BY <1>1 DEF InFlight
<1>3. Live' \cup InFlight' \subseteq (Live \cup InFlight) \ {g}
  BY <1>1, <1>2 DEF Live, Owners
<1> DEFINE gs == Live \cup InFlight
           fs == mfree
<1>4. /\ gs \in SUBSET Group /\ fs \in SUBSET FreeRow /\ g \in gs
      /\ NoOverlapAmong(gs, fs)
      /\ \A q \in gs : End(q) <= hw
      /\ \A f \in fs : End(f) <= hw
  BY <1>1, InFlightMember DEF TypeOK, Live, NoOverlap, Bounds
<1>5. RetiredInto(gs, g, mfree', hw)
  <2> HIDE DEF gs, fs
  <2>1. RetiredInto(gs, g, RecordFreeSpace(fs, g, mxid, c), hw)
    BY <1>0, <1>4, RetireDisjoint
  <2>2. QED  BY <2>1, <1>1 DEF fs
<1>6. NoOverlapAmong(Live' \cup InFlight', mfree')
  BY <1>3, <1>5, OverlapSubset DEF RetiredInto
<1>7. NoOverlap'  BY <1>1, <1>2, <1>6 DEF NoOverlap
<1>8. Bounds'  BY <1>1, <1>2, <1>5 DEF Bounds, RetiredInto
<1>9. Phases'  BY <1>1 DEF Phases, TruncPhases
<1>10. Owners'  BY <1>1, <1>2 DEF Owners
<1>11. TypeOK'
  <2>1. mfree' \subseteq FreeRow  BY <1>5 DEF RetiredInto
  <2>2. mgone' \subseteq Group /\ mnew' \subseteq Group  BY <1>1 DEF TypeOK
  <2>3. QED  BY <1>1, <2>1, <2>2 DEF TypeOK, svars
<1>12. QED  BY <1>7, <1>8, <1>9, <1>10, <1>11

\* The end of a maintenance transaction installs its view or forgets it.
LEMMA SpaceMaintEnd ==
    ASSUME SpaceInv, MaintCommit \/ MaintAbort
    PROVE  SpaceInv'
<1> USE DEF SpaceInv
<1>1. /\ mpc \in Verbs /\ mpc \notin TruncPhases /\ mpc # "idle"
      /\ mpc # "lowered" /\ EndMaint
      /\ UNCHANGED <<dead, hw, eof, page, nextId, nextXid, wxid, wnew, svars>>
      /\ \/ groups' = Live /\ free' = mfree
         \/ groups' = groups /\ free' = free
  BY DEF MaintCommit, MaintAbort, Verbs, TruncPhases, store, wvars
<1>2. InFlight' = InFlight  BY <1>1 DEF InFlight
<1>3. NoOverlap'
  BY <1>1, <1>2 DEF NoOverlap, EndMaint
<1>4. groups' \subseteq groups \cup mnew  BY <1>1 DEF Live
<1>5. Bounds'  BY <1>1, <1>2, <1>4 DEF Bounds, EndMaint
<1>6. Phases'  BY <1>1 DEF Phases, EndMaint, TruncPhases
<1>7. Owners'  BY <1>1, <1>2, <1>4 DEF Owners, EndMaint
<1>8. TypeOK'  BY <1>1, <1>4 DEF TypeOK, EndMaint, svars
<1>9. QED  BY <1>3, <1>5, <1>6, <1>7, <1>8

\* The truncation's first step drops free rows only, and when it shrinks the
\* file no remaining free range reaches past the last live group.
LEMMA SpaceTruncate ==
    ASSUME SpaceInv, NEW e \in 0..MaxPage, Truncate(e)
    PROVE  SpaceInv'
<1> USE DEF SpaceInv
<1>1. /\ mpc = "idle" /\ \A w \in Writers : wxid[w] = 0
      /\ IsLiveEnd(e) /\ mend' = e
      /\ mxid' = nextXid /\ nextXid' = nextXid + 1
      /\ mpc' \in {"shrunk", "healed"} /\ eof' \in {e, eof}
      /\ mfree' \subseteq free
      /\ mpc' = "shrunk" => \A f \in mfree' : f.off < e
      /\ UNCHANGED <<groups, dead, free, hw, page, nextId, wxid, wnew, svars, mnew, mgone>>
  BY DEF Truncate, Reconcile, wvars
<1>2. InFlight = {} /\ InFlight' = {}  BY <1>1, InFlightMember, InFlightMemberNext DEF Owners
<1>3. mnew = {} /\ mgone = {} /\ Live' = groups /\ mpc' # "idle" /\ mpc' # "lowered"
  BY <1>1 DEF Phases, Live
<1>4. NoOverlapAmong(groups, mfree') /\ NoOverlapAmong(groups, free)
  BY <1>1, <1>2, OverlapSubset DEF NoOverlap
<1>5. NoOverlap'
  <2>1. groups' \cup InFlight' = groups /\ Live' \cup InFlight' = groups
    BY <1>1, <1>2, <1>3
  <2>2. QED  BY <1>1, <1>4, <2>1 DEF NoOverlap
<1>6. Bounds'  BY <1>1, <1>2, <1>3 DEF Bounds
<1>7. Phases'
  <2>1. e \in Nat /\ hw \in Nat  BY ReclaimConstants DEF TypeOK
  <2>2. e <= hw  BY <1>1, <2>1 DEF IsLiveEnd, Bounds
  <2>3. ASSUME mpc' = "shrunk", NEW f \in mfree' PROVE End(f) <= e
    <3>1. f \in FreeRow /\ f.off < e  BY <1>1, <2>3 DEF TypeOK
    <3>2. PICK g \in groups : End(g) = e
      BY <1>1, <2>1, <3>1, EndNat DEF IsLiveEnd
    <3>3. Disjoint(g, f) /\ g \in Group  BY <1>4, <2>3 DEF NoOverlapAmong, TypeOK
    <3>4. QED  BY <2>1, <3>1, <3>2, <3>3, EndNat DEF Disjoint
  <2>4. IsLiveEnd(mend)'  BY <1>1 DEF IsLiveEnd
  <2>5. QED  BY <1>1, <1>2, <1>3, <2>2, <2>3, <2>4 DEF Phases
<1>8. Owners'  BY <1>1, <1>2, <1>3 DEF Owners
<1>9. TypeOK'
  <2>1. eof' \in Nat /\ nextXid' \in Nat \ {0} /\ mxid' \in Nat /\ mfree' \subseteq FreeRow
        /\ mpc' \in TruncPhases /\ mend' \in Nat
    BY <1>1, ReclaimConstants DEF TypeOK, TruncPhases
  <2>2. QED  BY <1>1, <2>1 DEF TypeOK, svars
<1>10. QED  BY <1>5, <1>6, <1>7, <1>8, <1>9

\* Lowering the highwater to the live end carried from the shrink leaves every
\* group and every free range of the truncation's view below it.
LEMMA SpaceTruncateLower ==
    ASSUME SpaceInv, TruncateLower
    PROVE  SpaceInv'
<1> USE DEF SpaceInv
<1>1. /\ mpc = "shrunk" /\ hw' = mend /\ mpc' = "lowered"
      /\ UNCHANGED <<groups, dead, free, eof, page, nextId, nextXid, wxid, wnew, svars,
                     mxid, mfree, mnew, mgone, mend>>
  BY DEF TruncateLower, wvars
<1>2. InFlight = {} /\ InFlight' = {} /\ mnew = {} /\ mgone = {} /\ Live' = Live
      /\ mpc \in TruncPhases /\ mpc' \in TruncPhases
  BY <1>1 DEF Phases, TruncPhases, InFlight, Live
<1>3. NoOverlap'  BY <1>1, <1>2 DEF NoOverlap
<1>4. Bounds'  BY <1>1, <1>2 DEF Bounds, Phases, IsLiveEnd
<1>5. Phases'  BY <1>1, <1>2 DEF Phases
<1>6. Owners'  BY <1>1, <1>2 DEF Owners
<1>7. TypeOK'
  <2>1. hw' \in Nat  BY <1>1 DEF TypeOK
  <2>2. QED  BY <1>1, <1>2, <2>1 DEF TypeOK, svars
<1>8. QED  BY <1>3, <1>4, <1>5, <1>6, <1>7

\* The truncation's commit installs its free list.
LEMMA SpaceTruncateCommit ==
    ASSUME SpaceInv, TruncateCommit
    PROVE  SpaceInv'
<1> USE DEF SpaceInv
<1>1. /\ mpc \in TruncPhases /\ mpc # "idle" /\ free' = mfree /\ EndMaint
      /\ UNCHANGED <<groups, dead, hw, eof, page, nextId, nextXid, wxid, wnew, svars>>
  BY DEF TruncateCommit, TruncPhases, wvars
<1>2. InFlight = {} /\ InFlight' = {} /\ mnew = {} /\ mgone = {} /\ Live = groups
  BY <1>1 DEF Phases, InFlight, Live
<1>3. NoOverlap'  BY <1>1, <1>2 DEF NoOverlap, EndMaint
<1>4. Bounds'  BY <1>1, <1>2 DEF Bounds, EndMaint
<1>5. Phases'  BY <1>1 DEF Phases, EndMaint, TruncPhases
<1>6. Owners'  BY <1>1, <1>2 DEF Owners, EndMaint
<1>7. TypeOK'  BY <1>1 DEF TypeOK, EndMaint, svars
<1>8. QED  BY <1>3, <1>4, <1>5, <1>6, <1>7

\* A crash outside the window leaves what was committed.
LEMMA SpaceCrash ==
    ASSUME SpaceInv, Crash
    PROVE  SpaceInv'
<1> USE DEF SpaceInv
<1>1. /\ mpc # "lowered" /\ EndMaint /\ slock' = {}
      /\ wxid' = [w \in Writers |-> 0] /\ wnew' = [w \in Writers |-> {}]
      /\ sxmin' = [q \in Readers |-> 0] /\ svis' = [q \in Readers |-> {}]
      /\ UNCHANGED <<groups, dead, free, hw, eof, page, nextId, nextXid>>
  BY DEF Crash, CrashEffect, store
<1>2. InFlight' = {}  BY <1>1, InFlightMemberNext
<1>3. NoOverlapAmong(groups, free)  BY OverlapSubset DEF NoOverlap
<1>4. NoOverlap'
  <2>1. groups' \cup InFlight' = groups  BY <1>1, <1>2
  <2>2. QED  BY <1>1, <1>3, <2>1 DEF NoOverlap, EndMaint
<1>5. Bounds'  BY <1>1, <1>2 DEF Bounds, EndMaint
<1>6. Phases'  BY <1>1 DEF Phases, EndMaint, TruncPhases
<1>7. Owners'  BY <1>1, <1>2 DEF Owners, EndMaint
<1>8. TypeOK'  BY <1>1 DEF TypeOK, EndMaint
<1>9. QED  BY <1>4, <1>5, <1>6, <1>7, <1>8

\* Every step of the system keeps the space invariant.
LEMMA SpaceNext == SpaceInv /\ [Next]_vars => SpaceInv'
<1> SUFFICES ASSUME SpaceInv, [Next]_vars PROVE SpaceInv'  OBVIOUS
<1>1. CASE UNCHANGED vars
  <2>1. TypeOK'  BY <1>1 DEF SpaceInv, TypeOK, vars, store, wvars, svars, mvars
  <2>2. QED  BY <1>1, <2>1, SpaceUntouched DEF vars, store, wvars, mvars
<1>2. CASE Next
  <2>1. CASE \E w \in Writers, n \in 1..MaxLen : InsertFlush(w, n)
    BY <2>1, SpaceInsertFlush
  <2>2. CASE \E w \in Writers : WriterCommit(w) \/ WriterAbort(w)
    BY <2>2, SpaceWriterEnd
  <2>3. CASE \/ \E g \in groups : DeleteAllRows(g)
             \/ \E r \in Readers : TakeSnapshot(r) \/ OpenTable(r) \/ EndRead(r)
    BY <2>3, SpaceReadersAndDeletes
  <2>4. CASE \E v \in Verbs : MaintBegin(v)  BY <2>4, SpaceMaintBegin
  <2>5. CASE \E n \in 1..MaxLen, f \in mfree, c \in Coalesce : MaintReuse(f, n, c)
    BY <2>5, SpaceMaintReuse
  <2>6. CASE \E n \in 1..MaxLen : MaintAppend(n)  BY <2>6, SpaceMaintAppend
  <2>7. CASE \E g \in Live, c \in Coalesce : Retire(g, c)  BY <2>7, SpaceRetire
  <2>8. CASE MaintCommit \/ MaintAbort  BY <2>8, SpaceMaintEnd
  <2>9. CASE \E e \in 0..MaxPage : Truncate(e)  BY <2>9, SpaceTruncate
  <2>10. CASE TruncateLower  BY <2>10, SpaceTruncateLower
  <2>11. CASE TruncateCommit  BY <2>11, SpaceTruncateCommit
  <2>12. CASE Crash  BY <2>12, SpaceCrash
  <2>13. QED
    BY <1>2, <2>1, <2>2, <2>3, <2>4, <2>5, <2>6, <2>7, <2>8, <2>9, <2>10, <2>11, <2>12
    DEF Next
<1>3. QED  BY <1>1, <1>2

\* Typing: every variable keeps its type in every reachable state.
THEOREM TypeCorrect == Spec => []TypeOK
<1>1. SpaceInv => TypeOK  BY DEF SpaceInv
<1>2. QED  BY <1>1, SpaceInit, SpaceNext, PTL DEF Spec

\* No page is ever owned twice, neither in the committed catalog nor in the
\* view of the maintenance transaction, whatever interleaving of inserts,
\* retirements, reuse, truncation, aborts and crashes (outside the truncation's
\* last window) happens.
THEOREM NoOverlapAlways == Spec => []NoOverlap
<1>1. SpaceInv => NoOverlap  BY DEF SpaceInv
<1>2. QED  BY <1>1, SpaceInit, SpaceNext, PTL DEF Spec
=============================================================================
