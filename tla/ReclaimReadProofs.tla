------------------------- MODULE ReclaimReadProofs -------------------------
(***************************************************************************)
(* Proof that no snapshot ever loses the bytes of a group it sees, on top  *)
(* of the space invariant of ReclaimProofs.                                *)
(***************************************************************************)
EXTENDS ReclaimProofs

\* Every page of g lies in some range of fs.
Covered(g, fs) == \A p \in Footprint(g) : \E f \in fs : p \in Footprint(f)

\* The groups some transaction may read or is writing.
Stored == groups \cup InFlight \cup mnew

\* The file and the highwater stay within the modelled file.
Sizes == hw <= MaxPage /\ eof <= MaxPage

\* The age of a snapshot against the maintenance transaction's.
Ages ==
    /\ \A r \in Readers : sxmin[r] = 0 => svis[r] = {}
    /\ \A r \in Readers : sxmin[r] <= nextXid
    /\ mpc # "idle" => mxid # 0 /\ \A r \in Readers : sxmin[r] <= mxid

\* Until it commits, the maintenance transaction does not write over a group
\* of the committed catalog, and what it retired is covered by ranges that
\* carry its own xid, which no horizon passes while it runs.
Uncommitted ==
    /\ mgone \subseteq groups
    /\ \A g \in groups, h \in mnew : Disjoint(h, g)
    /\ \A g \in groups, f \in mfree : Disjoint(g, f) \/ f.xid = mxid
    /\ \A g \in mgone : Covered(g, mfree)

\* What protects group g, seen by a snapshot of xmin x: nothing else is stored
\* on it, a free range that touches it was freed by a transaction the snapshot
\* does not see, and once retired it is covered by such ranges.
Protected(g, x) ==
    /\ \A h \in Stored : h = g \/ Disjoint(h, g)
    /\ \A f \in free \cup mfree : Disjoint(g, f) \/ x <= f.xid
    /\ g \in groups \/ Covered(g, free)
    /\ mpc # "idle" => g \in Live \/ Covered(g, mfree)

ReadInv ==
    /\ SpaceInv /\ Sizes /\ Ages /\ Uncommitted
    /\ \A g \in Stored : Intact(g)
    /\ \A r \in Readers : \A g \in svis[r] : Intact(g) /\ Protected(g, sxmin[r])
---------------------------------------------------------------------------
\* A covered range ends where some covering range may end, not beyond.
LEMMA CoveredEnd ==
    ASSUME NEW g \in Group, NEW fs \in SUBSET FreeRow, NEW h \in Nat, Covered(g, fs),
           \A f \in fs : End(f) <= h
    PROVE  End(g) <= h
<1>1. End(g) - 1 \in Footprint(g)  BY EndNat DEF Footprint
<1>2. PICK f \in fs : End(g) - 1 \in Footprint(f)  BY <1>1 DEF Covered
<1>3. QED  BY <1>2, EndNat DEF Footprint

\* Recording a retired group's footprint keeps what was covered covered, and
\* covers the group.
LEMMA CoveredRecord ==
    ASSUME NEW fs \in SUBSET FreeRow, NEW g \in Group, NEW x \in Nat, NEW c \in BOOLEAN,
           \A f, k \in fs : f # k => Disjoint(f, k)
    PROVE  /\ Covered(g, RecordFreeSpace(fs, g, x, c))
           /\ \A q : Covered(q, fs) => Covered(q, RecordFreeSpace(fs, g, x, c))
           /\ \A f \in RecordFreeSpace(fs, g, x, c) : f \in fs \/ f.xid = x
<1>1. Recorded(fs, g, x, RecordFreeSpace(fs, g, x, c))  BY RecordedRange
<1>2. PICK r \in FreeRow, L \in SUBSET fs, R \in SUBSET fs :
        /\ RecordFreeSpace(fs, g, x, c) = (fs \ (L \cup R)) \cup {r}
        /\ r.xid = x
        /\ \/ L = {} /\ r.off = g.off
           \/ \E f \in fs : L = {f} /\ r.off = f.off /\ End(f) = g.off /\ f.xid = x
        /\ \/ R = {} /\ End(r) = End(g)
           \/ \E f \in fs : R = {f} /\ End(r) = End(f) /\ f.off = End(g) /\ f.xid = x
  BY <1>1, Zenon DEF Recorded
<1>3. r.off <= g.off /\ End(g) <= End(r)  BY <1>2, EndNat
<1>4. \A p \in Footprint(g) : p \in Footprint(r)  BY <1>3, EndNat DEF Footprint
<1>5. \A f \in L \cup R : \A p \in Footprint(f) : p \in Footprint(r)
  BY <1>2, <1>3, EndNat DEF Footprint
<1>6. QED  BY <1>2, <1>4, <1>5 DEF Covered

\* Consuming a range that a group does not touch leaves the group covered.
LEMMA CoveredSplit ==
    ASSUME NEW fs \in SUBSET FreeRow, NEW g \in Group, NEW f \in fs, NEW rs,
           Covered(g, fs), Disjoint(g, f)
    PROVE  Covered(g, (fs \ {f}) \cup rs)
<1>1. \A p \in Footprint(g) : p \notin Footprint(f)
  BY EndNat DEF Footprint, Disjoint
<1>2. QED  BY <1>1 DEF Covered

\* A write changes no byte of a group it is disjoint from, and stores its own.
LEMMA WriteKeeps ==
    ASSUME SpaceInv, Sizes, NEW g \in Group, NEW h \in Group, WriteLogicalData(g),
           Intact(h), Disjoint(h, g)
    PROVE  Intact(h)'
<1>0. eof \in Nat /\ MaxPage \in Nat /\ End(h) <= eof /\ eof <= MaxPage
  BY ReclaimConstants DEF Intact, Sizes, SpaceInv, TypeOK
<1>1. \A p \in Footprint(h) : p \notin Footprint(g) /\ p \in 0..(MaxPage - 1)
  BY <1>0, EndNat DEF Footprint, Disjoint
<1>2. \A p \in Footprint(h) : page'[p] = h.id
  BY <1>1 DEF WriteLogicalData, Intact, SpaceInv, TypeOK
<1>3. End(h) <= eof'  BY EndNat DEF WriteLogicalData, Intact, SpaceInv, TypeOK
<1>4. QED  BY <1>2, <1>3 DEF Intact

\* Writing a group's bytes leaves that group intact and every disjoint one too.
LEMMA WriteStores ==
    ASSUME SpaceInv, Sizes, NEW g \in Group, WriteLogicalData(g), End(g) <= MaxPage
    PROVE  Intact(g)' /\ eof' <= MaxPage
<1>1. \A p \in Footprint(g) : p \in 0..(MaxPage - 1)
  BY ReclaimConstants, EndNat DEF Footprint
<1>2. \A p \in Footprint(g) : page'[p] = g.id
  BY <1>1 DEF WriteLogicalData, SpaceInv, TypeOK
<1>3. End(g) <= eof' /\ eof' <= MaxPage
  BY EndNat DEF WriteLogicalData, SpaceInv, TypeOK, Sizes
<1>4. QED  BY <1>2, <1>3 DEF Intact
---------------------------------------------------------------------------
\* The types of the sets the read invariant speaks of.
LEMMA ReadTypes ==
    ASSUME ReadInv
    PROVE  /\ Stored \in SUBSET Group /\ Live \in SUBSET Group
           /\ \A r \in Readers : svis[r] \in SUBSET Group /\ sxmin[r] \in Nat
           /\ free \in SUBSET FreeRow /\ mfree \in SUBSET FreeRow
           /\ hw \in Nat /\ eof \in Nat /\ mxid \in Nat /\ nextXid \in Nat
BY InFlightMember DEF ReadInv, SpaceInv, TypeOK, Stored, Live

\* Outside the truncation every group a snapshot sees lies below the highwater.
LEMMA SeenBelowHighwater ==
    ASSUME ReadInv, mpc \notin TruncPhases, NEW r \in Readers, NEW q \in svis[r]
    PROVE  q \in Group /\ End(q) <= hw
<1>1. q \in Group /\ hw \in Nat /\ free \in SUBSET FreeRow  BY ReadTypes
<1>2. Protected(q, sxmin[r]) /\ Bounds  BY DEF ReadInv, SpaceInv
<1>3. \A f \in free : End(f) <= hw  BY <1>2 DEF Bounds, TruncPhases
<1>4. CASE q \in groups  BY <1>1, <1>2, <1>4 DEF Bounds
<1>5. CASE Covered(q, free)  BY <1>1, <1>3, <1>5, CoveredEnd
<1>6. QED  BY <1>1, <1>2, <1>4, <1>5 DEF Protected

\* Writing a group that nothing stored and nothing seen touches keeps every
\* byte, and the new group has its own.
LEMMA WriteFresh ==
    ASSUME ReadInv, NEW g \in Group, WriteLogicalData(g), End(g) <= MaxPage,
           \A h \in Stored : Disjoint(h, g),
           \A r \in Readers : \A q \in svis[r] : Disjoint(q, g)
    PROVE  /\ \A h \in Stored \cup {g} : Intact(h)'
           /\ \A r \in Readers : \A q \in svis[r] : Intact(q)'
           /\ eof' <= MaxPage
<1>1. SpaceInv /\ Sizes  BY DEF ReadInv
<1>2. \A h \in Stored : Intact(h)'
  BY <1>1, ReadTypes, WriteKeeps DEF ReadInv
<1>3. \A r \in Readers : \A q \in svis[r] : Intact(q)'
  BY <1>1, ReadTypes, WriteKeeps DEF ReadInv
<1>4. Intact(g)' /\ eof' <= MaxPage  BY <1>1, WriteStores
<1>5. QED  BY <1>2, <1>3, <1>4

\* An insert appends above everything stored and everything seen.
LEMMA ReadInsertFlush ==
    ASSUME ReadInv, SpaceInv', NEW w \in Writers, NEW n \in 1..MaxLen, InsertFlush(w, n)
    PROVE  ReadInv'
<1> DEFINE x == IF wxid[w] = 0 THEN nextXid ELSE wxid[w]
           g == NewGroup(hw, n, x)
<1>1. n \in Nat \ {0} /\ x \in Nat /\ nextXid \in Nat
  BY ReclaimConstants DEF ReadInv, SpaceInv, TypeOK
<1>2. g \in Group /\ g.off = hw /\ End(g) = hw + n
  BY <1>1 DEF ReadInv, SpaceInv, TypeOK, Group, NewGroup, End
<1>3. /\ wnew' = [wnew EXCEPT ![w] = @ \cup {g}]
      /\ nextXid' \in {nextXid, nextXid + 1} /\ WriteLogicalData(g)
      /\ hw' = hw + n /\ hw + n <= MaxPage /\ mpc \notin TruncPhases
      /\ UNCHANGED <<groups, free, sxmin, svis, mpc, mxid, mfree, mnew, mgone>>
  BY DEF InsertFlush, NotExclusive, svars, mvars
<1> HIDE DEF g, x
<1>4. InFlight' = InFlight \cup {g}
  BY <1>3, InFlightMember, InFlightMemberNext DEF ReadInv, SpaceInv, TypeOK
<1>5. Stored' = Stored \cup {g} /\ Live' = Live  BY <1>3, <1>4 DEF Stored, Live
<1>6. \A h \in Stored : Disjoint(h, g)
  BY <1>2 DEF ReadInv, SpaceInv, Bounds, Stored, Disjoint
<1>7. \A r \in Readers : \A q \in svis[r] : Disjoint(q, g)
  BY <1>2, <1>3, SeenBelowHighwater DEF Disjoint
<1>8. /\ \A h \in Stored \cup {g} : Intact(h)'
      /\ \A r \in Readers : \A q \in svis[r] : Intact(q)'
      /\ eof' <= MaxPage
  BY <1>2, <1>3, <1>6, <1>7, WriteFresh
<1>9. Sizes'  BY <1>3, <1>8 DEF Sizes
<1>10. Ages'  BY <1>1, <1>3, ReadTypes DEF ReadInv, Ages
<1>11. Uncommitted'  BY <1>3 DEF ReadInv, Uncommitted
<1>12. \A r \in Readers : \A q \in svis[r] : Protected(q, sxmin[r])'
  <2> SUFFICES ASSUME NEW r \in Readers, NEW q \in svis[r]
               PROVE  Protected(q, sxmin[r])'  OBVIOUS
  <2>1. Protected(q, sxmin[r]) /\ Disjoint(g, q)  BY <1>7, DisjointSym DEF ReadInv
  <2>2. QED  BY <1>3, <1>5, <2>1 DEF Protected
<1>13. QED  BY <1>3, <1>5, <1>8, <1>9, <1>10, <1>11, <1>12 DEF ReadInv

\* A maintenance flush that appends does the same.
LEMMA ReadMaintAppend ==
    ASSUME ReadInv, SpaceInv', NEW n \in 1..MaxLen, MaintAppend(n)
    PROVE  ReadInv'
<1> DEFINE g == NewGroup(hw, n, mxid)
<1>1. n \in Nat \ {0}  BY ReclaimConstants
<1>2. g \in Group /\ g.off = hw /\ End(g) = hw + n
  BY <1>1 DEF ReadInv, SpaceInv, TypeOK, Group, NewGroup, End
<1>3. /\ mnew' = mnew \cup {g} /\ WriteLogicalData(g)
      /\ hw' = hw + n /\ hw + n <= MaxPage /\ mpc \notin TruncPhases
      /\ UNCHANGED <<groups, free, nextXid, wnew, sxmin, svis, mpc, mxid, mfree, mgone>>
  BY DEF MaintAppend, Verbs, TruncPhases, svars, wvars
<1> HIDE DEF g
<1>4. InFlight' = InFlight  BY <1>3 DEF InFlight
<1>5. Stored' = Stored \cup {g} /\ Live' = Live \cup {g}  BY <1>3, <1>4 DEF Stored, Live
<1>6. \A h \in Stored : Disjoint(h, g)
  BY <1>2 DEF ReadInv, SpaceInv, Bounds, Stored, Disjoint
<1>7. \A r \in Readers : \A q \in svis[r] : Disjoint(q, g)
  BY <1>2, <1>3, SeenBelowHighwater DEF Disjoint
<1>8. /\ \A h \in Stored \cup {g} : Intact(h)'
      /\ \A r \in Readers : \A q \in svis[r] : Intact(q)'
      /\ eof' <= MaxPage
  BY <1>2, <1>3, <1>6, <1>7, WriteFresh
<1>9. Sizes'  BY <1>3, <1>8 DEF Sizes
<1>10. Ages'  BY <1>3 DEF ReadInv, Ages
<1>11. Uncommitted'
  <2>1. \A q \in groups : Disjoint(g, q)  BY <1>6, DisjointSym DEF Stored
  <2>2. QED  BY <1>3, <2>1 DEF ReadInv, Uncommitted
<1>12. \A r \in Readers : \A q \in svis[r] : Protected(q, sxmin[r])'
  <2> SUFFICES ASSUME NEW r \in Readers, NEW q \in svis[r]
               PROVE  Protected(q, sxmin[r])'  OBVIOUS
  <2>1. Protected(q, sxmin[r]) /\ Disjoint(g, q)  BY <1>7, DisjointSym DEF ReadInv
  <2>2. QED  BY <1>3, <1>5, <2>1 DEF Protected
<1>13. QED  BY <1>3, <1>5, <1>8, <1>9, <1>10, <1>11, <1>12 DEF ReadInv

\* A flush into a freed range: the range is behind the horizon, so no snapshot
\* and no committed group is under it.
LEMMA ReadMaintReuse ==
    ASSUME ReadInv, SpaceInv', NEW n \in 1..MaxLen, NEW f \in mfree, NEW c \in Coalesce,
           MaintReuse(f, n, c)
    PROVE  ReadInv'
<1> DEFINE g == NewGroup(f.off, n, mxid)
           fs == (mfree \ {f}) \cup Remnant(f, n, c)
<1>0. n \in Nat \ {0} /\ c \in BOOLEAN /\ f \in FreeRow /\ hw \in Nat /\ mxid \in Nat
      /\ f.xid \in Nat
  <2>1. n \in Nat \ {0} /\ c \in BOOLEAN  BY ReclaimConstants
  <2>2. f \in FreeRow /\ hw \in Nat /\ mxid \in Nat  BY ReadTypes
  <2>3. QED  BY <2>1, <2>2 DEF FreeRow
<1>1. g \in Group /\ g.off = f.off /\ g.len = n
  BY <1>0 DEF ReadInv, SpaceInv, TypeOK, Group, NewGroup, FreeRow
<1>2. /\ mpc \notin TruncPhases /\ mpc # "idle" /\ f.len >= n /\ BehindHorizon(f.xid)
      /\ mfree' = fs /\ mnew' = mnew \cup {g} /\ WriteLogicalData(g)
      /\ UNCHANGED <<groups, free, hw, nextXid, wnew, sxmin, svis, mpc, mxid, mgone>>
  BY DEF MaintReuse, Fitting, Verbs, TruncPhases, svars, wvars
<1>3. /\ End(g) <= End(f) /\ f.off <= g.off
      /\ \A q \in Remnant(f, n, c) : q.xid = f.xid /\ f.off <= q.off /\ End(q) <= End(f)
                                     /\ q \in FreeRow
  BY <1>0, <1>1, <1>2 DEF End, Remnant, FreeRow
<1>4. \A q \in Group : Disjoint(q, f) =>
          Disjoint(q, g) /\ Disjoint(g, q) /\ \A k \in Remnant(f, n, c) : Disjoint(q, k)
  BY <1>0, <1>1, <1>3, EndNat DEF Disjoint
<1> HIDE DEF g, fs
<1>5. \A q \in Stored : q \in Group /\ Disjoint(q, f)
  <2>1. f.xid # mxid  BY <1>0, <1>2 DEF BehindHorizon
  <2>2. \A q \in groups : Disjoint(q, f)  BY <2>1 DEF ReadInv, Uncommitted
  <2>3. \A q \in InFlight \cup mnew : Disjoint(q, f)
    BY <1>2 DEF ReadInv, SpaceInv, NoOverlap, NoOverlapAmong, Live
  <2>4. QED  BY <2>2, <2>3, ReadTypes DEF Stored
<1>6. \A r \in Readers : \A q \in svis[r] : q \in Group /\ Disjoint(q, f)
  <2> SUFFICES ASSUME NEW r \in Readers, NEW q \in svis[r]
               PROVE  q \in Group /\ Disjoint(q, f)  OBVIOUS
  <2>1. sxmin[r] # 0 /\ sxmin[r] \in Nat /\ q \in Group
    BY ReadTypes DEF ReadInv, Ages
  <2>2. f.xid < sxmin[r]  BY <1>2, <2>1 DEF BehindHorizon
  <2>3. Disjoint(q, f) \/ sxmin[r] <= f.xid  BY DEF ReadInv, Protected
  <2>4. QED  BY <1>0, <2>1, <2>2, <2>3
<1>7. End(g) <= MaxPage
  <2>1. End(f) <= hw /\ hw <= MaxPage  BY DEF ReadInv, SpaceInv, Bounds, Sizes
  <2>2. QED  BY <1>0, <1>1, <1>3, <2>1, EndNat, ReclaimConstants
<1>8. /\ \A h \in Stored \cup {g} : Intact(h)'
      /\ \A r \in Readers : \A q \in svis[r] : Intact(q)'
      /\ eof' <= MaxPage
  BY <1>1, <1>2, <1>4, <1>5, <1>6, <1>7, WriteFresh
<1>9. InFlight' = InFlight /\ Stored' = Stored \cup {g} /\ Live' = Live \cup {g}
  BY <1>2 DEF Stored, Live, InFlight
<1>10. Sizes'  BY <1>2, <1>8 DEF Sizes, ReadInv
<1>11. Ages'  BY <1>2 DEF ReadInv, Ages
<1>12. \A q \in Group : Covered(q, mfree) /\ Disjoint(q, f) => Covered(q, fs)
  BY CoveredSplit, ReadTypes DEF fs
<1>13. Uncommitted'
  <2>1. \A q \in groups, k \in fs : Disjoint(q, k) \/ k.xid = mxid
    BY <1>3, <1>4, <1>5 DEF ReadInv, Uncommitted, Stored, fs
  <2>2. \A q \in groups, h \in mnew' : Disjoint(h, q)
    BY <1>2, <1>4, <1>5 DEF ReadInv, Uncommitted, Stored
  <2>3. \A q \in mgone : Covered(q, fs)
    BY <1>5, <1>12 DEF ReadInv, Uncommitted, Stored
  <2>4. mgone' \subseteq groups'  BY <1>2 DEF ReadInv, Uncommitted
  <2>5. QED  BY <1>2, <2>1, <2>2, <2>3, <2>4 DEF Uncommitted
<1>14. \A r \in Readers : \A q \in svis[r] : Protected(q, sxmin[r])'
  <2> SUFFICES ASSUME NEW r \in Readers, NEW q \in svis[r]
               PROVE  Protected(q, sxmin[r])'  OBVIOUS
  <2>1. Protected(q, sxmin[r])  BY DEF ReadInv
  <2>2. Disjoint(g, q) /\ q \in Group /\ Disjoint(q, f)  BY <1>4, <1>6
  <2>3. \A k \in free \cup fs : Disjoint(q, k) \/ sxmin[r] <= k.xid
    BY <1>4, <2>1, <2>2 DEF Protected, fs
  <2>4. q \in Live \cup {g} \/ Covered(q, fs)
    BY <1>2, <1>12, <2>1, <2>2 DEF Protected
  <2>5. \A h \in Stored \cup {g} : h = q \/ Disjoint(h, q)  BY <2>1, <2>2 DEF Protected
  <2>6. q \in groups \/ Covered(q, free)  BY <2>1 DEF Protected
  <2>7. QED  BY <1>2, <1>9, <2>3, <2>4, <2>5, <2>6 DEF Protected
<1>15. QED  BY <1>2, <1>8, <1>9, <1>10, <1>11, <1>13, <1>14 DEF ReadInv

\* Retiring a group covers it with a range that carries the retiring xid.
LEMMA ReadRetire ==
    ASSUME ReadInv, SpaceInv', NEW g \in Live, NEW c \in Coalesce, Retire(g, c)
    PROVE  ReadInv'
<1>0. c \in BOOLEAN /\ mxid \in Nat /\ g \in Group /\ mfree \in SUBSET FreeRow
  BY ReclaimConstants, ReadTypes
<1>1. /\ mpc # "idle" /\ mpc \notin TruncPhases
      /\ mfree' = RecordFreeSpace(mfree, g, mxid, c) /\ mnew' = mnew \ {g}
      /\ mgone' = IF g \in groups THEN mgone \cup {g} ELSE mgone
      /\ UNCHANGED <<groups, free, hw, eof, page, nextXid, wnew, sxmin, svis, mpc, mxid>>
  BY DEF Retire, Verbs, TruncPhases, store, wvars, svars
<1>2. \A f, k \in mfree : f # k => Disjoint(f, k)
  BY <1>1 DEF ReadInv, SpaceInv, NoOverlap, NoOverlapAmong
<1>3. /\ Covered(g, mfree') /\ \A q : Covered(q, mfree) => Covered(q, mfree')
      /\ \A f \in mfree' : f \in mfree \/ f.xid = mxid
  BY <1>0, <1>1, <1>2, CoveredRecord
<1>4. InFlight' = InFlight /\ Stored' \subseteq Stored  BY <1>1 DEF InFlight, Stored
<1>5. Sizes' /\ Ages'  BY <1>1 DEF ReadInv, Sizes, Ages
<1>6. \A q : Intact(q) => Intact(q)'  BY <1>1 DEF Intact
<1>7. Uncommitted'  BY <1>1, <1>3 DEF ReadInv, Uncommitted, Live
<1>8. \A r \in Readers : \A q \in svis[r] : Protected(q, sxmin[r])'
  <2> SUFFICES ASSUME NEW r \in Readers, NEW q \in svis[r]
               PROVE  Protected(q, sxmin[r])'  OBVIOUS
  <2>1. Protected(q, sxmin[r]) /\ sxmin[r] <= mxid  BY <1>1 DEF ReadInv, Ages
  <2>2. \A f \in free' \cup mfree' : Disjoint(q, f) \/ sxmin[r] <= f.xid
    BY <1>1, <1>3, <2>1 DEF Protected
  <2>3. q \in Live' \/ Covered(q, mfree')
    BY <1>1, <1>3, <2>1 DEF Protected, Live
  <2>4. QED  BY <1>1, <1>4, <2>1, <2>2, <2>3 DEF Protected
<1>9. QED  BY <1>1, <1>4, <1>5, <1>6, <1>7, <1>8 DEF ReadInv

\* Reconciliation drops nothing here: no free row overlaps a live group.
LEMMA ReadMaintBegin ==
    ASSUME ReadInv, SpaceInv', NEW v \in Verbs, MaintBegin(v)
    PROVE  ReadInv'
<1>1. /\ mpc' = v /\ mpc' # "idle" /\ mpc \notin TruncPhases
      /\ mxid' = (IF mpc = "idle" THEN nextXid ELSE mxid)
      /\ nextXid' = (IF mpc = "idle" THEN nextXid + 1 ELSE nextXid)
      /\ UNCHANGED <<groups, free, hw, eof, page, wnew, sxmin, svis, mnew, mgone>>
  BY DEF MaintBegin, Verbs, TruncPhases, wvars, svars
<1>2. mpc = "idle" => mfree = {} /\ mnew = {} /\ mgone = {} /\ Live = groups
  BY DEF ReadInv, SpaceInv, Phases, Live
<1>3. mfree' = IF mpc = "idle" THEN free ELSE mfree
  <2>1. mpc = "idle" => \A f \in free, h \in Live : Disjoint(f, h)
    BY <1>2, DisjointSym DEF ReadInv, SpaceInv, NoOverlap, NoOverlapAmong
  <2>2. mpc # "idle" => \A f \in mfree, h \in Live : Disjoint(f, h)
    BY DisjointSym DEF ReadInv, SpaceInv, NoOverlap, NoOverlapAmong
  <2>3. QED  BY <2>1, <2>2 DEF MaintBegin, Reconcile
<1>4. InFlight' = InFlight /\ Stored' = Stored /\ Live' = Live
  BY <1>1 DEF InFlight, Stored, Live
<1>5. Sizes'  BY <1>1 DEF ReadInv, Sizes
<1>6. Ages'
  <2>1. nextXid # 0 /\ nextXid \in Nat  BY DEF ReadInv, SpaceInv, TypeOK
  <2>2. QED  BY <1>1, <2>1, ReadTypes DEF ReadInv, Ages
<1>7. Uncommitted'
  <2>1. CASE mpc = "idle"
    <3>1. \A q \in groups, f \in free : Disjoint(q, f)
      BY DEF ReadInv, SpaceInv, NoOverlap, NoOverlapAmong
    <3>2. QED  BY <1>1, <1>2, <1>3, <2>1, <3>1 DEF Uncommitted
  <2>2. CASE mpc # "idle"  BY <1>1, <1>3, <2>2 DEF ReadInv, Uncommitted
  <2>3. QED  BY <2>1, <2>2
<1>8. \A r \in Readers : \A q \in svis[r] : Protected(q, sxmin[r])'
  <2> SUFFICES ASSUME NEW r \in Readers, NEW q \in svis[r]
               PROVE  Protected(q, sxmin[r])'  OBVIOUS
  <2>1. Protected(q, sxmin[r])  BY DEF ReadInv
  <2>2. CASE mpc = "idle"  BY <1>1, <1>2, <1>3, <1>4, <2>1, <2>2 DEF Protected
  <2>3. CASE mpc # "idle"  BY <1>1, <1>3, <1>4, <2>1, <2>3 DEF Protected
  <2>4. QED  BY <2>2, <2>3
<1>9. \A q : Intact(q) => Intact(q)'  BY <1>1 DEF Intact
<1>10. QED  BY <1>1, <1>4, <1>5, <1>6, <1>7, <1>8, <1>9 DEF ReadInv

\* A commit of the maintenance transaction replaces the committed catalog by
\* its view; an abort forgets the view.
LEMMA ReadMaintEnd ==
    ASSUME ReadInv, SpaceInv', MaintCommit \/ MaintAbort
    PROVE  ReadInv'
<1>1. /\ mpc # "idle" /\ mpc' = "idle"
      /\ mfree' = {} /\ mnew' = {} /\ mgone' = {}
      /\ UNCHANGED <<hw, eof, page, nextXid, wnew, sxmin, svis>>
      /\ \/ groups' = Live /\ free' = mfree
         \/ groups' = groups /\ free' = free
  BY DEF MaintCommit, MaintAbort, EndMaint, Verbs, store, wvars, svars
<1>2. InFlight' = InFlight /\ Stored' \subseteq Stored
  BY <1>1 DEF InFlight, Stored, Live
<1>3. Sizes' /\ Ages' /\ Uncommitted'
  BY <1>1 DEF ReadInv, Sizes, Ages, Uncommitted
<1>4. \A q : Intact(q) => Intact(q)'  BY <1>1 DEF Intact
<1>5. \A r \in Readers : \A q \in svis[r] : Protected(q, sxmin[r])'
  <2> SUFFICES ASSUME NEW r \in Readers, NEW q \in svis[r]
               PROVE  Protected(q, sxmin[r])'  OBVIOUS
  <2>1. Protected(q, sxmin[r])  BY DEF ReadInv
  <2>2. QED  BY <1>1, <1>2, <2>1 DEF Protected
<1>6. QED  BY <1>1, <1>2, <1>3, <1>4, <1>5 DEF ReadInv

\* A writer's commit only moves groups between owners; an abort drops them.
LEMMA ReadWriterEnd ==
    ASSUME ReadInv, SpaceInv', NEW w \in Writers, WriterCommit(w) \/ WriterAbort(w)
    PROVE  ReadInv'
<1>1. /\ wnew' = [wnew EXCEPT ![w] = {}]
      /\ groups' = groups \cup wnew[w] \/ groups' = groups
      /\ UNCHANGED <<free, hw, eof, page, nextXid, sxmin, svis, mpc, mxid, mfree, mnew, mgone>>
  BY DEF WriterCommit, WriterAbort, store, svars, mvars
<1>2. InFlight' \subseteq InFlight /\ wnew[w] \subseteq InFlight
  BY <1>1, InFlightMember, InFlightMemberNext DEF ReadInv, SpaceInv, TypeOK
<1>3. Stored' \subseteq Stored /\ groups \subseteq groups'  BY <1>1, <1>2 DEF Stored
<1>4. Sizes' /\ Ages'  BY <1>1 DEF ReadInv, Sizes, Ages
<1>5. \A q : Intact(q) => Intact(q)'  BY <1>1 DEF Intact
<1>6. Uncommitted'
  <2>1. \A q \in wnew[w], f \in mfree : Disjoint(q, f)
    <3>1. mpc = "idle" => mfree = {}  BY DEF ReadInv, SpaceInv, Phases
    <3>2. QED  BY <1>2, <3>1 DEF ReadInv, SpaceInv, NoOverlap, NoOverlapAmong
  <2>2. \A q \in wnew[w], h \in mnew : Disjoint(h, q)
    <3>1. mpc = "idle" => mnew = {}  BY DEF ReadInv, SpaceInv, Phases
    <3>2. \A q \in wnew[w], h \in mnew : h # q  BY <1>2 DEF ReadInv, SpaceInv, Owners
    <3>3. QED  BY <1>2, <3>1, <3>2 DEF ReadInv, SpaceInv, NoOverlap, NoOverlapAmong, Live
  <2>3. QED  BY <1>1, <1>3, <2>1, <2>2 DEF ReadInv, Uncommitted
<1>7. Live \subseteq Live'  BY <1>1, <1>3 DEF Live
<1>8. \A r \in Readers : \A q \in svis[r] : Protected(q, sxmin[r])'
  <2> SUFFICES ASSUME NEW r \in Readers, NEW q \in svis[r]
               PROVE  Protected(q, sxmin[r])'  OBVIOUS
  <2>1. Protected(q, sxmin[r])  BY DEF ReadInv
  <2>2. QED  BY <1>1, <1>3, <1>7, <2>1 DEF Protected
<1>9. QED  BY <1>1, <1>3, <1>4, <1>5, <1>6, <1>8 DEF ReadInv

\* A new snapshot sees the committed groups, and is no younger than the
\* maintenance transaction.
LEMMA ReadTakeSnapshot ==
    ASSUME ReadInv, SpaceInv', NEW r \in Readers, TakeSnapshot(r)
    PROVE  ReadInv'
<1>1. PICK x \in 1..nextXid :
        /\ SnapshotXmin(x) /\ sxmin' = [sxmin EXCEPT ![r] = x]
        /\ svis' = [svis EXCEPT ![r] = groups]
        /\ UNCHANGED <<groups, free, hw, eof, page, nextXid, wnew, mpc, mxid, mfree, mnew, mgone>>
  BY DEF TakeSnapshot, store, wvars, mvars
<1>2. x \in Nat \ {0} /\ x <= nextXid  BY ReadTypes
<1>3. mpc # "idle" => x <= mxid
  BY <1>1 DEF SnapshotXmin, ReadInv, Ages
<1>4. /\ sxmin'[r] = x /\ svis'[r] = groups
      /\ \A q \in Readers : q # r => sxmin'[q] = sxmin[q] /\ svis'[q] = svis[q]
  BY <1>1 DEF ReadInv, SpaceInv, TypeOK
<1>5. InFlight' = InFlight /\ Stored' = Stored /\ Live' = Live
  BY <1>1 DEF InFlight, Stored, Live
<1>6. Sizes' /\ Uncommitted'  BY <1>1 DEF ReadInv, Sizes, Uncommitted
<1>7. Ages'  BY <1>1, <1>2, <1>3, <1>4, ReadTypes DEF ReadInv, Ages
<1>8. \A q : Intact(q) => Intact(q)'  BY <1>1 DEF Intact
<1>9. \A q, y : Protected(q, y) => Protected(q, y)'  BY <1>1, <1>5 DEF Protected
<1>10. \A q \in groups : Protected(q, x)
  <2> SUFFICES ASSUME NEW q \in groups PROVE Protected(q, x)  OBVIOUS
  <2>1. \A h \in Stored : h = q \/ Disjoint(h, q)
    BY DEF ReadInv, SpaceInv, NoOverlap, NoOverlapAmong, Uncommitted, Stored
  <2>2. \A f \in free : Disjoint(q, f)
    BY DEF ReadInv, SpaceInv, NoOverlap, NoOverlapAmong
  <2>3. \A f \in mfree : Disjoint(q, f) \/ x <= f.xid
    BY <1>3 DEF ReadInv, SpaceInv, Phases, Uncommitted
  <2>4. q \in Live \/ Covered(q, mfree)  BY DEF Live, ReadInv, Uncommitted
  <2>5. QED  BY <2>1, <2>2, <2>3, <2>4 DEF Protected
<1>11. \A s \in Readers : \A q \in svis'[s] : Intact(q)' /\ Protected(q, sxmin[s])'
  <2> SUFFICES ASSUME NEW s \in Readers, NEW q \in svis'[s]
               PROVE  Intact(q)' /\ Protected(q, sxmin[s])'  OBVIOUS
  <2>1. CASE s = r
    <3>1. q \in groups /\ Intact(q) /\ Protected(q, x)
      BY <1>4, <1>10, <2>1 DEF ReadInv, Stored
    <3>2. QED  BY <1>4, <1>8, <1>9, <2>1, <3>1
  <2>2. CASE s # r
    <3>1. Intact(q) /\ Protected(q, sxmin[s])  BY <1>4, <2>2 DEF ReadInv
    <3>2. QED  BY <1>4, <1>8, <1>9, <2>2, <3>1
  <2>3. QED  BY <2>1, <2>2
<1>12. \A q \in Stored' : Intact(q)'  BY <1>5, <1>8 DEF ReadInv
<1>13. QED  BY <1>6, <1>7, <1>11, <1>12 DEF ReadInv

\* Readers that open the table or finish, and deletes, change nothing that is
\* stored; a finished reader sees nothing.
LEMMA ReadReadersAndDeletes ==
    ASSUME ReadInv, SpaceInv',
           \/ \E g \in groups : DeleteAllRows(g)
           \/ \E r \in Readers : OpenTable(r) \/ EndRead(r)
           \/ UNCHANGED vars
    PROVE  ReadInv'
<1>1. /\ UNCHANGED <<groups, free, hw, eof, page, wnew, mpc, mxid, mfree, mnew, mgone>>
      /\ nextXid' \in {nextXid, nextXid + 1}
      /\ \A s \in Readers : \/ sxmin'[s] = sxmin[s] /\ svis'[s] = svis[s]
                            \/ sxmin'[s] = 0 /\ svis'[s] = {}
  <2>1. CASE \E g \in groups : DeleteAllRows(g)
    BY <2>1 DEF DeleteAllRows, wvars, svars, mvars
  <2>2. CASE \E r \in Readers : OpenTable(r)
    BY <2>2 DEF OpenTable, store, wvars, mvars
  <2>3. CASE \E r \in Readers : EndRead(r)
    BY <2>3 DEF EndRead, store, wvars, mvars, ReadInv, SpaceInv, TypeOK
  <2>4. CASE UNCHANGED vars
    BY <2>4 DEF vars, store, wvars, svars, mvars
  <2>5. QED  BY <2>1, <2>2, <2>3, <2>4
<1>2. InFlight' = InFlight /\ Stored' = Stored /\ Live' = Live
  BY <1>1 DEF InFlight, Stored, Live
<1>3. Sizes' /\ Uncommitted'  BY <1>1 DEF ReadInv, Sizes, Uncommitted
<1>4. Ages'
  <2>1. Ages /\ nextXid \in Nat /\ \A r \in Readers : sxmin[r] \in Nat
    BY ReadTypes DEF ReadInv
  <2>2. mpc' = mpc /\ mxid' = mxid /\ mxid \in Nat  BY <1>1, ReadTypes
  <2>3. \A r \in Readers : sxmin'[r] = 0 => svis'[r] = {}  BY <1>1, <2>1 DEF Ages
  <2>4. \A r \in Readers : sxmin'[r] <= nextXid'  BY <1>1, <2>1 DEF Ages
  <2>5. mpc # "idle" => mxid # 0 /\ \A r \in Readers : sxmin'[r] <= mxid
    BY <1>1, <2>1, <2>2 DEF Ages
  <2>6. QED  BY <2>2, <2>3, <2>4, <2>5 DEF Ages
<1>5. \A q : Intact(q) => Intact(q)'  BY <1>1 DEF Intact
<1>6. \A q, y : Protected(q, y) => Protected(q, y)'  BY <1>1, <1>2 DEF Protected
<1>7. \A s \in Readers : \A q \in svis'[s] : Intact(q)' /\ Protected(q, sxmin[s])'
  <2> SUFFICES ASSUME NEW s \in Readers, NEW q \in svis'[s]
               PROVE  Intact(q)' /\ Protected(q, sxmin[s])'  OBVIOUS
  <2>1. sxmin'[s] = sxmin[s] /\ q \in svis[s]  BY <1>1
  <2>2. Intact(q) /\ Protected(q, sxmin[s])  BY <2>1 DEF ReadInv
  <2>3. QED  BY <1>5, <1>6, <2>1, <2>2
<1>8. \A q \in Stored' : Intact(q)'  BY <1>2, <1>5 DEF ReadInv
<1>9. QED  BY <1>3, <1>4, <1>7, <1>8 DEF ReadInv

\* The truncation shrinks the file only when no freed range of the tail can be
\* seen, so no group a snapshot sees ends above the new end of file.
LEMMA ReadTruncate ==
    ASSUME ReadInv, SpaceInv', NEW e \in 0..MaxPage, Truncate(e)
    PROVE  ReadInv'
<1> DEFINE fs == Reconcile({f \in free : f.off < hw}, groups)
<1>1. /\ mpc = "idle" /\ IsLiveEnd(e) /\ \A w \in Writers : wxid[w] = 0
      /\ mxid' = nextXid /\ nextXid' = nextXid + 1 /\ mpc' # "idle"
      /\ \/ e < eof /\ TrailingFreeSpaceSafe(fs, e) /\ eof' = e
            /\ mfree' = {f \in fs : f.off < e}
         \/ eof' = eof /\ mfree' = fs
      /\ UNCHANGED <<groups, free, hw, page, wnew, sxmin, svis, mnew, mgone>>
  BY DEF Truncate, wvars, svars
<1>2. InFlight = {} /\ InFlight' = {} /\ mnew = {} /\ mgone = {} /\ Live' = groups
      /\ Stored = groups /\ Stored' = groups /\ mpc # "lowered"
  BY <1>1, InFlightMember, InFlightMemberNext
  DEF ReadInv, SpaceInv, Phases, Owners, Live, Stored
<1>3. fs = free
  <2>1. \A f \in free : f.off < hw
    <3>1. \A f \in free : End(f) <= hw  BY <1>2 DEF ReadInv, SpaceInv, Bounds
    <3>2. hw \in Nat /\ free \in SUBSET FreeRow  BY ReadTypes
    <3>3. QED  BY <3>1, <3>2, EndNat
  <2>2. \A f \in free, g \in groups : Disjoint(f, g)
    BY DisjointSym DEF ReadInv, SpaceInv, NoOverlap, NoOverlapAmong
  <2>3. QED  BY <2>1, <2>2 DEF Reconcile
<1> HIDE DEF fs
<1>4. e \in Nat /\ eof \in Nat /\ hw \in Nat  BY ReadTypes
<1>5. ASSUME NEW q \in Group, NEW f \in free, NEW p \in Footprint(q), p \in Footprint(f), e <= p
      PROVE  f.off >= e
  <2>1. f \in FreeRow /\ \A g \in groups : g \in Group /\ Disjoint(g, f)
    BY ReadTypes DEF ReadInv, SpaceInv, NoOverlap, NoOverlapAmong, Stored
  <2>2. p \in Nat /\ f.off <= p /\ p < End(f)
    BY <1>5, <2>1, EndNat DEF Footprint
  <2>3. CASE e = 0  BY <2>1, <2>3, EndNat
  <2>4. CASE e # 0
    <3>1. PICK g \in groups : End(g) = e  BY <1>1, <2>4 DEF IsLiveEnd
    <3>2. QED  BY <1>4, <1>5, <2>1, <2>2, <3>1, EndNat DEF Disjoint
  <2>5. QED  BY <2>3, <2>4
<1>6. ASSUME TrailingFreeSpaceSafe(free, e), NEW r \in Readers, NEW q \in svis[r],
             NEW f \in free, f.off >= e
      PROVE  Disjoint(q, f)
  <2>1. sxmin[r] # 0 /\ sxmin[r] \in Nat /\ f.xid \in Nat
    BY ReadTypes DEF ReadInv, Ages, FreeRow
  <2>2. f.xid < sxmin[r]
    <3>1. BehindHorizon(f.xid)  BY <1>6 DEF TrailingFreeSpaceSafe
    <3>2. QED  BY <2>1, <3>1 DEF BehindHorizon
  <2>3. Protected(q, sxmin[r])  BY DEF ReadInv
  <2>4. Disjoint(q, f) \/ sxmin[r] <= f.xid  BY <2>3 DEF Protected
  <2>5. QED  BY <2>1, <2>2, <2>4
<1>7. Sizes'
  <2>1. hw' = hw /\ (eof' = e \/ eof' = eof)  BY <1>1
  <2>2. e <= MaxPage /\ hw <= MaxPage /\ eof <= MaxPage  BY DEF ReadInv, Sizes
  <2>3. QED  BY <1>4, <2>1, <2>2, ReclaimConstants DEF Sizes
<1>8. Ages'
  <2>1. nextXid # 0 /\ nextXid \in Nat  BY DEF ReadInv, SpaceInv, TypeOK
  <2>2. Ages  BY DEF ReadInv
  <2>3. \A r \in Readers : sxmin[r] \in Nat  BY ReadTypes
  <2>4. /\ sxmin' = sxmin /\ svis' = svis
        /\ mxid' = nextXid /\ nextXid' = nextXid + 1
    BY <1>1
  <2>5. \A r \in Readers : sxmin[r] <= nextXid /\ sxmin[r] <= nextXid + 1
    BY <2>1, <2>2, <2>3 DEF Ages
  <2>6. QED  BY <2>1, <2>2, <2>4, <2>5 DEF Ages
<1>9. mfree' \subseteq free  BY <1>1, <1>3
<1>a. /\ groups' = groups /\ free' = free /\ page' = page /\ sxmin' = sxmin
      /\ svis' = svis /\ mpc' # "idle"
  BY <1>1
<1>10. Uncommitted'
  <2>1. \A g \in groups, f \in mfree' : Disjoint(g, f)
    BY <1>9 DEF ReadInv, SpaceInv, NoOverlap, NoOverlapAmong
  <2>2. QED  BY <1>1, <1>2, <2>1 DEF Uncommitted
<1>11. \A q \in groups : Intact(q)'
  <2>1. \A q \in groups : End(q) <= e /\ Intact(q)
    BY <1>1 DEF IsLiveEnd, ReadInv, Stored
  <2>2. e \in Nat /\ page' = page /\ (eof' = e \/ eof' = eof)  BY <1>1, <1>4
  <2>3. QED  BY <2>1, <2>2 DEF Intact
<1>12. ASSUME NEW r \in Readers, NEW q \in svis[r] PROVE Intact(q)' /\ Protected(q, sxmin[r])'
  <2>1. Intact(q) /\ Protected(q, sxmin[r]) /\ q \in Group  BY ReadTypes DEF ReadInv
  <2>2. CASE q \in groups
    <3>1. \A f \in free' \cup mfree' : Disjoint(q, f) \/ sxmin[r] <= f.xid
      BY <1>a, <1>9, <2>1 DEF Protected
    <3>2. \A h \in Stored' : h = q \/ Disjoint(h, q)  BY <1>2, <2>1 DEF Protected
    <3>3. Protected(q, sxmin[r])'  BY <1>a, <1>2, <2>2, <3>1, <3>2 DEF Protected
    <3>4. QED  BY <1>11, <2>2, <3>3
  <2>3. CASE q \notin groups
    <3>1. Covered(q, free)  BY <2>1, <2>3 DEF Protected
    <3>a. \A h \in Stored' : h = q \/ Disjoint(h, q)  BY <1>2, <2>1 DEF Protected
    <3>b. \A f \in free' \cup mfree' : Disjoint(q, f) \/ sxmin[r] <= f.xid
      BY <1>a, <1>9, <2>1 DEF Protected
    <3>2. CASE eof' = eof /\ mfree' = fs
      <4>1. Intact(q)'  BY <1>a, <2>1, <3>2 DEF Intact
      <4>2. Covered(q, mfree)' /\ Covered(q, free)'
        BY <1>a, <1>3, <3>1, <3>2 DEF Covered
      <4>3. Protected(q, sxmin[r])'  BY <1>a, <3>a, <3>b, <4>2 DEF Protected
      <4>4. QED  BY <4>1, <4>3
    <3>3. CASE TrailingFreeSpaceSafe(fs, e) /\ eof' = e /\ mfree' = {f \in fs : f.off < e}
      <4>1. \A f \in free : f.off >= e => Disjoint(q, f)  BY <1>3, <1>6, <3>3
      <4>2. \A p \in Footprint(q) : \E f \in free : p \in Footprint(f) /\ f.off < e
        <5> SUFFICES ASSUME NEW p \in Footprint(q)
                     PROVE  \E f \in free : p \in Footprint(f) /\ f.off < e  OBVIOUS
        <5>1. PICK f \in free : p \in Footprint(f)  BY <3>1 DEF Covered
        <5>2. f \in FreeRow  BY ReadTypes
        <5>3. ~Disjoint(q, f)  BY <2>1, <5>1, <5>2, EndNat DEF Disjoint, Footprint
        <5>4. f.off < e  BY <1>4, <4>1, <5>2, <5>3, EndNat
        <5>5. QED  BY <5>1, <5>4
      <4>3. Covered(q, mfree')  BY <1>3, <3>3, <4>2 DEF Covered
      <4>4. \A p \in Footprint(q) : p < e
        <5> SUFFICES ASSUME NEW p \in Footprint(q), ~(p < e) PROVE FALSE  OBVIOUS
        <5>1. p \in Nat /\ e <= p  BY <1>4, <2>1, EndNat DEF Footprint
        <5>2. PICK f \in free : p \in Footprint(f) /\ f.off < e  BY <4>2
        <5>3. f.off >= e  BY <1>5, <2>1, <5>1, <5>2
        <5>4. f.off \in Nat  BY <5>2, ReadTypes, EndNat
        <5>5. QED  BY <1>4, <5>2, <5>3, <5>4
      <4>5. End(q) <= e
        <5>1. End(q) - 1 \in Footprint(q)  BY <2>1, EndNat DEF Footprint
        <5>2. QED  BY <1>4, <2>1, <4>4, <5>1, EndNat
      <4>6. Intact(q)'  BY <1>a, <2>1, <3>3, <4>5 DEF Intact
      <4>7. Covered(q, mfree)' /\ Covered(q, free)'  BY <1>a, <3>1, <4>3 DEF Covered
      <4>8. Protected(q, sxmin[r])'  BY <1>a, <3>a, <3>b, <4>7 DEF Protected
      <4>9. QED  BY <4>6, <4>8
    <3>4. QED  BY <1>1, <3>2, <3>3
  <2>4. QED  BY <2>2, <2>3
<1>13. QED  BY <1>1, <1>2, <1>7, <1>8, <1>10, <1>11, <1>12 DEF ReadInv

\* Lowering the highwater touches neither bytes nor catalog.
LEMMA ReadTruncateLower ==
    ASSUME ReadInv, SpaceInv', TruncateLower
    PROVE  ReadInv'
<1>1. /\ mpc = "shrunk" /\ mpc' = "lowered" /\ hw' = mend
      /\ UNCHANGED <<groups, free, eof, page, nextXid, wnew, sxmin, svis,
                     mxid, mfree, mnew, mgone>>
  BY DEF TruncateLower, wvars, svars
<1>2. InFlight' = InFlight /\ Stored' = Stored /\ Live' = Live
  BY <1>1 DEF InFlight, Stored, Live
<1>3. Sizes'
  <2>1. mend <= hw /\ mend \in Nat  BY <1>1 DEF ReadInv, SpaceInv, Phases, TypeOK
  <2>2. QED  BY <1>1, <2>1, ReadTypes, ReclaimConstants DEF ReadInv, Sizes
<1>4. Ages' /\ Uncommitted'  BY <1>1 DEF ReadInv, Ages, Uncommitted
<1>5. \A q : Intact(q) => Intact(q)'  BY <1>1 DEF Intact
<1>6. \A q, y : Protected(q, y) => Protected(q, y)'  BY <1>1, <1>2 DEF Protected
<1>7. \A s \in Readers : \A q \in svis'[s] : Intact(q)' /\ Protected(q, sxmin[s])'
  BY <1>1, <1>5, <1>6 DEF ReadInv
<1>8. \A q \in Stored' : Intact(q)'  BY <1>2, <1>5 DEF ReadInv
<1>9. QED  BY <1>3, <1>4, <1>7, <1>8 DEF ReadInv

\* The truncation's commit installs a free list that covers what is retired.
LEMMA ReadTruncateCommit ==
    ASSUME ReadInv, SpaceInv', TruncateCommit
    PROVE  ReadInv'
<1>1. /\ mpc \in TruncPhases /\ mpc # "idle" /\ mpc' = "idle" /\ free' = mfree
      /\ mfree' = {} /\ mnew' = {} /\ mgone' = {}
      /\ UNCHANGED <<groups, hw, eof, page, nextXid, wnew, sxmin, svis>>
  BY DEF TruncateCommit, EndMaint, TruncPhases, wvars, svars
<1>2. Live = groups /\ InFlight' = InFlight /\ Stored' \subseteq Stored
  BY <1>1 DEF ReadInv, SpaceInv, Phases, Live, InFlight, Stored
<1>3. Sizes' /\ Ages' /\ Uncommitted'
  BY <1>1 DEF ReadInv, Sizes, Ages, Uncommitted
<1>4. \A q : Intact(q) => Intact(q)'  BY <1>1 DEF Intact
<1>5. \A q, y : Protected(q, y) => Protected(q, y)'  BY <1>1, <1>2 DEF Protected
<1>6. \A s \in Readers : \A q \in svis'[s] : Intact(q)' /\ Protected(q, sxmin[s])'
  BY <1>1, <1>4, <1>5 DEF ReadInv
<1>7. \A q \in Stored' : Intact(q)'  BY <1>2, <1>4 DEF ReadInv
<1>8. QED  BY <1>3, <1>6, <1>7 DEF ReadInv

\* A crash ends every snapshot and leaves every committed byte.
LEMMA ReadCrash ==
    ASSUME ReadInv, SpaceInv', Crash
    PROVE  ReadInv'
<1>1. /\ mpc' = "idle" /\ mfree' = {} /\ mnew' = {} /\ mgone' = {}
      /\ wnew' = [w \in Writers |-> {}]
      /\ sxmin' = [r \in Readers |-> 0] /\ svis' = [r \in Readers |-> {}]
      /\ UNCHANGED <<groups, free, hw, eof, page, nextXid>>
  BY DEF Crash, CrashEffect, EndMaint, store
<1>2. InFlight' = {} /\ Stored' \subseteq Stored
  BY <1>1, InFlightMemberNext DEF Stored
<1>3. Sizes' /\ Ages' /\ Uncommitted'
  <2>1. Sizes'  BY <1>1 DEF ReadInv, Sizes
  <2>2. nextXid' \in Nat  BY <1>1, ReadTypes
  <2>3. Ages'  BY <1>1, <2>2 DEF Ages
  <2>4. Uncommitted'  BY <1>1 DEF Uncommitted
  <2>5. QED  BY <2>1, <2>3, <2>4
<1>4. ASSUME NEW q, Intact(q) PROVE Intact(q)'
  <2>1. eof' = eof /\ page' = page  BY <1>1
  <2>2. QED  BY <1>4, <2>1 DEF Intact
<1>5. \A q \in Stored' : Intact(q)'  BY <1>2, <1>4 DEF ReadInv
<1>6. \A s \in Readers : svis'[s] = {}  BY <1>1
<1>7. QED  BY <1>3, <1>5, <1>6 DEF ReadInv

\* A new table has no group, so every read is trivially of what was written.
LEMMA ReadInit == Init => ReadInv
<1> SUFFICES ASSUME Init PROVE ReadInv  OBVIOUS
<1>1. SpaceInv  BY SpaceInit
<1>2. Stored = {}  BY InFlightMember DEF Init, Stored
<1>3. Sizes /\ Ages /\ Uncommitted
  BY ReclaimConstants DEF Init, Sizes, Ages, Uncommitted
<1>4. \A r \in Readers : svis[r] = {}  BY DEF Init
<1>5. QED  BY <1>1, <1>2, <1>3, <1>4 DEF ReadInv

\* Every step of the system keeps the read invariant.
LEMMA ReadNext == ReadInv /\ [Next]_vars => ReadInv'
<1> SUFFICES ASSUME ReadInv, [Next]_vars PROVE ReadInv'  OBVIOUS
<1>0. SpaceInv'  BY SpaceNext DEF ReadInv
<1>1. CASE UNCHANGED vars  BY <1>0, <1>1, ReadReadersAndDeletes
<1>2. CASE Next
  <2>1. CASE \E w \in Writers, n \in 1..MaxLen : InsertFlush(w, n)
    BY <1>0, <2>1, ReadInsertFlush
  <2>2. CASE \E w \in Writers : WriterCommit(w) \/ WriterAbort(w)
    BY <1>0, <2>2, ReadWriterEnd
  <2>3. CASE \/ \E g \in groups : DeleteAllRows(g)
             \/ \E r \in Readers : OpenTable(r) \/ EndRead(r)
    BY <1>0, <2>3, ReadReadersAndDeletes
  <2>4. CASE \E r \in Readers : TakeSnapshot(r)  BY <1>0, <2>4, ReadTakeSnapshot
  <2>5. CASE \E v \in Verbs : MaintBegin(v)  BY <1>0, <2>5, ReadMaintBegin
  <2>6. CASE \E n \in 1..MaxLen, f \in mfree, c \in Coalesce : MaintReuse(f, n, c)
    BY <1>0, <2>6, ReadMaintReuse
  <2>7. CASE \E n \in 1..MaxLen : MaintAppend(n)  BY <1>0, <2>7, ReadMaintAppend
  <2>8. CASE \E g \in Live, c \in Coalesce : Retire(g, c)  BY <1>0, <2>8, ReadRetire
  <2>9. CASE MaintCommit \/ MaintAbort  BY <1>0, <2>9, ReadMaintEnd
  <2>10. CASE \E e \in 0..MaxPage : Truncate(e)  BY <1>0, <2>10, ReadTruncate
  <2>11. CASE TruncateLower  BY <1>0, <2>11, ReadTruncateLower
  <2>12. CASE TruncateCommit  BY <1>0, <2>12, ReadTruncateCommit
  <2>13. CASE Crash  BY <1>0, <2>13, ReadCrash
  <2>14. QED
    BY <1>2, <2>1, <2>2, <2>3, <2>4, <2>5, <2>6, <2>7, <2>8, <2>9, <2>10, <2>11, <2>12, <2>13
    DEF Next
<1>3. QED  BY <1>1, <1>2

\* No snapshot ever loses a byte of a group it sees: freed space is reused, and
\* the file truncated, only when the horizon has passed the freeing transaction.
THEOREM SnapshotReadsIntactAlways == Spec => []SnapshotReadsIntact
<1>1. ReadInv => SnapshotReadsIntact  BY DEF ReadInv, SnapshotReadsIntact
<1>2. QED  BY <1>1, ReadInit, ReadNext, PTL DEF Spec

\* No committed group ever loses a byte.
THEOREM CommittedReadsIntactAlways == Spec => []CommittedReadsIntact
<1>1. ReadInv => CommittedReadsIntact  BY DEF ReadInv, CommittedReadsIntact, Stored
<1>2. QED  BY <1>1, ReadInit, ReadNext, PTL DEF Spec

\* The step that sets the highwater to the live end computed before the shrink
\* never raises it, and the highwater never moves below the end of a group that
\* is committed or being written: the exclusive lock keeps the carried value
\* current, which Phases states.
THEOREM TruncateLowersHighwaterAlways == Spec => TruncateLowersHighwater
<1> DEFINE A == /\ mpc = "shrunk" /\ mpc' = "lowered" => hw' <= hw
                /\ hw' < hw => \A g \in groups' \cup InFlight' : End(g) <= hw'
<1>1. SpaceInv /\ SpaceInv' /\ [Next]_vars => [A]_vars
  <2> SUFFICES ASSUME SpaceInv, SpaceInv', Next PROVE A  OBVIOUS
  <2>1. \A g \in groups' \cup InFlight' : End(g) <= hw'  BY DEF SpaceInv, Bounds
  <2>2. ASSUME mpc = "shrunk", mpc' = "lowered" PROVE hw' <= hw
    <3>1. TruncateLower
      BY <2>2 DEF Next, InsertFlush, NotExclusive, TruncPhases, Verbs, WriterCommit,
         WriterAbort, DeleteAllRows, TakeSnapshot, OpenTable, EndRead, MaintBegin,
         MaintReuse, MaintAppend, Retire, MaintCommit, MaintAbort, EndMaint, Truncate,
         TruncateCommit, Crash, CrashEffect, mvars
    <3>2. QED  BY <2>2, <3>1 DEF TruncateLower, SpaceInv, Phases
  <2>3. QED  BY <2>1, <2>2
<1>2. QED  BY <1>1, SpaceInit, SpaceNext, PTL DEF Spec, TruncateLowersHighwater
=============================================================================
