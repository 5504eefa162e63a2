-------------------------- MODULE HubIngestProofs ---------------------------
(***************************************************************************)
(* Proofs about HubIngest, for every source, every set of keys and every   *)
(* bound.  The rows are followed through the operators of FaultMachine by  *)
(* invariants on rows: RowsInv (types and order), FaultsInv (identity, the *)
(* client's copy, notifications) and MsgInv (messages).  The transaction's *)
(* copy satisfies them as much as the committed rows do.                   *)
(***************************************************************************)
EXTENDS HubIngest, WellFoundedInduction, TLAPS

\* No fault was opened by a sequence number the hub has not yet handed out.
OpenedByPast(d) ==
  \A k \in Keys : d.faults[k].openedSeq <= HubSeqBase + d.hubSeq

RowsInv(d) ==
  /\ d \in Rows
  /\ PendingHonoured(d)
  /\ RoundsOrdered(d)
  /\ HubResolvesApply(d)
  /\ OpenedByPast(d)

\* An event applyEventTx can be called with: one of the source's, or one the hub
\* has just numbered, which is a resolve only for a fault that is open.
Admissible(d, ev) ==
  /\ ev \in EventType
  /\ ev.key = NoKey <=> ev.action = "none"
  /\ ev.seq <= HubSeqBase + d.hubSeq
  /\ ev.seq >= HubSeqBase /\ ev.action = "resolve" => Covers(d.faults[ev.key], ev)

\* A non-empty set of natural numbers has a least element.
LEMMA LeastNatural ==
  ASSUME NEW T, T \subseteq Nat, T # {}
  PROVE  \E x \in T : \A y \in T : x <= y
<1> DEFINE R == OpToRel(<, Nat)
<1>1. IsWellFoundedOn(R, Nat)
  BY NatLessThanWellFounded
<1>2. \A x, y \in Nat : y < x => <<y, x>> \in R
  BY DEF OpToRel
<1> HIDE DEF R
<1>3. \E x \in T : \A y \in T : ~(<<y, x>> \in R)
  BY <1>1, WFMin
<1>4. PICK x \in T : \A y \in T : ~(<<y, x>> \in R)
  BY <1>3
<1>5. ASSUME NEW y \in T PROVE x <= y
  <2>1. x \in Nat /\ y \in Nat
    OBVIOUS
  <2>2. ~(<<y, x>> \in R)
    BY <1>4
  <2>3. ~(y < x)
    BY <1>2, <2>1, <2>2, Zenon
  <2> QED BY <2>1, <2>3
<1> QED BY <1>5

\* findPendingResolve returns one of the rows that qualify.
LEMMA EarliestIn ==
  ASSUME NEW P, P # {}, \A p \in P : p.seq \in Nat
  PROVE  Earliest(P) \in P
<1> DEFINE T == {p.seq : p \in P}
<1>1. T \subseteq Nat /\ T # {}
  OBVIOUS
<1>2. PICK x \in T : \A y \in T : x <= y
  BY <1>1, LeastNatural
<1>3. PICK p \in P : p.seq = x
  BY <1>2
<1>4. \A q \in P : p.seq <= q.seq
  BY <1>2, <1>3
<1> QED BY <1>4 DEF Earliest

\* The four ways a row changes keep it a row.
LEMMA MergeRow ==
  ASSUME NEW f \in FaultRow, NEW ev \in EventType
  PROVE  /\ Merge(f, ev) \in FaultRow
         /\ Merge(f, ev).state = f.state
         /\ Merge(f, ev).openedSeq = f.openedSeq
         /\ Merge(f, ev).resolvedSeq = f.resolvedSeq
<1>1. /\ f.count + 1 \in Nat
      /\ (IF ev.sev > f.sev THEN ev.sev ELSE f.sev) \in Nat
      /\ (IF ev.occ > f.lastAt THEN ev.occ ELSE f.lastAt) \in Nat
  BY DEF FaultRow, EventType
<1>2. Merge(f, ev) \in FaultRow
  BY <1>1, Zenon DEF Merge, FaultRow
<1>3. /\ Merge(f, ev).state = f.state
      /\ Merge(f, ev).openedSeq = f.openedSeq
      /\ Merge(f, ev).resolvedSeq = f.resolvedSeq
  BY DEF Merge, FaultRow
<1> QED BY <1>2, <1>3

LEMMA ReopenRow ==
  ASSUME NEW f \in FaultRow, NEW ev \in EventType
  PROVE  /\ Reopen(f, ev) \in FaultRow
         /\ Reopen(f, ev).state = "open"
         /\ Reopen(f, ev).openedSeq = ev.seq
<1>1. f.inc + 1 \in Nat /\ 1 \in Nat /\ 0 \in Nat /\ ev.sev \in Nat /\ ev.seq \in Nat /\ ev.occ \in Nat
  BY DEF FaultRow, EventType
<1>2. Reopen(f, ev) \in FaultRow
  BY <1>1, Zenon DEF Reopen, FaultRow
<1>3. Reopen(f, ev).state = "open" /\ Reopen(f, ev).openedSeq = ev.seq
  BY DEF Reopen, FaultRow
<1> QED BY <1>2, <1>3

LEMMA CloseRow ==
  ASSUME NEW f \in FaultRow, NEW ev \in EventType
  PROVE  /\ Close(f, ev) \in FaultRow
         /\ Close(f, ev).state = "resolved"
         /\ Close(f, ev).openedSeq = f.openedSeq
         /\ Close(f, ev).resolvedSeq = ev.seq
<1>1. f.count + 1 \in Nat /\ ev.seq \in Nat /\ ev.occ \in Nat
  BY DEF FaultRow, EventType
<1>2. Close(f, ev) \in FaultRow
  BY <1>1, Zenon DEF Close, FaultRow
<1>3. /\ Close(f, ev).state = "resolved"
      /\ Close(f, ev).openedSeq = f.openedSeq
      /\ Close(f, ev).resolvedSeq = ev.seq
  BY DEF Close, FaultRow
<1> QED BY <1>2, <1>3

LEMMA NewFaultRow ==
  ASSUME NEW d, d.fids \in Nat, NEW ev \in EventType
  PROVE  /\ NewFault(d, ev) \in FaultRow
         /\ NewFault(d, ev).state = "open"
         /\ NewFault(d, ev).openedSeq = ev.seq
BY DEF NewFault, FaultRow, EventType

LEMMA BornResolvedRow ==
  ASSUME NEW d, d.fids \in Nat, NEW ev \in EventType,
         Earliest(PendingAfter(d, ev.key, ev.seq)).seq \in Nat,
         Earliest(PendingAfter(d, ev.key, ev.seq)).occ \in Nat
  PROVE  LET f == BornResolved(d, ev) IN
         /\ f \in FaultRow
         /\ f.state = "resolved"
         /\ f.openedSeq = ev.seq
         /\ f.resolvedSeq = Earliest(PendingAfter(d, ev.key, ev.seq)).seq
<1> DEFINE p == Earliest(PendingAfter(d, ev.key, ev.seq))
           n == NewFault(d, ev)
<1>1. n \in FaultRow /\ n.openedSeq = ev.seq
  BY NewFaultRow
<1> HIDE DEF p, n
<1>2. BornResolved(d, ev) = [n EXCEPT !.state = "resolved", !.resolvedSeq = p.seq,
                                      !.resolvedAt = p.occ]
  BY DEF BornResolved, n, p
<1>3. p.seq \in Nat /\ p.occ \in Nat
  BY DEF p
<1>4. BornResolved(d, ev) \in FaultRow
  BY <1>1, <1>2, <1>3, Zenon DEF FaultRow
<1>5. /\ BornResolved(d, ev).state = "resolved"
      /\ BornResolved(d, ev).openedSeq = ev.seq
      /\ BornResolved(d, ev).resolvedSeq = p.seq
  BY <1>1, <1>2 DEF FaultRow
<1> QED BY <1>4, <1>5 DEF p

\* What an open or update makes of the row of its key.
LEMMA OnOpenFacts ==
  ASSUME NEW d, RowsInv(d), NEW ev, Admissible(d, ev), ev.action \in {"open", "update"}
  PROVE  LET f == OnOpen(d, ev) IN
         /\ f \in FaultRow
         /\ f.state = "open" =>
              \A p \in d.pend : p.key = ev.key => p.seq <= f.openedSeq
         /\ f.state = "resolved" => f.openedSeq < f.resolvedSeq
         /\ f.openedSeq <= HubSeqBase + d.hubSeq
<1> DEFINE f == d.faults[ev.key]
           P == PendingAfter(d, ev.key, ev.seq)
<1>1. ev \in EventType /\ ev.key \in Keys /\ ev.seq \in Nat
  BY DEF Admissible, EventType
<1>2. f \in FaultRow /\ d.fids \in Nat /\ d.hubSeq \in Nat /\ HubSeqBase \in Nat
  BY <1>1, ConstantsOK DEF RowsInv, Rows
<1>3. \A p \in d.pend : p.seq \in Nat /\ p.occ \in Nat
  BY DEF RowsInv, Rows
<1>4. P = {} => \A p \in d.pend : p.key = ev.key => p.seq <= ev.seq
  BY <1>1, <1>3 DEF PendingAfter
<1>5. P # {} => Earliest(P) \in d.pend /\ Earliest(P).seq > ev.seq
  <2>1. \A p \in P : p.seq \in Nat
    BY <1>3 DEF PendingAfter
  <2>2. P # {} => Earliest(P) \in P
    BY <2>1, EarliestIn
  <2> QED BY <2>2 DEF PendingAfter
<1>6. /\ f.state = "open" => \A p \in d.pend : p.key = ev.key => p.seq <= f.openedSeq
      /\ f.state = "resolved" => f.openedSeq < f.resolvedSeq
      /\ f.openedSeq <= HubSeqBase + d.hubSeq
      /\ ev.seq <= HubSeqBase + d.hubSeq
  BY <1>1 DEF RowsInv, PendingHonoured, RoundsOrdered, OpenedByPast, FaultOpen, Admissible
<1>7. CASE f.state = "none" /\ P # {}
  <2>1. OnOpen(d, ev) = BornResolved(d, ev)
    BY <1>7 DEF OnOpen
  <2>2. Earliest(P).seq \in Nat /\ Earliest(P).occ \in Nat
    BY <1>3, <1>5, <1>7
  <2> QED BY <1>1, <1>2, <1>5, <1>6, <1>7, <2>1, <2>2, BornResolvedRow
<1>8. CASE f.state = "none" /\ P = {}
  <2>1. OnOpen(d, ev) = NewFault(d, ev)
    BY <1>8 DEF OnOpen
  <2> QED BY <1>1, <1>2, <1>4, <1>6, <1>8, <2>1, NewFaultRow
<1>9. CASE f.state = "open" \/ (f.state = "resolved" /\ P # {})
  <2>1. OnOpen(d, ev) = Merge(f, ev)
    BY <1>9 DEF OnOpen
  <2> QED BY <1>1, <1>2, <1>6, <2>1, MergeRow
<1>10. CASE f.state = "resolved" /\ P = {}
  <2>1. OnOpen(d, ev) = Reopen(f, ev)
    BY <1>10 DEF OnOpen
  <2> QED BY <1>1, <1>2, <1>4, <1>6, <1>10, <2>1, ReopenRow
<1> QED BY <1>2, <1>7, <1>8, <1>9, <1>10 DEF FaultRow

\* The row of the event's key after the switch of applyEventTx.
LEMMA FaultAfterFacts ==
  ASSUME NEW d, RowsInv(d), NEW ev, Admissible(d, ev)
  PROVE  LET f == FaultAfter(d, ev) IN
         /\ f \in FaultRow
         /\ Applies(d, ev) =>
              /\ ev.key \in Keys
              /\ f.state = "open" =>
                   \A p \in d.pend : p.key = ev.key => p.seq <= f.openedSeq
              /\ f.state = "resolved" => f.openedSeq < f.resolvedSeq
              /\ f.openedSeq <= HubSeqBase + d.hubSeq
<1>1. ev \in EventType /\ ev.action \in {"open", "update", "resolve", "none"}
  BY DEF Admissible, EventType
<1>2. CASE ev.action = "none"
  <2>1. FaultAfter(d, ev) = NoFault /\ ~Applies(d, ev)
    BY <1>2 DEF FaultAfter, Applies
  <2>2. NoFault \in FaultRow
    BY DEF NoFault, FaultRow
  <2> QED BY <2>1, <2>2
<1>3. CASE ev.action \in {"open", "update"}
  <2>1. FaultAfter(d, ev) = OnOpen(d, ev) /\ ev.key \in Keys
    BY <1>1, <1>3 DEF FaultAfter, Admissible, EventType
  <2> QED BY <1>3, <2>1, OnOpenFacts
<1>4. CASE ev.action = "resolve"
  <2> DEFINE f == d.faults[ev.key]
  <2>1. ev.key \in Keys /\ ev.seq \in Nat
    BY <1>1, <1>4 DEF Admissible, EventType
  <2>2. f \in FaultRow /\ f.openedSeq <= HubSeqBase + d.hubSeq
    BY <2>1 DEF RowsInv, Rows, OpenedByPast
  <2>3. CASE Covers(f, ev)
    <3>1. FaultAfter(d, ev) = Close(f, ev)
      BY <1>4, <2>3 DEF FaultAfter
    <3>2. f.openedSeq < ev.seq
      BY <2>3 DEF Covers
    <3> QED BY <1>1, <2>1, <2>2, <3>1, <3>2, CloseRow
  <2>4. CASE ~Covers(f, ev)
    <3>1. FaultAfter(d, ev) = f /\ ~Applies(d, ev)
      BY <1>4, <2>4 DEF FaultAfter, Applies
    <3> QED BY <2>2, <3>1
  <2> QED BY <2>3, <2>4
<1> QED BY <1>1, <1>2, <1>3, <1>4

\* applyEventTx keeps the types of the rows.
LEMMA ApplyTyped ==
  ASSUME NEW d, RowsInv(d), NEW ev, Admissible(d, ev), NEW ooo \in BOOLEAN, NEW t \in Nat
  PROVE  ApplyEvent(d, ev, ooo, t) \in Rows
<1> DEFINE f == FaultAfter(d, ev)
           m == NewMessage(d, ev, f, ooo, t)
           r == ApplyEvent(d, ev, ooo, t)
<1>1. /\ ev.id \in Nat /\ ev.seq \in Nat /\ ev.occ \in Nat
      /\ ev.key \in Keys \cup {NoKey} /\ ev.action \in {"open", "update", "resolve", "none"}
      /\ ev.action # "none" => ev.key \in Keys
  BY DEF Admissible, EventType
<1>2. f \in FaultRow /\ (Applies(d, ev) => ev.key \in Keys)
  BY FaultAfterFacts
<1>3. d \in Rows
  BY DEF RowsInv
<1> HIDE DEF f
<1>4. m \in MessageRow
  BY <1>1, <1>2 DEF NewMessage, MessageRow, FaultRow
<1>5. NotifyKind(d, ev) \in {"new_message", "incident_open", "incident_update", "incident_resolved"}
  BY DEF NotifyKind
<1> HIDE DEF m
<1>6. r.events \in SUBSET [id : Nat, recv : Nat]
  BY <1>1, <1>3 DEF ApplyEvent, Rows
<1>7. r.faults \in [Keys -> FaultRow]
  BY <1>2, <1>3 DEF ApplyEvent, Rows, f
<1>8. r.pend \in SUBSET [key : Keys, seq : Nat, occ : Nat]
  BY <1>1, <1>3 DEF ApplyEvent, Rows, PendAfter
<1>9. r.msgs \in SUBSET MessageRow
  <2>1. \A n \in MessageRow : [n EXCEPT !.fid = f.fid, !.inc = f.inc] \in MessageRow
    <3>1. f.fid \in Nat /\ f.inc \in Nat
      BY <1>2 DEF FaultRow
    <3> QED BY <3>1, Zenon DEF MessageRow
  <2>2. d.msgs \subseteq MessageRow
    BY <1>3 DEF Rows
  <2>3. Backfilled(d, ev, f) \subseteq MessageRow
    BY <2>1, <2>2 DEF Backfilled
  <2>4. r.msgs = Backfilled(d, ev, f) \cup {m}
    BY DEF ApplyEvent, f, m
  <2> QED BY <1>4, <2>3, <2>4
<1>10. r.lastSeq \in Nat /\ r.hubSeq \in Nat /\ r.fids \in Nat /\ r.seen \in Nat
  BY <1>2, <1>3 DEF ApplyEvent, Rows, FaultRow, f
<1>11. r.cFaults \in SUBSET FaultRow
  <2>1. r.cFaults = IF Applies(d, ev) THEN FaultChange(d.cFaults, f) ELSE d.cFaults
    BY DEF ApplyEvent, f
  <2>2. d.cFaults \subseteq FaultRow
    BY <1>3 DEF Rows
  <2> QED BY <1>2, <2>1, <2>2 DEF FaultChange
<1>12. r.cMsgs \in SUBSET MessageRow
  <2>1. r.cMsgs = MessageChange(d.cMsgs, m)
    BY DEF ApplyEvent, f, m
  <2>2. d.cMsgs \subseteq MessageRow
    BY <1>3 DEF Rows
  <2> QED BY <1>4, <2>1, <2>2 DEF MessageChange
<1>13. r.notes \in SUBSET [kind : {"new_message", "incident_open", "incident_update",
                                   "incident_resolved"},
                           fid : Nat, inc : Nat, muted : BOOLEAN, id : Nat]
  <2>1. r.notes = d.notes \cup {[kind |-> NotifyKind(d, ev), fid |-> f.fid, inc |-> m.inc,
                                 muted |-> f.muted, id |-> ev.id]}
    BY DEF ApplyEvent, f, m
  <2>2. f.fid \in Nat /\ f.muted \in BOOLEAN /\ m.inc \in Nat
    BY <1>2, <1>4 DEF FaultRow, MessageRow
  <2> QED BY <1>1, <1>3, <1>5, <2>1, <2>2 DEF Rows
<1>14. r.hApplied \in [SourceIds -> Nat]
  BY <1>3 DEF ApplyEvent, Rows
<1>15. r.hRes \in SUBSET [key : Keys, seq : Nat]
  BY <1>1, <1>3 DEF ApplyEvent, Rows
<1>16. r = [events |-> r.events, faults |-> r.faults, pend |-> r.pend, msgs |-> r.msgs,
            lastSeq |-> r.lastSeq, hubSeq |-> r.hubSeq, fids |-> r.fids, seen |-> r.seen,
            cFaults |-> r.cFaults, cMsgs |-> r.cMsgs, notes |-> r.notes,
            hApplied |-> r.hApplied, hRes |-> r.hRes]
  BY DEF ApplyEvent
<1> HIDE DEF r
<1>17. [events |-> r.events, faults |-> r.faults, pend |-> r.pend, msgs |-> r.msgs,
        lastSeq |-> r.lastSeq, hubSeq |-> r.hubSeq, fids |-> r.fids, seen |-> r.seen,
        cFaults |-> r.cFaults, cMsgs |-> r.cMsgs, notes |-> r.notes,
        hApplied |-> r.hApplied, hRes |-> r.hRes] \in Rows
  BY <1>6, <1>7, <1>8, <1>9, <1>10, <1>11, <1>12, <1>13, <1>14, <1>15, Zenon DEF Rows
<1> QED BY <1>16, <1>17, Zenon DEF r

\* applyEventTx keeps the invariant of the rows.
LEMMA ApplyInv ==
  ASSUME NEW d, RowsInv(d), NEW ev, Admissible(d, ev), NEW ooo \in BOOLEAN, NEW t \in Nat
  PROVE  RowsInv(ApplyEvent(d, ev, ooo, t))
<1> DEFINE f == FaultAfter(d, ev)
           r == ApplyEvent(d, ev, ooo, t)
<1>1. r \in Rows /\ d \in Rows
  BY ApplyTyped DEF RowsInv
<1>2. /\ r.faults = IF Applies(d, ev) THEN [d.faults EXCEPT ![ev.key] = f] ELSE d.faults
      /\ r.pend = PendAfter(d, ev)
      /\ r.hubSeq = d.hubSeq
  BY DEF ApplyEvent
<1>3. /\ f \in FaultRow
      /\ Applies(d, ev) =>
           /\ ev.key \in Keys
           /\ f.state = "open" => \A p \in d.pend : p.key = ev.key => p.seq <= f.openedSeq
           /\ f.state = "resolved" => f.openedSeq < f.resolvedSeq
           /\ f.openedSeq <= HubSeqBase + d.hubSeq
  BY FaultAfterFacts
<1> HIDE DEF r, f
<1>4. \A k \in Keys : r.faults[k] = IF Applies(d, ev) /\ k = ev.key THEN f ELSE d.faults[k]
  BY <1>1, <1>2 DEF Rows
<1>5. HubResolvesApply(r)
  <2>1. ev.action = "resolve" /\ ~Applies(d, ev) => ev.seq < HubSeqBase
    BY ConstantsOK DEF Admissible, EventType, Applies
  <2> QED BY <1>2, <2>1 DEF HubResolvesApply, PendAfter, RowsInv
<1>6. PendingHonoured(r)
  <2> SUFFICES ASSUME NEW k \in Keys, r.faults[k].state = "open",
                      NEW p \in r.pend, p.key = k
               PROVE  p.seq <= r.faults[k].openedSeq
    BY DEF PendingHonoured, FaultOpen
  <2>1. CASE Applies(d, ev)
    <3>1. p \in d.pend
      BY <1>2, <2>1 DEF PendAfter
    <3> QED BY <1>3, <1>4, <2>1, <3>1 DEF RowsInv, PendingHonoured, FaultOpen
  <2>2. CASE ~Applies(d, ev)
    <3>1. r.faults[k] = d.faults[k]
      BY <1>4, <2>2
    <3>2. CASE p \in d.pend
      BY <3>1, <3>2 DEF RowsInv, PendingHonoured, FaultOpen
    <3>3. CASE p \notin d.pend
      <4>1. ev.action = "resolve" /\ p = [key |-> ev.key, seq |-> ev.seq, occ |-> ev.occ]
        BY <1>2, <3>3 DEF PendAfter
      <4>2. ~(d.faults[k].openedSeq < ev.seq)
        BY <2>2, <3>1, <4>1 DEF Applies, Covers
      <4>3. d.faults[k].openedSeq \in Nat /\ ev.seq \in Nat
        BY <1>1 DEF Rows, FaultRow, Admissible, EventType
      <4> QED BY <3>1, <4>1, <4>2, <4>3
    <3> QED BY <3>2, <3>3
  <2> QED BY <2>1, <2>2
<1>7. RoundsOrdered(r)
  BY <1>3, <1>4 DEF RowsInv, RoundsOrdered
<1>8. OpenedByPast(r)
  BY <1>2, <1>3, <1>4 DEF RowsInv, OpenedByPast
<1> QED BY <1>1, <1>5, <1>6, <1>7, <1>8 DEF RowsInv, r

-----------------------------------------------------------------------------
(* The transactions built from applyEventTx.                               *)

\* nextHubSeqTx, and the event emitHubEventTx makes.
Numbered(d) == [d EXCEPT !.hubSeq = d.hubSeq + 1]
HubEvent(d, k, a, v, o) ==
  [id |-> HubSeqBase + d.hubSeq + 1, seq |-> HubSeqBase + d.hubSeq + 1, key |-> k,
   action |-> a, sev |-> v, occ |-> o]

\* emitHubEventTx: a hub event is admissible when its resolve meets an open fault.
LEMMA EmitIsApply ==
  ASSUME NEW d, RowsInv(d), NEW k \in Keys, NEW a \in {"open", "update", "resolve"},
         NEW v \in Nat, NEW o \in Nat, NEW t \in Nat,
         a = "resolve" => FaultOpen(d, k)
  PROVE  /\ Numbered(d) \in Rows /\ RowsInv(Numbered(d))
         /\ Admissible(Numbered(d), HubEvent(d, k, a, v, o))
         /\ EmitHubEvent(d, k, a, v, o, t) = ApplyEvent(Numbered(d), HubEvent(d, k, a, v, o), FALSE, t)
<1> DEFINE e == Numbered(d)
           ev == HubEvent(d, k, a, v, o)
<1>1. d \in Rows /\ d.hubSeq \in Nat /\ HubSeqBase \in Nat /\ d.hubSeq + 1 \in Nat
  BY ConstantsOK DEF RowsInv, Rows
<1>2. e \in Rows
  BY <1>1, Zenon DEF Rows, Numbered
<1>3. e.faults = d.faults /\ e.pend = d.pend /\ e.hubSeq = d.hubSeq + 1
  BY <1>1 DEF Rows, Numbered
<1>4. EmitHubEvent(d, k, a, v, o, t) = ApplyEvent(e, ev, FALSE, t)
  BY DEF EmitHubEvent, Numbered, HubEvent
<1> HIDE DEF e
<1>6. \A j \in Keys : d.faults[j].openedSeq \in Nat
  BY <1>1 DEF Rows, FaultRow
<1>7. RowsInv(e)
  BY <1>1, <1>2, <1>3, <1>6 DEF RowsInv, PendingHonoured, RoundsOrdered, HubResolvesApply,
                                OpenedByPast, FaultOpen
<1>8. Admissible(e, ev)
  <2>1. ev \in EventType
    BY <1>1 DEF EventType, HubEvent
  <2>2. ev.key = NoKey <=> ev.action = "none"
    BY ConstantsOK DEF HubEvent
  <2>3. ev.seq <= HubSeqBase + e.hubSeq
    BY <1>1, <1>3 DEF HubEvent
  <2>4. ev.action = "resolve" => Covers(e.faults[ev.key], ev)
    BY <1>1, <1>3, <1>6 DEF RowsInv, OpenedByPast, FaultOpen, Covers, HubEvent
  <2> QED BY <2>1, <2>2, <2>3, <2>4 DEF Admissible
<1> QED BY <1>2, <1>4, <1>7, <1>8 DEF e

LEMMA EmitInv ==
  ASSUME NEW d, RowsInv(d), NEW k \in Keys, NEW a \in {"open", "update", "resolve"},
         NEW v \in Nat, NEW o \in Nat, NEW t \in Nat,
         a = "resolve" => FaultOpen(d, k)
  PROVE  RowsInv(EmitHubEvent(d, k, a, v, o, t))
<1> DEFINE e == Numbered(d)
           ev == HubEvent(d, k, a, v, o)
<1>1. RowsInv(e) /\ Admissible(e, ev)
  BY EmitIsApply, Zenon
<1>2. EmitHubEvent(d, k, a, v, o, t) = ApplyEvent(e, ev, FALSE, t)
  BY DEF EmitHubEvent, Numbered, HubEvent
<1>3. FALSE \in BOOLEAN
  OBVIOUS
<1> HIDE DEF e, ev
<1>4. RowsInv(ApplyEvent(e, ev, FALSE, t))
  BY <1>1, <1>3, ApplyInv, Zenon
<1> QED BY <1>2, <1>4, Zenon

LEMMA TouchInv ==
  ASSUME NEW d, RowsInv(d), NEW at \in Nat, NEW t \in Nat
  PROVE  RowsInv(TouchSeen(d, at, t))
<1> DEFINE e == [d EXCEPT !.seen = at]
<1>1. e \in Rows
  BY Zenon DEF RowsInv, Rows
<1>2. e.faults = d.faults /\ e.pend = d.pend /\ e.hubSeq = d.hubSeq
  BY DEF RowsInv, Rows
<1>3. TouchSeen(d, at, t) = IF FaultOpen(e, Heartbeat)
                            THEN EmitHubEvent(e, Heartbeat, "resolve", 0, at, t) ELSE e
  BY DEF TouchSeen
<1> HIDE DEF e
<1>4. RowsInv(e)
  BY <1>1, <1>2 DEF RowsInv, PendingHonoured, RoundsOrdered, HubResolvesApply,
                    OpenedByPast, FaultOpen
<1> QED BY <1>3, <1>4, EmitInv, ConstantsOK

\* A source event is admissible in every state of the rows.
LEMMA SourceAdmissible ==
  ASSUME NEW d, RowsInv(d), NEW ev \in SourceEvents
  PROVE  Admissible(d, ev)
<1>1. d.hubSeq \in Nat
  BY DEF RowsInv, Rows
<1> QED BY <1>1, ConstantsOK DEF Admissible, EventType

LEMMA IngestInv ==
  ASSUME NEW d, RowsInv(d), NEW ev \in SourceEvents, NEW t \in Nat
  PROVE  RowsInv(IngestEvent(d, ev, t))
<1> DEFINE e == ApplyEvent(d, ev, ev.seq <= d.lastSeq, t)
           x == IF ev.seq > e.lastSeq THEN ev.seq ELSE e.lastSeq
           r == IngestEvent(d, ev, t)
<1>1. RowsInv(e)
  <2>1. (ev.seq <= d.lastSeq) \in BOOLEAN
    OBVIOUS
  <2> QED BY <2>1, SourceAdmissible, ApplyInv, Zenon
<1>2. r = [e EXCEPT !.lastSeq = x]
  BY DEF IngestEvent
<1> HIDE DEF e, r
<1>3. e \in Rows /\ x \in Nat
  BY <1>1, ConstantsOK DEF RowsInv, Rows, EventType
<1> HIDE DEF x
<1>4. r \in Rows
  BY <1>2, <1>3, Zenon DEF Rows
<1>5. r.faults = e.faults /\ r.pend = e.pend /\ r.hubSeq = e.hubSeq
  BY <1>2, <1>3 DEF Rows
<1> QED BY <1>1, <1>4, <1>5 DEF RowsInv, PendingHonoured, RoundsOrdered,
                               HubResolvesApply, OpenedByPast, FaultOpen, r

\* updateFaultFlags changes no field the invariant speaks of.
LEMMA FlagsInv ==
  ASSUME NEW d, RowsInv(d), NEW k \in Keys, NEW f \in FaultRow,
         f.state = d.faults[k].state, f.openedSeq = d.faults[k].openedSeq,
         f.resolvedSeq = d.faults[k].resolvedSeq
  PROVE  RowsInv(SetFlags(d, k, f))
<1> DEFINE r == SetFlags(d, k, f)
           F == [d.faults EXCEPT ![k] = f]
           C == FaultChange(d.cFaults, f)
<1>1. d \in Rows
  BY DEF RowsInv
<1>2. F \in [Keys -> FaultRow] /\ C \in SUBSET FaultRow
  BY <1>1 DEF Rows, FaultChange
<1>3. r = [d EXCEPT !.faults = F, !.cFaults = C]
  BY DEF SetFlags
<1> HIDE DEF r, F, C
<1>4. r \in Rows
  BY <1>1, <1>2, <1>3, Zenon DEF Rows
<1>5. r.faults = F /\ r.pend = d.pend /\ r.hubSeq = d.hubSeq
  BY <1>1, <1>3 DEF Rows
<1>6. \A j \in Keys : F[j] = IF j = k THEN f ELSE d.faults[j]
  BY <1>1 DEF F, Rows
<1> QED BY <1>4, <1>5, <1>6 DEF RowsInv, PendingHonoured, RoundsOrdered,
                               HubResolvesApply, OpenedByPast, FaultOpen, r

LEMMA ReadInv ==
  ASSUME NEW d, RowsInv(d), NEW M \in SUBSET d.msgs, NEW b \in BOOLEAN
  PROVE  RowsInv(WithRead(d, M, b))
<1> DEFINE r == WithRead(d, M, b)
           G == {[m EXCEPT !.read = b] : m \in M}
           A == (d.msgs \ M) \cup G
           B == {c \in d.cMsgs : \A m \in M : m.id # c.id} \cup G
<1>1. d \in Rows
  BY DEF RowsInv
<1>2. d.msgs \subseteq MessageRow /\ d.cMsgs \subseteq MessageRow
  BY <1>1 DEF Rows
<1>3. \A m \in MessageRow : [m EXCEPT !.read = b] \in MessageRow
  BY Zenon DEF MessageRow
<1>4. A \in SUBSET MessageRow /\ B \in SUBSET MessageRow
  BY <1>2, <1>3
<1>5. r = [d EXCEPT !.msgs = A, !.cMsgs = B]
  BY DEF WithRead
<1> HIDE DEF r, A, B
<1>6. r \in Rows
  BY <1>1, <1>4, <1>5, Zenon DEF Rows
<1>7. r.faults = d.faults /\ r.pend = d.pend /\ r.hubSeq = d.hubSeq
  BY <1>1, <1>5 DEF Rows
<1> QED BY <1>6, <1>7 DEF RowsInv, PendingHonoured, RoundsOrdered,
                         HubResolvesApply, OpenedByPast, FaultOpen, r

\* runRetention only removes rows.
LEMMA RetentionInv ==
  ASSUME NEW d, RowsInv(d)
  PROVE  RowsInv(Retained(d))
<1> DEFINE X == {k \in Keys : d.faults[k].state = "resolved" /\ Old(d.faults[k].resolvedAt)}
           fids == {d.faults[k].fid : k \in X}
           gone(m) == m.fid \in fids \/ (m.fid = 0 /\ Old(m.recv))
           tombs == {m.id : m \in {n \in d.msgs : gone(n)}}
           E == {r \in d.events : ~Old(r.recv)}
           P == {p \in d.pend : ~Old(p.occ) /\ p.key \notin X}
           F == [k \in Keys |-> IF k \in X THEN NoFault ELSE d.faults[k]]
           M == {m \in d.msgs : ~gone(m)}
           C == {f \in d.cFaults : f.fid \notin fids}
           D == {m \in d.cMsgs : m.id \notin tombs}
           r == Retained(d)
<1>1. d \in Rows
  BY DEF RowsInv
<1>2. r = [d EXCEPT !.events = E, !.pend = P, !.faults = F, !.msgs = M,
                    !.cFaults = C, !.cMsgs = D]
  BY DEF Retained
<1>3. NoFault \in FaultRow /\ NoFault.state = "none" /\ NoFault.openedSeq = 0
  BY DEF NoFault, FaultRow
<1>4. F \in [Keys -> FaultRow]
  BY <1>1, <1>3 DEF Rows
<1>5. /\ E \in SUBSET [id : Nat, recv : Nat] /\ P \in SUBSET [key : Keys, seq : Nat, occ : Nat]
      /\ M \in SUBSET MessageRow /\ C \in SUBSET FaultRow /\ D \in SUBSET MessageRow
  BY <1>1 DEF Rows
<1>6. P \subseteq d.pend /\ \A k \in Keys : F[k] = NoFault \/ F[k] = d.faults[k]
  OBVIOUS
<1> HIDE DEF E, P, F, M, C, D, r
<1>7. r \in Rows
  BY <1>1, <1>2, <1>4, <1>5, Zenon DEF Rows
<1>8. r.faults = F /\ r.pend = P /\ r.hubSeq = d.hubSeq
  BY <1>1, <1>2 DEF Rows
<1>9. PendingHonoured(r) /\ RoundsOrdered(r) /\ HubResolvesApply(r)
  BY <1>3, <1>6, <1>8 DEF RowsInv, PendingHonoured, RoundsOrdered, HubResolvesApply, FaultOpen
<1>10. OpenedByPast(r)
  <2>1. 0 <= HubSeqBase + d.hubSeq
    BY <1>1, ConstantsOK DEF Rows
  <2> QED BY <1>3, <1>6, <1>8, <2>1 DEF RowsInv, OpenedByPast
<1> QED BY <1>7, <1>9, <1>10 DEF RowsInv, r

-----------------------------------------------------------------------------
(* The specification.                                                      *)

IInv ==
  /\ RowsInv(db) /\ RowsInv(work)
  /\ busy \in BOOLEAN
  /\ batch \subseteq SourceEvents
  /\ now \in Nat

LEMMA InitIInv == Init => IInv
<1> SUFFICES ASSUME Init PROVE IInv
  OBVIOUS
<1>1. EmptyRows \in Rows
  <2>1. NoFault \in FaultRow
    BY DEF NoFault, FaultRow
  <2>2. [k \in Keys |-> NoFault] \in [Keys -> FaultRow] /\ [i \in SourceIds |-> 0] \in [SourceIds -> Nat]
    BY <2>1
  <2>3. 0 \in Nat
    OBVIOUS
  <2> QED BY <2>2, <2>3, Zenon DEF EmptyRows, Rows
<1>2. RowsInv(EmptyRows)
  BY <1>1, ConstantsOK DEF RowsInv, EmptyRows, NoFault, PendingHonoured, RoundsOrdered,
     HubResolvesApply, OpenedByPast, FaultOpen
<1> QED BY <1>2 DEF Init, IInv

\* A one-step transaction keeps the invariant if the rows it commits satisfy it.
LEMMA TransactIInv ==
  ASSUME IInv, NEW d, RowsInv(d), Transact(d)
  PROVE  IInv'
BY DEF IInv, Transact

LEMMA NextIInv == IInv /\ [Next]_vars => IInv'
<1> SUFFICES ASSUME IInv, [Next]_vars PROVE IInv'
  OBVIOUS
<1> USE DEF IInv
<1>1. ASSUME NEW B \in Requests, NEW at \in 1..now, BeginIngest(B, at) PROVE IInv'
  <2>1. at \in Nat /\ RowsInv(work')
    BY <1>1, TouchInv DEF BeginIngest
  <2>2. batch' \subseteq SourceEvents
    BY <1>1 DEF BeginIngest, Requests
  <2> QED BY <1>1, <2>1, <2>2 DEF BeginIngest
<1>2. ASSUME NEW e \in SourceEvents, ApplyNext(e) PROVE IInv'
  <2>1. RowsInv(work')
    BY <1>2, IngestInv DEF ApplyNext
  <2> QED BY <1>2, <2>1 DEF ApplyNext
<1>3. CASE Commit
  BY <1>3 DEF Commit
<1>4. CASE Rollback
  BY <1>4 DEF Rollback
<1>5. CASE HeartbeatLost
  <2>1. RowsInv(EmitHubEvent(db, Heartbeat, "open", 2, now, now))
    BY EmitInv, ConstantsOK
  <2> QED BY <1>5, <2>1, TransactIInv DEF HeartbeatLost
<1>6. ASSUME NEW k \in Keys, FaultRead(k) \/ FaultMute(k) \/ FaultUnmute(k) PROVE IInv'
  <2> DEFINE f == db.faults[k]
  <2>1. f \in FaultRow
    BY DEF RowsInv, Rows
  <2>2. /\ [f EXCEPT !.read = TRUE] \in FaultRow
        /\ [f EXCEPT !.muted = TRUE] \in FaultRow
        /\ [f EXCEPT !.muted = FALSE] \in FaultRow
    BY <2>1, Zenon DEF FaultRow
  <2>3. \A g \in {[f EXCEPT !.read = TRUE], [f EXCEPT !.muted = TRUE], [f EXCEPT !.muted = FALSE]} :
          g.state = f.state /\ g.openedSeq = f.openedSeq /\ g.resolvedSeq = f.resolvedSeq
    BY <2>1 DEF FaultRow
  <2>4. \A g \in {[f EXCEPT !.read = TRUE], [f EXCEPT !.muted = TRUE], [f EXCEPT !.muted = FALSE]} :
          RowsInv(SetFlags(db, k, g))
    BY <2>2, <2>3, FlagsInv
  <2> QED BY <1>6, <2>4, TransactIInv DEF FaultRead, FaultMute, FaultUnmute
<1>7. ASSUME NEW m \in db.msgs, NEW r \in BOOLEAN, SetMessageRead(m, r) PROVE IInv'
  <2>1. RowsInv(WithRead(db, {m}, r))
    BY ReadInv
  <2> QED BY <1>7, <2>1, TransactIInv DEF SetMessageRead
<1>8. ASSUME NEW t \in 1..now, ReadAll(t) PROVE IInv'
  <2> DEFINE M == {m \in db.msgs : ~m.read /\ m.recv <= t}
  <2>1. RowsInv(WithRead(db, M, TRUE))
    BY ReadInv
  <2> QED BY <1>8, <2>1, TransactIInv DEF ReadAll
<1>9. CASE RunRetention
  BY <1>9, RetentionInv, TransactIInv DEF RunRetention
<1>10. CASE Tick
  BY <1>10 DEF Tick
<1>11. CASE UNCHANGED vars
  BY <1>11 DEF vars
<1> QED BY <1>1, <1>2, <1>3, <1>4, <1>5, <1>6, <1>7, <1>8, <1>9, <1>10, <1>11
    DEF Next, Ingest, Client

\* Every reachable state is well typed.
THEOREM TypeCorrect == Spec => []TypeOK
<1>1. IInv => TypeOK
  BY DEF IInv, TypeOK, RowsInv
<1> QED BY <1>1, InitIInv, NextIInv, PTL DEF Spec

\* Whatever the order of delivery, an open fault never coexists with a pending
\* resolve beyond its opening.
THEOREM PendingResolveHonoured == Spec => []NoOpenUnderPending
<1>1. IInv => NoOpenUnderPending
  BY DEF IInv, RowsInv, NoOpenUnderPending
<1> QED BY <1>1, InitIInv, NextIInv, PTL DEF Spec

\* The hub's own resolves always find the fault they close.
THEOREM HubResolvesInOrder == Spec => []HubEventsInOrder
<1>1. IInv => HubEventsInOrder
  BY DEF IInv, RowsInv, HubEventsInOrder
<1> QED BY <1>1, InitIInv, NextIInv, PTL DEF Spec

\* A resolved fault shows a round that was opened before it was resolved.
THEOREM RoundsInOrder == Spec => []RoundOrder
<1>1. IInv => RoundOrder
  BY DEF IInv, RowsInv, RoundOrder
<1> QED BY <1>1, InitIInv, NextIInv, PTL DEF Spec

-----------------------------------------------------------------------------
(* Deduplication.  An applied event either still has its row in table      *)
(* events or has left the backfill window for good, provided rows are kept *)
(* at least as long as the window (both are 90 days by default).           *)

Remembered(d) ==
  \A e \in SourceEvents :
    /\ d.hApplied[e.id] <= 1
    /\ d.hApplied[e.id] = 0 \/ Known(d, e) \/ now > e.occ + Window

\* An event is received no earlier than it occurs.
ReceivedLater(d) == \A r \in d.events : \A e \in SourceEvents : r.id = e.id => e.occ <= r.recv

DedupInv ==
  /\ IInv
  /\ Remembered(db) /\ Remembered(work)
  /\ ReceivedLater(db) /\ ReceivedLater(work)
  /\ \A e \in batch : e.occ <= now /\ work.hApplied[e.id] = 0
  /\ ~busy => batch = {}

\* The hub's ids are not the source's: its events leave the record alone.
LEMMA TouchRemembers ==
  ASSUME NEW d, RowsInv(d), NEW k \in Keys, NEW a, NEW v, NEW o, NEW t \in Nat
  PROVE  LET r == EmitHubEvent(d, k, a, v, o, t) IN
         /\ r.hApplied = d.hApplied
         /\ d.events \subseteq r.events
         /\ \A x \in r.events : x \in d.events \/ \A e \in SourceEvents : x.id # e.id
<1> DEFINE s == HubSeqBase + d.hubSeq + 1
           g == [d EXCEPT !.hubSeq = d.hubSeq + 1]
           ev == [id |-> s, seq |-> s, key |-> k, action |-> a, sev |-> v, occ |-> o]
           r == ApplyEvent(g, ev, FALSE, t)
<1>1. d.hubSeq \in Nat /\ HubSeqBase \in Nat /\ d \in Rows
  BY ConstantsOK DEF RowsInv, Rows
<1>2. g.hApplied = d.hApplied /\ g.events = d.events
  BY <1>1 DEF Rows
<1> HIDE DEF g
<1>3. \A e \in SourceEvents : e.id # s
  BY <1>1, ConstantsOK DEF EventType
<1>4. r.hApplied = d.hApplied /\ r.events = d.events \cup {[id |-> s, recv |-> t]}
  BY <1>2, <1>3 DEF ApplyEvent, SourceIds
<1>5. EmitHubEvent(d, k, a, v, o, t) = r
  BY DEF EmitHubEvent, g
<1> HIDE DEF r
<1> QED BY <1>3, <1>4, <1>5

LEMMA TouchSeenRemembers ==
  ASSUME NEW d, RowsInv(d), NEW at \in Nat, NEW t \in Nat
  PROVE  LET r == TouchSeen(d, at, t) IN
         /\ r.hApplied = d.hApplied
         /\ d.events \subseteq r.events
         /\ \A x \in r.events : x \in d.events \/ \A e \in SourceEvents : x.id # e.id
<1> DEFINE g == [d EXCEPT !.seen = at]
<1>1. g \in Rows
  BY Zenon DEF RowsInv, Rows
<1>2. /\ g.faults = d.faults /\ g.pend = d.pend /\ g.hubSeq = d.hubSeq
      /\ g.hApplied = d.hApplied /\ g.events = d.events
  BY DEF RowsInv, Rows
<1>3. TouchSeen(d, at, t) = IF FaultOpen(g, Heartbeat)
                            THEN EmitHubEvent(g, Heartbeat, "resolve", 0, at, t) ELSE g
  BY DEF TouchSeen
<1> HIDE DEF g
<1>4. RowsInv(g)
  BY <1>1, <1>2 DEF RowsInv, PendingHonoured, RoundsOrdered, HubResolvesApply,
                    OpenedByPast, FaultOpen
<1> QED BY <1>2, <1>3, <1>4, TouchRemembers, ConstantsOK

\* Rows that extend remembered rows by nothing of the source's are remembered.
LEMMA RememberedExtends ==
  ASSUME NEW d, NEW r, Remembered(d), ReceivedLater(d),
         r.hApplied = d.hApplied, d.events \subseteq r.events,
         \A x \in r.events : x \in d.events \/ \A e \in SourceEvents : x.id # e.id
  PROVE  Remembered(r) /\ ReceivedLater(r)
BY DEF Remembered, ReceivedLater, Known

\* Applying an event that was never applied.
LEMMA IngestRemembers ==
  ASSUME NEW d, RowsInv(d), Remembered(d), ReceivedLater(d), now \in Nat,
         NEW ev \in SourceEvents, d.hApplied[ev.id] = 0, ev.occ <= now
  PROVE  LET r == IngestEvent(d, ev, now) IN
         /\ Remembered(r) /\ ReceivedLater(r)
         /\ \A e \in SourceEvents : e # ev => r.hApplied[e.id] = d.hApplied[e.id]
<1> DEFINE g == ApplyEvent(d, ev, ev.seq <= d.lastSeq, now)
           r == IngestEvent(d, ev, now)
<1>1. /\ g.hApplied = [d.hApplied EXCEPT ![ev.id] = d.hApplied[ev.id] + 1]
      /\ g.events = d.events \cup {[id |-> ev.id, recv |-> now]}
  BY DEF ApplyEvent, SourceIds
<1>2. r.hApplied = g.hApplied /\ r.events = g.events
  <2>1. r = [g EXCEPT !.lastSeq = IF ev.seq > g.lastSeq THEN ev.seq ELSE g.lastSeq]
    BY DEF IngestEvent
  <2>2. g \in Rows
    <3>1. (ev.seq <= d.lastSeq) \in BOOLEAN
      OBVIOUS
    <3> QED BY <3>1, SourceAdmissible, ApplyTyped, Zenon
  <2> HIDE DEF g, r
  <2> QED BY <2>1, <2>2 DEF Rows
<1> HIDE DEF g, r
<1>3. d.hApplied \in [SourceIds -> Nat]
  BY DEF RowsInv, Rows
<1>4. \A e \in SourceEvents : e.id \in SourceIds /\ (e # ev => e.id # ev.id)
  BY ConstantsOK DEF SourceIds
<1>5. r.hApplied[ev.id] = 1
  BY <1>1, <1>2, <1>3, <1>4
<1>6. \A e \in SourceEvents : e # ev => r.hApplied[e.id] = d.hApplied[e.id]
  BY <1>1, <1>2, <1>3, <1>4
<1>7. ReceivedLater(r)
  <2> SUFFICES ASSUME NEW x \in r.events, NEW e \in SourceEvents, x.id = e.id
               PROVE  e.occ <= x.recv
    BY DEF ReceivedLater
  <2>1. CASE x \in d.events
    BY <2>1 DEF ReceivedLater
  <2>2. CASE x = [id |-> ev.id, recv |-> now]
    BY <1>4, <2>2
  <2> QED BY <1>1, <1>2, <2>1, <2>2
<1>8. Remembered(r)
  <2> SUFFICES ASSUME NEW e \in SourceEvents
               PROVE  /\ r.hApplied[e.id] <= 1
                      /\ r.hApplied[e.id] = 0 \/ Known(r, e) \/ now > e.occ + Window
    BY DEF Remembered
  <2>1. CASE e = ev
    <3> DEFINE x == [id |-> ev.id, recv |-> now]
    <3>1. x \in r.events /\ x.id = ev.id
      BY <1>1, <1>2
    <3>2. Known(r, ev)
      BY <3>1 DEF Known
    <3> QED BY <1>5, <2>1, <3>2
  <2>2. CASE e # ev
    <3>1. Known(d, e) => Known(r, e)
      BY <1>1, <1>2 DEF Known
    <3> QED BY <1>6, <2>2, <3>1 DEF Remembered
  <2> QED BY <2>1, <2>2
<1> QED BY <1>6, <1>7, <1>8 DEF r

\* The retention job deletes the row of an event only after its window has closed.
LEMMA RetentionRemembers ==
  ASSUME Window <= Retention, NEW d, RowsInv(d), Remembered(d), ReceivedLater(d), now \in Nat
  PROVE  Remembered(Retained(d)) /\ ReceivedLater(Retained(d))
<1> DEFINE r == Retained(d)
<1>1. r.events = {x \in d.events : ~Old(x.recv)} /\ r.hApplied = d.hApplied
  BY DEF Retained, RowsInv, Rows
<1> HIDE DEF r
<1>2. ReceivedLater(r)
  BY <1>1 DEF ReceivedLater
<1>3. ASSUME NEW e \in SourceEvents, Known(d, e), ~Known(r, e)
      PROVE  now > e.occ + Window
  <2>1. PICK x \in d.events : x.id = e.id
    BY <1>3 DEF Known
  <2>2. Old(x.recv)
    BY <1>1, <1>3, <2>1 DEF Known
  <2>3. e.occ <= x.recv /\ x.recv \in Nat /\ e.occ \in Nat
    BY <2>1, ConstantsOK DEF ReceivedLater, RowsInv, Rows, EventType
  <2> QED BY <2>2, <2>3, TimesOK DEF Old
<1>4. Remembered(r)
  BY <1>1, <1>3 DEF Remembered
<1> QED BY <1>2, <1>4 DEF r

LEMMA InitDedup == Init => DedupInv
<1> SUFFICES ASSUME Init PROVE DedupInv
  OBVIOUS
<1>1. IInv
  BY InitIInv
<1>2. EmptyRows.hApplied = [i \in SourceIds |-> 0] /\ EmptyRows.events = {}
  BY DEF EmptyRows
<1>3. \A e \in SourceEvents : e.id \in SourceIds
  BY DEF SourceIds
<1>4. Remembered(EmptyRows) /\ ReceivedLater(EmptyRows)
  BY <1>2, <1>3 DEF Remembered, ReceivedLater
<1> QED BY <1>1, <1>4, Zenon DEF DedupInv, Init

\* A one-step transaction to rows in which every applied event is remembered.
LEMMA TransactDedup ==
  ASSUME NEW r, DedupInv, IInv', Transact(r), Remembered(r), ReceivedLater(r)
  PROVE  DedupInv'
<1>1. db' = r /\ work' = r /\ now' = now /\ batch' = batch /\ busy' = busy /\ ~busy
  BY DEF Transact
<1>2. batch = {}
  BY <1>1 DEF DedupInv
<1>3. Remembered(db)' /\ Remembered(work)'
  BY <1>1 DEF Remembered, Known
<1>4. ReceivedLater(db)' /\ ReceivedLater(work)'
  BY <1>1 DEF ReceivedLater
<1> QED BY <1>1, <1>2, <1>3, <1>4 DEF DedupInv

LEMMA NextDedup ==
  ASSUME Window <= Retention, DedupInv, [Next]_vars
  PROVE  DedupInv'
<1>1. IInv' /\ IInv
  BY NextIInv DEF DedupInv
<1>2. RowsInv(db) /\ RowsInv(work) /\ now \in Nat
  BY <1>1 DEF IInv
<1>3. ASSUME NEW B \in Requests, NEW at \in 1..now, BeginIngest(B, at)
      PROVE  DedupInv'
  <2>1. at \in Nat
    BY <1>2
  <2>2. Remembered(work') /\ ReceivedLater(work') /\ work'.hApplied = db.hApplied
    BY <1>2, <1>3, <2>1, TouchSeenRemembers, RememberedExtends DEF BeginIngest, DedupInv
  <2>3. now' = now /\ db' = db /\ busy' = TRUE
    BY <1>3 DEF BeginIngest
  <2>4. \A e \in batch' : e \in SourceEvents /\ e.occ <= now /\ InWindow(e) /\ ~Known(db, e)
    BY <1>3 DEF BeginIngest, Requests
  <2>5. \A e \in batch' : e.occ <= now' /\ work'.hApplied[e.id] = 0
    <3> SUFFICES ASSUME NEW e \in batch' PROVE e.occ <= now' /\ work'.hApplied[e.id] = 0
      OBVIOUS
    <3>1. e.occ \in Nat /\ Window \in Nat
      BY <2>4, ConstantsOK, TimesOK DEF EventType
    <3>2. ~(now > e.occ + Window)
      BY <1>2, <2>4, <3>1 DEF InWindow
    <3>3. db.hApplied[e.id] = 0
      BY <2>4, <3>2 DEF DedupInv, Remembered
    <3> QED BY <2>2, <2>3, <2>4, <3>3
  <2>6. Remembered(work)' /\ ReceivedLater(work)' /\ Remembered(db)' /\ ReceivedLater(db)'
    BY <2>2, <2>3 DEF Remembered, ReceivedLater, Known, DedupInv
  <2> QED BY <1>1, <2>3, <2>5, <2>6 DEF DedupInv
<1>4. ASSUME NEW e \in SourceEvents, ApplyNext(e)
      PROVE  DedupInv'
  <2>1. work.hApplied[e.id] = 0 /\ e.occ <= now
    BY <1>4 DEF ApplyNext, DedupInv
  <2>2. /\ Remembered(work') /\ ReceivedLater(work')
        /\ \A f \in SourceEvents : f # e => work'.hApplied[f.id] = work.hApplied[f.id]
    BY <1>2, <1>4, <2>1, IngestRemembers DEF ApplyNext, DedupInv
  <2>3. now' = now /\ db' = db /\ busy' = TRUE /\ batch' = batch \ {e}
    BY <1>1, <1>4 DEF ApplyNext, IInv
  <2>4. \A f \in batch' : f.occ <= now' /\ work'.hApplied[f.id] = 0
    BY <1>1, <2>2, <2>3 DEF DedupInv, IInv
  <2>5. Remembered(work)' /\ ReceivedLater(work)' /\ Remembered(db)' /\ ReceivedLater(db)'
    BY <2>2, <2>3 DEF Remembered, ReceivedLater, Known, DedupInv
  <2> QED BY <1>1, <2>3, <2>4, <2>5 DEF DedupInv
<1>5. CASE Commit
  BY <1>1, <1>5 DEF Commit, DedupInv, Remembered, ReceivedLater, Known
<1>6. CASE Rollback
  BY <1>1, <1>6 DEF Rollback, DedupInv, Remembered, ReceivedLater, Known
<1>7. CASE HeartbeatLost
  <2> DEFINE r == EmitHubEvent(db, Heartbeat, "open", 2, now, now)
  <2>1. Remembered(r) /\ ReceivedLater(r)
    BY <1>2, TouchRemembers, RememberedExtends, ConstantsOK DEF DedupInv
  <2> HIDE DEF r
  <2>2. Transact(r)
    BY <1>7 DEF HeartbeatLost, r
  <2> QED BY <1>1, <2>1, <2>2, TransactDedup
<1>8. ASSUME NEW r, Transact(r), r.hApplied = db.hApplied, r.events = db.events
      PROVE  DedupInv'
  <2>1. Remembered(r) /\ ReceivedLater(r)
    BY <1>8, RememberedExtends DEF DedupInv
  <2> QED BY <1>1, <1>8, <2>1, TransactDedup
<1>9. ASSUME NEW k \in Keys, NEW f, Transact(SetFlags(db, k, f))
      PROVE  DedupInv'
  <2>1. SetFlags(db, k, f).hApplied = db.hApplied /\ SetFlags(db, k, f).events = db.events
    BY <1>2 DEF SetFlags, RowsInv, Rows
  <2> QED BY <1>8, <1>9, <2>1
<1>10. ASSUME NEW M, NEW v, Transact(WithRead(db, M, v))
       PROVE  DedupInv'
  <2>1. WithRead(db, M, v).hApplied = db.hApplied /\ WithRead(db, M, v).events = db.events
    BY <1>2 DEF WithRead, RowsInv, Rows
  <2> QED BY <1>8, <1>10, <2>1
<1>11. CASE Client
  BY <1>9, <1>10, <1>11 DEF Client, FaultRead, FaultMute, FaultUnmute, SetMessageRead, ReadAll
<1>12. CASE RunRetention
  <2>1. Remembered(Retained(db)) /\ ReceivedLater(Retained(db))
    BY <1>2, RetentionRemembers DEF DedupInv
  <2> QED BY <1>1, <1>12, <2>1, TransactDedup DEF RunRetention
<1>13. CASE Tick
  <2>1. now' = now + 1 /\ db' = db /\ work' = work /\ busy' = busy /\ batch' = batch
    BY <1>13 DEF Tick
  <2>2. \A e \in SourceEvents : e.occ \in Nat
    BY ConstantsOK DEF EventType
  <2>3. Remembered(db)' /\ Remembered(work)'
    BY <1>2, <2>1, <2>2, TimesOK DEF DedupInv, Remembered, Known
  <2>4. \A e \in batch' : e.occ <= now' /\ work'.hApplied[e.id] = 0
    BY <1>1, <1>2, <2>1, <2>2 DEF DedupInv, IInv
  <2>5. ReceivedLater(db)' /\ ReceivedLater(work)'
    BY <2>1 DEF DedupInv, ReceivedLater
  <2> QED BY <1>1, <2>1, <2>3, <2>4, <2>5 DEF DedupInv
<1>14. CASE UNCHANGED vars
  BY <1>1, <1>14 DEF vars, DedupInv, Remembered, ReceivedLater, Known
<1>15. CASE Ingest
  BY <1>3, <1>4, <1>5, <1>6, <1>15 DEF Ingest
<1> QED BY <1>7, <1>11, <1>12, <1>13, <1>14, <1>15 DEF Next

\* Event rows kept at least as long as the backfill window make deduplication
\* complete: across rollbacks, redelivery and deletion no event is applied twice.
THEOREM DeduplicationHolds ==
  ASSUME Window <= Retention
  PROVE  Spec => []AppliedOnce
<1>1. DedupInv => AppliedOnce
  BY DEF DedupInv, Remembered, AppliedOnce, SourceIds
<1>2. DedupInv /\ [Next]_vars => DedupInv'
  BY NextDedup
<1> QED BY <1>1, <1>2, InitDedup, PTL DEF Spec

-----------------------------------------------------------------------------
(* Fault ids, the clients' copies of the faults, and the notifications.    *)

\* Rows have ids of their own, which newID handed out.
RowIds(d) ==
  /\ \A k \in Keys : HasRow(d, k) => 1 <= d.faults[k].fid /\ d.faults[k].fid <= d.fids
  /\ \A j, k \in Keys : HasRow(d, j) /\ HasRow(d, k) /\ d.faults[j].fid = d.faults[k].fid => j = k

Mirrored(d) == d.cFaults = {d.faults[k] : k \in {j \in Keys : HasRow(d, j)}}

\* No open was announced of a round that has not begun.
NotesPast(d) ==
  \A n \in d.notes : n.kind = "incident_open" =>
    /\ n.fid <= d.fids
    /\ \A k \in Keys : HasRow(d, k) /\ d.faults[k].fid = n.fid => n.inc <= d.faults[k].inc

OpenOnce(d) ==
  \A a, b \in d.notes :
    a.kind = "incident_open" /\ b.kind = "incident_open" /\ a.fid = b.fid /\ a.inc = b.inc
      => a = b

FaultsInv(d) == RowsInv(d) /\ RowIds(d) /\ Mirrored(d) /\ NotesPast(d) /\ OpenOnce(d)

\* The rows of e are those of d or follow from them: none is gone, none is renamed, and
\* none has lost its mute flag.
Persists(d, e) ==
  \A k \in Keys : HasRow(d, k) =>
    /\ HasRow(e, k) /\ e.faults[k].fid = d.faults[k].fid
    /\ d.faults[k].muted => e.faults[k].muted

\* What an applied event leaves of the row it meets.
LEMMA SameIdentity ==
  ASSUME NEW f \in FaultRow, NEW ev \in EventType
  PROVE  /\ Merge(f, ev).fid = f.fid /\ Merge(f, ev).inc = f.inc /\ Merge(f, ev).muted = f.muted
         /\ Reopen(f, ev).fid = f.fid /\ Reopen(f, ev).inc = f.inc + 1 /\ Reopen(f, ev).muted = f.muted
         /\ Close(f, ev).fid = f.fid /\ Close(f, ev).inc = f.inc /\ Close(f, ev).muted = f.muted
BY DEF Merge, Reopen, Close, FaultRow

LEMMA NewIdentity ==
  ASSUME NEW d, d.fids \in Nat, NEW ev \in EventType
  PROVE  /\ NewFault(d, ev).fid = d.fids + 1 /\ NewFault(d, ev).inc = 1
         /\ BornResolved(d, ev).fid = d.fids + 1 /\ BornResolved(d, ev).inc = 1
         /\ BornResolved(d, ev).state = "resolved"
BY DEF NewFault, BornResolved

\* applyEventTx continues the row of the key, or starts one under a new id; the round
\* number grows when the row opens.
LEMMA AppliedRow ==
  ASSUME NEW d, RowsInv(d), NEW ev, Admissible(d, ev), Applies(d, ev)
  PROVE  LET f == FaultAfter(d, ev)
             g == d.faults[ev.key]
         IN  /\ ev.key \in Keys /\ f \in FaultRow /\ f.state # "none"
             /\ HasRow(d, ev.key) =>
                  /\ f.fid = g.fid /\ f.muted = g.muted /\ f.inc >= g.inc
                  /\ f.state = "open" /\ g.state # "open" => f.inc = g.inc + 1
             /\ ~HasRow(d, ev.key) => f.fid = d.fids + 1 /\ f.inc = 1
<1> DEFINE f == FaultAfter(d, ev)
           g == d.faults[ev.key]
           P == PendingAfter(d, ev.key, ev.seq)
<1>1. f \in FaultRow /\ ev.key \in Keys /\ ev \in EventType
  BY FaultAfterFacts DEF Admissible
<1>2. g \in FaultRow /\ d.fids \in Nat /\ g.inc \in Nat
  BY <1>1 DEF RowsInv, Rows, FaultRow
<1>3. CASE ev.action = "resolve"
  <2>1. Covers(g, ev) /\ f = Close(g, ev)
    BY <1>3 DEF Applies, FaultAfter
  <2>2. g.state = "open"
    BY <2>1 DEF Covers
  <2> HIDE DEF f, g
  <2> QED BY <1>1, <1>2, <2>1, <2>2, CloseRow, SameIdentity DEF HasRow, f, g
<1>4. CASE ev.action \in {"open", "update"}
  <2>0. f = OnOpen(d, ev)
    BY <1>4 DEF FaultAfter
  <2>1. CASE g.state = "none" /\ P # {}
    <3>1. f = BornResolved(d, ev)
      BY <2>0, <2>1 DEF OnOpen
    <3> QED BY <1>1, <1>2, <2>1, <3>1, NewIdentity DEF HasRow
  <2>2. CASE g.state = "none" /\ P = {}
    <3>1. f = NewFault(d, ev)
      BY <2>0, <2>2 DEF OnOpen
    <3> QED BY <1>1, <1>2, <2>2, <3>1, NewIdentity, NewFaultRow DEF HasRow
  <2>3. CASE g.state = "open" \/ (g.state = "resolved" /\ P # {})
    <3>1. f = Merge(g, ev)
      BY <2>0, <2>3 DEF OnOpen
    <3>2. f.state = g.state
      BY <1>1, <1>2, <3>1, MergeRow
    <3> HIDE DEF f, g
    <3> QED BY <1>1, <1>2, <2>3, <3>1, <3>2, SameIdentity DEF HasRow, f, g
  <2>4. CASE g.state = "resolved" /\ P = {}
    <3>1. f = Reopen(g, ev)
      BY <2>0, <2>4 DEF OnOpen
    <3> HIDE DEF f, g
    <3> QED BY <1>1, <1>2, <2>4, <3>1, ReopenRow, SameIdentity DEF HasRow, f, g
  <2> QED BY <1>2, <2>1, <2>2, <2>3, <2>4 DEF FaultRow
<1> QED BY <1>3, <1>4 DEF Applies

\* An incident_open is sent when the row of the key becomes open, and not otherwise.
LEMMA OpenKind ==
  ASSUME NEW d, NEW ev, NotifyKind(d, ev) = "incident_open"
  PROVE  /\ Applies(d, ev) /\ FaultAfter(d, ev).state = "open"
         /\ ev.key \in Keys => d.faults[ev.key].state # "open"
<1> DEFINE A == Applies(d, ev)
           f == IF ev.key \in Keys THEN d.faults[ev.key] ELSE NoFault
           F == f.state
           G == FaultAfter(d, ev).state
           R == ev.action
<1>1. /\ A /\ R # "resolve"
      /\ F # "open" /\ G = "open"
  BY DEF NotifyKind
<1>2. ev.key \in Keys => F = d.faults[ev.key].state
  OBVIOUS
<1> QED BY <1>1, <1>2

\* applyEventTx keeps the ids, the copies and the notifications in order.
LEMMA ApplyFaults ==
  ASSUME NEW d, FaultsInv(d), NEW ev, Admissible(d, ev), NEW ooo \in BOOLEAN, NEW t \in Nat
  PROVE  LET r == ApplyEvent(d, ev, ooo, t) IN FaultsInv(r) /\ Persists(d, r)
<1> DEFINE f == FaultAfter(d, ev)
           g == d.faults[ev.key]
           r == ApplyEvent(d, ev, ooo, t)
           m == NewMessage(d, ev, f, ooo, t)
           note == [kind |-> NotifyKind(d, ev), fid |-> f.fid, inc |-> m.inc,
                    muted |-> f.muted, id |-> ev.id]
<1>1. RowsInv(d) /\ RowIds(d) /\ Mirrored(d) /\ NotesPast(d) /\ OpenOnce(d) /\ RowsInv(r)
  BY ApplyInv DEF FaultsInv
<1>2. d.fids \in Nat /\ d.faults \in [Keys -> FaultRow] /\ r.faults \in [Keys -> FaultRow]
  BY <1>1 DEF RowsInv, Rows
<1>3. /\ r.faults = IF Applies(d, ev) THEN [d.faults EXCEPT ![ev.key] = f] ELSE d.faults
      /\ r.fids = IF Applies(d, ev) /\ f.fid > d.fids THEN f.fid ELSE d.fids
      /\ r.cFaults = IF Applies(d, ev) THEN FaultChange(d.cFaults, f) ELSE d.cFaults
      /\ r.notes = d.notes \cup {note}
      /\ m.inc = IF Applies(d, ev) THEN f.inc ELSE 0
  BY DEF ApplyEvent, NewMessage
<1>4. \A n \in d.notes : n.fid \in Nat /\ n.inc \in Nat
  BY <1>1 DEF RowsInv, Rows
<1>5. \A k \in Keys : d.faults[k].fid \in Nat /\ d.faults[k].inc \in Nat
  BY <1>2 DEF FaultRow
<1>6. note.fid = f.fid /\ note.inc = m.inc /\ note.kind = NotifyKind(d, ev)
  OBVIOUS
<1> HIDE DEF r, m, note
<1>7. ASSUME note.kind = "incident_open"
      PROVE  Applies(d, ev) /\ f.state = "open" /\ (ev.key \in Keys => g.state # "open")
  BY <1>6, <1>7, OpenKind
<1>8. CASE ~Applies(d, ev)
  <2>1. r.faults = d.faults /\ r.fids = d.fids /\ r.cFaults = d.cFaults /\ note.kind # "incident_open"
    BY <1>3, <1>7, <1>8
  <2>2. RowIds(r) /\ Mirrored(r)
    BY <1>1, <2>1 DEF RowIds, Mirrored, HasRow
  <2>3. NotesPast(r)
    BY <1>1, <1>3, <2>1 DEF NotesPast, HasRow
  <2>4. OpenOnce(r)
    BY <1>1, <1>3, <2>1 DEF OpenOnce
  <2>5. Persists(d, r)
    BY <2>1 DEF Persists, HasRow
  <2>6. FaultsInv(r)
    BY <1>1, <2>2, <2>3, <2>4 DEF FaultsInv
  <2> QED BY <2>5, <2>6 DEF r
<1>9. CASE Applies(d, ev)
  <2>1. /\ ev.key \in Keys /\ f \in FaultRow /\ f.state # "none"
        /\ HasRow(d, ev.key) =>
             /\ f.fid = g.fid /\ f.muted = g.muted /\ f.inc >= g.inc
             /\ f.state = "open" /\ g.state # "open" => f.inc = g.inc + 1
        /\ ~HasRow(d, ev.key) => f.fid = d.fids + 1 /\ f.inc = 1
    BY <1>1, <1>9, AppliedRow
  <2> HIDE DEF f
  <2>2. \A k \in Keys : r.faults[k] = IF k = ev.key THEN f ELSE d.faults[k]
    BY <1>2, <1>3, <1>9, <2>1
  <2>3. f.fid \in Nat /\ f.inc \in Nat
    BY <2>1 DEF FaultRow
  <2>4. /\ HasRow(d, ev.key) => r.fids = d.fids
        /\ ~HasRow(d, ev.key) => r.fids = d.fids + 1
        /\ 1 <= f.fid /\ f.fid <= r.fids /\ d.fids <= r.fids /\ r.fids \in Nat
    BY <1>1, <1>2, <1>3, <1>5, <1>9, <2>1, <2>3 DEF RowIds
  <2>5. \A k \in Keys : k # ev.key /\ HasRow(d, k) => d.faults[k].fid # f.fid
    <3> TAKE k \in Keys
    <3> HAVE k # ev.key /\ HasRow(d, k)
    <3>1. CASE HasRow(d, ev.key)
      BY <1>1, <2>1, <3>1 DEF RowIds
    <3>2. CASE ~HasRow(d, ev.key)
      <4>1. d.faults[k].fid <= d.fids /\ f.fid = d.fids + 1
        BY <1>1, <2>1, <3>2 DEF RowIds
      <4> QED BY <1>2, <1>5, <4>1
    <3> QED BY <3>1, <3>2
  <2>6. \A k \in Keys : HasRow(r, k) <=> k = ev.key \/ HasRow(d, k)
    BY <2>1, <2>2 DEF HasRow
  <2>7. RowIds(r)
    <3>1. \A k \in Keys : HasRow(r, k) => 1 <= r.faults[k].fid /\ r.faults[k].fid <= r.fids
      BY <1>1, <1>2, <1>5, <2>2, <2>4, <2>6 DEF RowIds
    <3>2. \A j, k \in Keys : HasRow(r, j) /\ HasRow(r, k) /\ r.faults[j].fid = r.faults[k].fid => j = k
      BY <1>1, <2>2, <2>5, <2>6 DEF RowIds
    <3> QED BY <3>1, <3>2 DEF RowIds
  <2>8. Mirrored(r)
    <3>1. r.cFaults = {x \in d.cFaults : x.fid # f.fid} \cup {f}
      BY <1>3, <1>9 DEF FaultChange
    <3>2. d.cFaults = {d.faults[k] : k \in {j \in Keys : HasRow(d, j)}}
      BY <1>1 DEF Mirrored
    <3>3. ASSUME NEW x \in r.cFaults PROVE \E k \in Keys : HasRow(r, k) /\ x = r.faults[k]
      <4>1. CASE x = f
        BY <2>1, <2>2, <2>6, <4>1
      <4>2. CASE x # f
        <5>1. PICK k \in Keys : HasRow(d, k) /\ x = d.faults[k] /\ x.fid # f.fid
          BY <3>1, <3>2, <3>3, <4>2
        <5>2. k # ev.key
          BY <2>1, <5>1
        <5> QED BY <2>2, <2>6, <5>1, <5>2
      <4> QED BY <4>1, <4>2
    <3>4. ASSUME NEW k \in Keys, HasRow(r, k) PROVE r.faults[k] \in r.cFaults
      <4>1. CASE k = ev.key
        BY <2>2, <3>1, <4>1
      <4>2. CASE k # ev.key
        <5>1. HasRow(d, k) /\ r.faults[k] = d.faults[k] /\ d.faults[k].fid # f.fid
          BY <2>2, <2>5, <2>6, <3>4, <4>2
        <5> QED BY <3>1, <3>2, <5>1
      <4> QED BY <4>1, <4>2
    <3> QED BY <3>3, <3>4 DEF Mirrored
  <2>9. \A n \in d.notes : n.kind = "incident_open" /\ note.kind = "incident_open" =>
          n.fid # f.fid \/ n.inc < f.inc
    <3> TAKE n \in d.notes
    <3> HAVE n.kind = "incident_open" /\ note.kind = "incident_open"
    <3>1. CASE HasRow(d, ev.key)
      <4>1. f.inc = g.inc + 1 /\ f.fid = g.fid
        BY <1>7, <2>1, <3>1
      <4>2. n.fid = g.fid => n.inc <= g.inc
        BY <1>1, <2>1, <3>1 DEF NotesPast
      <4> QED BY <1>4, <1>5, <2>1, <4>1, <4>2
    <3>2. CASE ~HasRow(d, ev.key)
      <4>1. n.fid <= d.fids /\ f.fid = d.fids + 1
        BY <1>1, <2>1, <3>2 DEF NotesPast
      <4> QED BY <1>2, <1>4, <4>1
    <3> QED BY <3>1, <3>2
  <2>10. NotesPast(r)
    <3> SUFFICES ASSUME NEW n \in r.notes, n.kind = "incident_open"
                 PROVE  /\ n.fid <= r.fids
                        /\ \A k \in Keys : HasRow(r, k) /\ r.faults[k].fid = n.fid => n.inc <= r.faults[k].inc
      BY DEF NotesPast
    <3>1. CASE n = note
      <4>1. n.fid = f.fid /\ n.inc = f.inc
        BY <1>3, <1>6, <1>9, <3>1
      <4>2. \A k \in Keys : HasRow(r, k) /\ r.faults[k].fid = f.fid => k = ev.key
        BY <2>2, <2>5, <2>6
      <4> QED BY <2>2, <2>3, <2>4, <4>1, <4>2
    <3>2. CASE n \in d.notes
      <4>1. /\ n.fid <= d.fids
            /\ \A k \in Keys : HasRow(d, k) /\ d.faults[k].fid = n.fid => n.inc <= d.faults[k].inc
        BY <1>1, <3>2 DEF NotesPast
      <4>2. n.fid <= r.fids
        BY <1>2, <1>4, <2>4, <3>2, <4>1
      <4>3. ASSUME NEW k \in Keys, HasRow(r, k), r.faults[k].fid = n.fid PROVE n.inc <= r.faults[k].inc
        <5>1. CASE k # ev.key
          BY <2>2, <2>6, <4>1, <4>3, <5>1
        <5>2. CASE k = ev.key /\ HasRow(d, k)
          <6>1. r.faults[k] = f /\ f.fid = g.fid /\ f.inc >= g.inc /\ n.inc <= g.inc
            BY <2>1, <2>2, <4>1, <4>3, <5>2
          <6> QED BY <1>4, <1>5, <2>1, <2>3, <3>2, <6>1
        <5>3. CASE k = ev.key /\ ~HasRow(d, k)
          <6>1. n.fid = d.fids + 1
            BY <2>1, <2>2, <4>3, <5>3
          <6> QED BY <1>2, <1>4, <3>2, <4>1, <6>1
        <5> QED BY <5>1, <5>2, <5>3
      <4> QED BY <4>2, <4>3
    <3> QED BY <1>3, <3>1, <3>2
  <2>11. OpenOnce(r)
    <3>1. note.kind = "incident_open" => note.inc = f.inc /\ note.fid = f.fid
      BY <1>3, <1>6, <1>9
    <3> QED BY <1>1, <1>3, <1>4, <2>3, <2>9, <3>1 DEF OpenOnce
  <2>12. Persists(d, r)
    BY <2>1, <2>2, <2>6 DEF Persists
  <2>13. FaultsInv(r)
    BY <1>1, <2>7, <2>8, <2>10, <2>11 DEF FaultsInv
  <2> QED BY <2>12, <2>13 DEF r
<1> QED BY <1>8, <1>9

\* Steps that touch neither faults nor notifications.
LEMMA FaultsCarry ==
  ASSUME NEW d, FaultsInv(d), NEW e, RowsInv(e), e.faults = d.faults, e.fids = d.fids,
         e.cFaults = d.cFaults, e.notes = d.notes
  PROVE  FaultsInv(e) /\ Persists(d, e)
<1>1. RowIds(e) /\ Mirrored(e)
  BY DEF FaultsInv, RowIds, Mirrored, HasRow
<1>2. NotesPast(e)
  BY DEF FaultsInv, NotesPast, HasRow
<1>3. OpenOnce(e)
  BY DEF FaultsInv, OpenOnce
<1>4. Persists(d, e)
  BY DEF Persists, HasRow
<1> QED BY <1>1, <1>2, <1>3, <1>4 DEF FaultsInv

LEMMA PersistsTransitive ==
  ASSUME NEW d, NEW e, NEW g, Persists(d, e), Persists(e, g)
  PROVE  Persists(d, g)
BY DEF Persists

LEMMA EmitFaults ==
  ASSUME NEW d, FaultsInv(d), NEW k \in Keys, NEW a \in {"open", "update", "resolve"},
         NEW v \in Nat, NEW o \in Nat, NEW t \in Nat,
         a = "resolve" => FaultOpen(d, k)
  PROVE  /\ FaultsInv(EmitHubEvent(d, k, a, v, o, t))
         /\ Persists(d, EmitHubEvent(d, k, a, v, o, t))
<1> DEFINE e == Numbered(d)
           ev == HubEvent(d, k, a, v, o)
           r == ApplyEvent(e, ev, FALSE, t)
<1>0. RowsInv(d) /\ d \in Rows
  BY DEF FaultsInv, RowsInv
<1>1. RowsInv(e) /\ Admissible(e, ev)
  BY <1>0, EmitIsApply, Zenon
<1>2. EmitHubEvent(d, k, a, v, o, t) = r
  BY DEF EmitHubEvent, Numbered, HubEvent
<1>3. FALSE \in BOOLEAN
  OBVIOUS
<1>4. e.faults = d.faults /\ e.fids = d.fids /\ e.cFaults = d.cFaults /\ e.notes = d.notes
  BY <1>0 DEF Numbered, Rows
<1> HIDE DEF e, ev, r
<1>5. FaultsInv(e) /\ Persists(d, e)
  BY <1>1, <1>4, FaultsCarry
<1>6. FaultsInv(r) /\ Persists(e, r)
  BY <1>1, <1>3, <1>5, ApplyFaults, Zenon DEF r
<1> QED BY <1>2, <1>5, <1>6, PersistsTransitive, Zenon

LEMMA TouchFaults ==
  ASSUME NEW d, FaultsInv(d), NEW at \in Nat, NEW t \in Nat
  PROVE  FaultsInv(TouchSeen(d, at, t)) /\ Persists(d, TouchSeen(d, at, t))
<1> DEFINE e == [d EXCEPT !.seen = at]
<1>0. RowsInv(d) /\ d \in Rows
  BY DEF FaultsInv, RowsInv
<1>1. e \in Rows
  BY <1>0, Zenon DEF Rows
<1>2. /\ e.faults = d.faults /\ e.pend = d.pend /\ e.hubSeq = d.hubSeq
      /\ e.fids = d.fids /\ e.cFaults = d.cFaults /\ e.notes = d.notes
  BY <1>0 DEF Rows
<1>3. TouchSeen(d, at, t) = IF FaultOpen(e, Heartbeat)
                            THEN EmitHubEvent(e, Heartbeat, "resolve", 0, at, t) ELSE e
  BY DEF TouchSeen
<1> HIDE DEF e
<1>4. RowsInv(e)
  BY <1>0, <1>1, <1>2 DEF RowsInv, PendingHonoured, RoundsOrdered, HubResolvesApply,
                    OpenedByPast, FaultOpen
<1>5. FaultsInv(e) /\ Persists(d, e)
  BY <1>2, <1>4, FaultsCarry
<1>6. CASE FaultOpen(e, Heartbeat)
  <2> DEFINE r == EmitHubEvent(e, Heartbeat, "resolve", 0, at, t)
  <2>1. FaultsInv(r) /\ Persists(e, r)
    BY <1>5, <1>6, EmitFaults, ConstantsOK
  <2> HIDE DEF r
  <2>2. Persists(d, r)
    BY <1>5, <2>1, PersistsTransitive
  <2>3. TouchSeen(d, at, t) = r
    BY <1>3, <1>6 DEF r
  <2> QED BY <2>1, <2>2, <2>3
<1>7. CASE ~FaultOpen(e, Heartbeat)
  BY <1>3, <1>5, <1>7
<1> QED BY <1>6, <1>7

LEMMA IngestFaults ==
  ASSUME NEW d, FaultsInv(d), NEW ev \in SourceEvents, NEW t \in Nat
  PROVE  FaultsInv(IngestEvent(d, ev, t)) /\ Persists(d, IngestEvent(d, ev, t))
<1> DEFINE late == ev.seq <= d.lastSeq
           e == ApplyEvent(d, ev, late, t)
           x == IF ev.seq > e.lastSeq THEN ev.seq ELSE e.lastSeq
           r == IngestEvent(d, ev, t)
<1>0. RowsInv(d) /\ RowsInv(r)
  BY IngestInv DEF FaultsInv
<1>1. late \in BOOLEAN
  OBVIOUS
<1>2. Admissible(d, ev)
  BY <1>0, SourceAdmissible
<1> HIDE DEF late
<1>3. FaultsInv(e) /\ Persists(d, e)
  BY <1>1, <1>2, ApplyFaults, Zenon
<1>4. r = [e EXCEPT !.lastSeq = x]
  BY DEF IngestEvent, late
<1> HIDE DEF e, x, r
<1>5. e \in Rows
  BY <1>3 DEF FaultsInv, RowsInv
<1>6. r.faults = e.faults /\ r.fids = e.fids /\ r.cFaults = e.cFaults /\ r.notes = e.notes
  BY <1>4, <1>5 DEF Rows
<1>7. FaultsInv(r) /\ Persists(e, r)
  BY <1>0, <1>3, <1>6, FaultsCarry
<1> QED BY <1>3, <1>7, PersistsTransitive, Zenon DEF r

\* updateFaultFlags keeps the row's identity and tells the clients.
LEMMA FlagsFaults ==
  ASSUME NEW d, FaultsInv(d), NEW k \in Keys, NEW f \in FaultRow, HasRow(d, k),
         f.state = d.faults[k].state, f.openedSeq = d.faults[k].openedSeq,
         f.resolvedSeq = d.faults[k].resolvedSeq,
         f.fid = d.faults[k].fid, f.inc = d.faults[k].inc
  PROVE  FaultsInv(SetFlags(d, k, f))
<1> DEFINE r == SetFlags(d, k, f)
<1>1. RowsInv(d) /\ RowsInv(r) /\ d \in Rows
  BY FlagsInv DEF FaultsInv, RowsInv
<1>2. /\ r.faults = [d.faults EXCEPT ![k] = f] /\ r.fids = d.fids /\ r.notes = d.notes
      /\ r.cFaults = FaultChange(d.cFaults, f)
  BY <1>1 DEF SetFlags, Rows
<1> HIDE DEF r
<1>3. \A j \in Keys : r.faults[j] = IF j = k THEN f ELSE d.faults[j]
  BY <1>1, <1>2 DEF Rows
<1>4. \A j \in Keys : /\ HasRow(r, j) <=> HasRow(d, j)
                      /\ r.faults[j].fid = d.faults[j].fid
                      /\ r.faults[j].inc = d.faults[j].inc
  BY <1>3 DEF HasRow
<1>5. RowIds(r)
  BY <1>2, <1>4 DEF FaultsInv, RowIds
<1>6. NotesPast(r) /\ OpenOnce(r)
  BY <1>2, <1>4 DEF FaultsInv, NotesPast, OpenOnce
<1>7. Mirrored(r)
  <2>1. d.cFaults = {d.faults[j] : j \in {i \in Keys : HasRow(d, i)}}
    BY DEF FaultsInv, Mirrored
  <2>2. r.cFaults = {x \in d.cFaults : x.fid # f.fid} \cup {f}
    BY <1>2 DEF FaultChange
  <2>3. \A j \in Keys : HasRow(d, j) /\ j # k => d.faults[j].fid # f.fid
    BY DEF FaultsInv, RowIds
  <2>4. ASSUME NEW x \in r.cFaults PROVE \E j \in Keys : HasRow(r, j) /\ x = r.faults[j]
    <3>1. CASE x = f
      BY <1>3, <1>4, <3>1
    <3>2. CASE x # f
      <4>1. PICK j \in Keys : HasRow(d, j) /\ x = d.faults[j] /\ x.fid # f.fid
        BY <2>1, <2>2, <2>4, <3>2
      <4> QED BY <1>3, <1>4, <4>1
    <3> QED BY <3>1, <3>2
  <2>5. ASSUME NEW j \in Keys, HasRow(r, j) PROVE r.faults[j] \in r.cFaults
    <3>1. CASE j = k
      BY <1>3, <2>2, <3>1
    <3>2. CASE j # k
      BY <1>3, <1>4, <2>1, <2>2, <2>3, <2>5, <3>2
    <3> QED BY <3>1, <3>2
  <2> QED BY <2>4, <2>5 DEF Mirrored
<1> QED BY <1>1, <1>5, <1>6, <1>7 DEF FaultsInv, r

\* runRetention takes resolved rows away, from the clients too.
LEMMA RetentionFaults ==
  ASSUME NEW d, FaultsInv(d)
  PROVE  LET r == Retained(d) IN
         /\ FaultsInv(r) /\ r.notes = d.notes
         /\ \A k \in Keys : FaultOpen(d, k) => r.faults[k] = d.faults[k]
<1> DEFINE X == {k \in Keys : d.faults[k].state = "resolved" /\ Old(d.faults[k].resolvedAt)}
           fids == {d.faults[k].fid : k \in X}
           r == Retained(d)
<1>1. RowsInv(d) /\ RowsInv(r) /\ d \in Rows
  BY RetentionInv DEF FaultsInv, RowsInv
<1>2. /\ r.faults = [k \in Keys |-> IF k \in X THEN NoFault ELSE d.faults[k]]
      /\ r.fids = d.fids /\ r.notes = d.notes
      /\ r.cFaults = {x \in d.cFaults : x.fid \notin fids}
  BY <1>1 DEF Retained, Rows
<1>3. X \subseteq Keys /\ \A k \in X : HasRow(d, k) /\ ~FaultOpen(d, k)
  BY DEF HasRow, FaultOpen
<1>4. NoFault.state = "none"
  BY DEF NoFault
<1>5. \A k \in Keys : HasRow(d, k) => (d.faults[k].fid \in fids <=> k \in X)
  BY <1>3 DEF FaultsInv, RowIds
<1> HIDE DEF X, fids, r
<1>6. \A k \in Keys : /\ HasRow(r, k) <=> HasRow(d, k) /\ k \notin X
                      /\ k \notin X => r.faults[k] = d.faults[k]
  BY <1>2, <1>4 DEF HasRow
<1>7. RowIds(r)
  BY <1>2, <1>6 DEF FaultsInv, RowIds
<1>8. NotesPast(r) /\ OpenOnce(r)
  BY <1>2, <1>6 DEF FaultsInv, NotesPast, OpenOnce
<1>9. Mirrored(r)
  <2>1. d.cFaults = {d.faults[j] : j \in {i \in Keys : HasRow(d, i)}}
    BY DEF FaultsInv, Mirrored
  <2>2. ASSUME NEW x \in r.cFaults PROVE \E j \in Keys : HasRow(r, j) /\ x = r.faults[j]
    <3>1. PICK j \in Keys : HasRow(d, j) /\ x = d.faults[j] /\ x.fid \notin fids
      BY <1>2, <2>1, <2>2
    <3> QED BY <1>5, <1>6, <3>1
  <2>3. ASSUME NEW j \in Keys, HasRow(r, j) PROVE r.faults[j] \in r.cFaults
    BY <1>2, <1>5, <1>6, <2>1, <2>3
  <2> QED BY <2>2, <2>3 DEF Mirrored
<1>10. FaultsInv(r)
  BY <1>1, <1>7, <1>8, <1>9 DEF FaultsInv
<1> QED BY <1>2, <1>3, <1>6, <1>10 DEF r

FInv == IInv /\ FaultsInv(db) /\ FaultsInv(work) /\ Persists(db, work)

\* What a step may do to committed rows: carry every one of them on, or send no
\* notification and leave the open ones where they are.
Carried ==
  \/ Persists(db, db')
  \/ /\ db'.notes = db.notes
     /\ \A k \in Keys : FaultOpen(db, k) =>
          HasRow(db', k) /\ db'.faults[k].fid = db.faults[k].fid

LEMMA InitFInv == Init => FInv
<1> SUFFICES ASSUME Init PROVE FInv
  OBVIOUS
<1>1. IInv
  BY InitIInv
<1>2. db = EmptyRows /\ work = EmptyRows
  BY DEF Init
<1>3. /\ EmptyRows.notes = {} /\ EmptyRows.cFaults = {}
      /\ \A k \in Keys : ~HasRow(EmptyRows, k)
  BY DEF EmptyRows, HasRow, NoFault
<1>4. RowIds(EmptyRows) /\ NotesPast(EmptyRows) /\ OpenOnce(EmptyRows) /\ Mirrored(EmptyRows)
  BY <1>3 DEF RowIds, NotesPast, OpenOnce, Mirrored
<1>5. Persists(EmptyRows, EmptyRows)
  BY <1>3 DEF Persists
<1> QED BY <1>1, <1>2, <1>4, <1>5, Zenon DEF FInv, FaultsInv, IInv

LEMMA PersistsReflexive == ASSUME NEW d PROVE Persists(d, d)
BY DEF Persists

LEMMA TransactFaults ==
  ASSUME IInv', NEW d, FaultsInv(d), Transact(d)
  PROVE  FInv' /\ db' = d
<1>1. db' = d /\ work' = d
  BY DEF Transact
<1>2. Persists(d, d)
  BY PersistsReflexive
<1>3. FaultsInv(db)' /\ FaultsInv(work)' /\ Persists(db, work)'
  BY <1>1, <1>2, Zenon
<1> QED BY <1>1, <1>3 DEF FInv

LEMMA NextFInv ==
  ASSUME FInv, [Next]_vars
  PROVE  FInv' /\ Carried
<1>1. /\ IInv /\ IInv' /\ FaultsInv(db) /\ FaultsInv(work) /\ Persists(db, work)
      /\ RowsInv(db) /\ now \in Nat
  BY NextIInv DEF FInv, IInv
<1>2. ASSUME db' = db PROVE Carried
  BY <1>2, PersistsReflexive, Zenon DEF Carried
<1>3. ASSUME NEW B \in Requests, NEW at \in 1..now, BeginIngest(B, at)
      PROVE  FInv' /\ Carried
  <2>1. at \in Nat
    BY <1>1
  <2>2. db' = db /\ work' = TouchSeen(db, at, now)
    BY <1>3 DEF BeginIngest
  <2>3. FaultsInv(work') /\ Persists(db, work')
    BY <1>1, <2>1, <2>2, TouchFaults
  <2>4. FaultsInv(db)' /\ FaultsInv(work)' /\ Persists(db, work)'
    BY <1>1, <2>2, <2>3, Zenon
  <2> QED BY <1>1, <1>2, <2>2, <2>4 DEF FInv
<1>4. ASSUME NEW e \in SourceEvents, ApplyNext(e)
      PROVE  FInv' /\ Carried
  <2>1. db' = db /\ work' = IngestEvent(work, e, now)
    BY <1>4 DEF ApplyNext
  <2>2. FaultsInv(work') /\ Persists(work, work')
    BY <1>1, <2>1, IngestFaults
  <2>3. Persists(db, work')
    BY <1>1, <2>2, PersistsTransitive
  <2>4. FaultsInv(db)' /\ FaultsInv(work)' /\ Persists(db, work)'
    BY <1>1, <2>1, <2>2, <2>3, Zenon
  <2> QED BY <1>1, <1>2, <2>1, <2>4 DEF FInv
<1>5. CASE Commit
  <2>1. db' = work /\ work' = work
    BY <1>5 DEF Commit
  <2>2. Persists(work, work)
    BY PersistsReflexive
  <2>3. FaultsInv(db)' /\ FaultsInv(work)' /\ Persists(db, work)' /\ Persists(db, db')
    BY <1>1, <2>1, <2>2, Zenon
  <2> QED BY <1>1, <2>3 DEF FInv, Carried
<1>6. CASE Rollback
  <2>1. db' = db /\ work' = db
    BY <1>6 DEF Rollback
  <2>2. Persists(db, db)
    BY PersistsReflexive
  <2>3. FaultsInv(db)' /\ FaultsInv(work)' /\ Persists(db, work)'
    BY <1>1, <2>1, <2>2, Zenon
  <2> QED BY <1>1, <1>2, <2>1, <2>3 DEF FInv
<1>7. CASE HeartbeatLost
  <2> DEFINE d == EmitHubEvent(db, Heartbeat, "open", 2, now, now)
  <2>1. FaultsInv(d) /\ Persists(db, d)
    BY <1>1, EmitFaults, ConstantsOK
  <2>2. Transact(d)
    BY <1>7 DEF HeartbeatLost
  <2> HIDE DEF d
  <2> QED BY <1>1, <2>1, <2>2, TransactFaults DEF Carried
<1>8. ASSUME NEW k \in Keys, FaultRead(k) \/ FaultMute(k) \/ FaultUnmute(k)
      PROVE  FInv' /\ Carried
  <2> DEFINE f == db.faults[k]
             G == {[f EXCEPT !.read = TRUE], [f EXCEPT !.muted = TRUE], [f EXCEPT !.muted = FALSE]}
  <2>1. f \in FaultRow /\ db \in Rows
    BY <1>1 DEF RowsInv, Rows
  <2>2. /\ [f EXCEPT !.read = TRUE] \in FaultRow
        /\ [f EXCEPT !.muted = TRUE] \in FaultRow
        /\ [f EXCEPT !.muted = FALSE] \in FaultRow
    BY <2>1, Zenon DEF FaultRow
  <2>3. \A g \in G : /\ g.state = f.state /\ g.openedSeq = f.openedSeq
                     /\ g.resolvedSeq = f.resolvedSeq /\ g.fid = f.fid /\ g.inc = f.inc
    BY <2>1 DEF FaultRow
  <2>4. HasRow(db, k) /\ \E g \in G : Transact(SetFlags(db, k, g))
    BY <1>8 DEF FaultRead, FaultMute, FaultUnmute
  <2>5. \A g \in G : g \in FaultRow
    BY <2>2
  <2> HIDE DEF G, f
  <2>6. PICK g \in G : Transact(SetFlags(db, k, g))
    BY <2>4
  <2>7. FaultsInv(SetFlags(db, k, g))
    BY <1>1, <2>3, <2>4, <2>5, FlagsFaults DEF f
  <2>8. FInv' /\ db' = SetFlags(db, k, g)
    BY <1>1, <2>6, <2>7, TransactFaults
  <2>9. db'.notes = db.notes /\ db'.faults = [db.faults EXCEPT ![k] = g]
    BY <2>1, <2>8 DEF SetFlags, Rows
  <2>10. \A j \in Keys : db'.faults[j] = IF j = k THEN g ELSE db.faults[j]
    BY <2>1, <2>9 DEF Rows
  <2>11. \A j \in Keys : FaultOpen(db, j) => HasRow(db', j) /\ db'.faults[j].fid = db.faults[j].fid
    BY <2>3, <2>10 DEF FaultOpen, HasRow, f
  <2> QED BY <2>8, <2>9, <2>11 DEF Carried
<1>9. ASSUME NEW M \in SUBSET db.msgs, NEW b \in BOOLEAN, Transact(WithRead(db, M, b))
      PROVE  FInv' /\ Carried
  <2> DEFINE d == WithRead(db, M, b)
  <2>1. RowsInv(d) /\ db \in Rows
    BY <1>1, ReadInv DEF RowsInv
  <2>2. d.faults = db.faults /\ d.fids = db.fids /\ d.cFaults = db.cFaults /\ d.notes = db.notes
    BY <2>1 DEF WithRead, Rows
  <2> HIDE DEF d
  <2>3. FaultsInv(d) /\ Persists(db, d)
    BY <1>1, <2>1, <2>2, FaultsCarry
  <2> QED BY <1>1, <1>9, <2>3, TransactFaults DEF Carried, d
<1>10. ASSUME NEW m \in db.msgs, NEW r \in BOOLEAN, SetMessageRead(m, r)
       PROVE  FInv' /\ Carried
  BY <1>9, <1>10 DEF SetMessageRead
<1>11. ASSUME NEW t \in 1..now, ReadAll(t)
       PROVE  FInv' /\ Carried
  <2> DEFINE M == {m \in db.msgs : ~m.read /\ m.recv <= t}
  <2>1. Transact(WithRead(db, M, TRUE)) /\ M \in SUBSET db.msgs
    BY <1>11 DEF ReadAll
  <2> HIDE DEF M
  <2> QED BY <1>9, <2>1
<1>12. CASE RunRetention
  <2> DEFINE d == Retained(db)
  <2>1. /\ FaultsInv(d) /\ d.notes = db.notes
        /\ \A k \in Keys : FaultOpen(db, k) => d.faults[k] = db.faults[k]
    BY <1>1, RetentionFaults
  <2>2. Transact(d)
    BY <1>12 DEF RunRetention
  <2> HIDE DEF d
  <2>3. FInv' /\ db' = d
    BY <1>1, <2>1, <2>2, TransactFaults
  <2> QED BY <2>1, <2>3 DEF Carried, FaultOpen, HasRow
<1>13. CASE Tick \/ UNCHANGED vars
  <2>1. db' = db /\ work' = work
    BY <1>13 DEF Tick, vars
  <2>2. FaultsInv(db)' /\ FaultsInv(work)' /\ Persists(db, work)'
    BY <1>1, <2>1, Zenon
  <2> QED BY <1>1, <1>2, <2>1, <2>2 DEF FInv
<1>14. CASE Ingest
  BY <1>3, <1>4, <1>5, <1>6, <1>14 DEF Ingest
<1>15. CASE Client
  BY <1>8, <1>10, <1>11, <1>15 DEF Client
<1> QED BY <1>7, <1>12, <1>13, <1>14, <1>15 DEF Next

\* The fault changes of the log rebuild the fault table: applyEventTx, updateFaultFlags
\* and runRetention leave no row of a client behind the hub's.
THEOREM FaultChangesComplete == Spec => []ClientMirrorsFaults
<1>1. FInv => ClientMirrorsFaults
  BY DEF FInv, FaultsInv, Mirrored, ClientMirrorsFaults
<1>2. FInv /\ [Next]_vars => FInv'
  BY NextFInv
<1> QED BY <1>1, <1>2, InitFInv, PTL DEF Spec

\* No round of a fault is announced twice, whatever is redelivered, rolled back or merged.
THEOREM RoundsAnnouncedOnce == Spec => []OpenNotifiedOnce
<1>1. FInv => OpenNotifiedOnce
  BY DEF FInv, FaultsInv, OpenOnce, OpenNotifiedOnce
<1>2. FInv /\ [Next]_vars => FInv'
  BY NextFInv
<1> QED BY <1>1, <1>2, InitFInv, PTL DEF Spec

\* No step takes an open fault away or gives its key to another one.
THEOREM OpenFaultsStay == Spec => OpenFaultNeverRemoved
<1>1. FInv /\ [Next]_vars =>
        [\A k \in Keys : FaultOpen(db, k) =>
           HasRow(db', k) /\ db'.faults[k].fid = db.faults[k].fid]_db
  <2> SUFFICES ASSUME FInv, [Next]_vars, NEW k \in Keys, FaultOpen(db, k)
               PROVE  HasRow(db', k) /\ db'.faults[k].fid = db.faults[k].fid
    OBVIOUS
  <2>1. Carried
    BY NextFInv
  <2>2. HasRow(db, k)
    BY DEF FaultOpen, HasRow
  <2> QED BY <2>1, <2>2 DEF Carried, Persists
<1>2. FInv /\ [Next]_vars => FInv'
  BY NextFInv
<1> QED BY <1>1, <1>2, InitFInv, PTL DEF Spec, OpenFaultNeverRemoved

\* A step that applies an event clears no mute flag.
THEOREM MuteIsKept == Spec => MuteSurvivesRounds
<1>1. FInv /\ [Next]_vars =>
        [\A k \in Keys :
           (/\ HasRow(db, k) /\ db.faults[k].muted
            /\ HasRow(db', k) /\ db'.faults[k].fid = db.faults[k].fid
            /\ ~db'.faults[k].muted)
           => db'.notes = db.notes]_db
  <2> SUFFICES ASSUME FInv, [Next]_vars, NEW k \in Keys,
                      HasRow(db, k), db.faults[k].muted, ~db'.faults[k].muted
               PROVE  db'.notes = db.notes
    OBVIOUS
  <2>1. Carried
    BY NextFInv
  <2> QED BY <2>1 DEF Carried, Persists
<1>2. FInv /\ [Next]_vars => FInv'
  BY NextFInv
<1> QED BY <1>1, <1>2, InitFInv, PTL DEF Spec, MuteSurvivesRounds

-----------------------------------------------------------------------------
(* The clients' copies of the messages.                                    *)

\* A message without the fault a late open gave it.
Bare(m) == [m EXCEPT !.fid = 0, !.inc = 0]

CopiesTrue(d) ==
  /\ {c.id : c \in d.cMsgs} = {m.id : m \in d.msgs}
  /\ \A c \in d.cMsgs, m \in d.msgs : c.id = m.id => c = m \/ c = Bare(m)

\* Ids are used once: by a source event that has been applied or by a number the hub has
\* handed out.
MessageIds(d) ==
  /\ \A m, n \in d.msgs : m.id = n.id => m = n
  /\ \A m \in d.msgs : /\ m.id <= HubSeqBase + d.hubSeq
                       /\ m.id \in SourceIds => d.hApplied[m.id] # 0

\* A message of no fault is of no round.
Unowned(d) == \A m \in d.msgs : m.fid = 0 => m.inc = 0

MsgInv(d) == CopiesTrue(d) /\ MessageIds(d) /\ Unowned(d)

\* Step 5 of applyEventTx, message by message.
Filled(d, ev, f, m) ==
  IF /\ Applies(d, ev) /\ f.state = "resolved"
     /\ m.key = ev.key /\ m.fid = 0 /\ m.seq >= f.openedSeq /\ m.seq <= f.resolvedSeq
  THEN [m EXCEPT !.fid = f.fid, !.inc = f.inc] ELSE m

LEMMA FilledFacts ==
  ASSUME NEW d, FaultsInv(d), MsgInv(d), NEW ev, Admissible(d, ev)
  PROVE  LET f == FaultAfter(d, ev) IN
         /\ Backfilled(d, ev, f) = {Filled(d, ev, f, m) : m \in d.msgs}
         /\ \A m \in d.msgs :
              /\ Filled(d, ev, f, m).id = m.id
              /\ Filled(d, ev, f, m).fid = 0 => Filled(d, ev, f, m) = m
              /\ \A c : c = m \/ c = Bare(m) =>
                   c = Filled(d, ev, f, m) \/ c = Bare(Filled(d, ev, f, m))
<1> DEFINE f == FaultAfter(d, ev)
<1>1. RowsInv(d) /\ d.msgs \subseteq MessageRow /\ d.fids \in Nat /\ RowIds(d)
  BY DEF FaultsInv, RowsInv, Rows
<1>2. f \in FaultRow
  BY <1>1, FaultAfterFacts
<1>3. f.fid \in Nat /\ f.inc \in Nat
  BY <1>2 DEF FaultRow
<1>4. Applies(d, ev) => f.fid # 0
  <2> SUFFICES ASSUME Applies(d, ev) PROVE f.fid # 0
    OBVIOUS
  <2>1. /\ ev.key \in Keys
        /\ HasRow(d, ev.key) => f.fid = d.faults[ev.key].fid
        /\ ~HasRow(d, ev.key) => f.fid = d.fids + 1
    BY <1>1, AppliedRow
  <2>2. HasRow(d, ev.key) => 1 <= d.faults[ev.key].fid
    BY <1>1, <2>1 DEF RowIds
  <2> HIDE DEF f
  <2> QED BY <1>1, <1>3, <2>1, <2>2
<1> HIDE DEF f
<1>5. Backfilled(d, ev, f) = {Filled(d, ev, f, m) : m \in d.msgs}
  BY DEF Backfilled, Filled
<1>6. ASSUME NEW m \in d.msgs
      PROVE  /\ Filled(d, ev, f, m).id = m.id
             /\ Filled(d, ev, f, m).fid = 0 => Filled(d, ev, f, m) = m
             /\ \A c : c = m \/ c = Bare(m) =>
                  c = Filled(d, ev, f, m) \/ c = Bare(Filled(d, ev, f, m))
  <2>1. CASE Filled(d, ev, f, m) = m
    BY <2>1
  <2>2. CASE Filled(d, ev, f, m) # m
    <3> DEFINE n == [m EXCEPT !.fid = f.fid, !.inc = f.inc]
    <3>1. Applies(d, ev) /\ m.fid = 0 /\ Filled(d, ev, f, m) = n
      BY <2>2 DEF Filled
    <3>2. m.inc = 0
      BY <3>1 DEF MsgInv, Unowned
    <3>3. Bare(m) = m /\ Bare(n) = Bare(m) /\ n.id = m.id /\ n.fid = f.fid
      <4> DEFINE a == f.fid
                 b == f.inc
      <4>1. m \in MessageRow /\ a \in Nat /\ b \in Nat /\ n = [m EXCEPT !.fid = a, !.inc = b]
        BY <1>1, <1>3
      <4> HIDE DEF a, b, n
      <4>2. Bare(m) = m
        BY <3>1, <3>2, <4>1 DEF Bare, MessageRow
      <4>3. Bare(n) = Bare(m) /\ n.id = m.id /\ n.fid = a
        BY <4>1 DEF Bare, MessageRow
      <4> QED BY <4>2, <4>3 DEF a
    <3> HIDE DEF n
    <3> QED BY <1>4, <3>1, <3>3
  <2> QED BY <2>1, <2>2
<1> QED BY <1>5, <1>6 DEF f

\* applyEventTx with an id no message has.
LEMMA ApplyMsgs ==
  ASSUME NEW d, FaultsInv(d), MsgInv(d), NEW ev, Admissible(d, ev), NEW ooo \in BOOLEAN,
         NEW t \in Nat, \A m \in d.msgs : m.id # ev.id, ev.id <= HubSeqBase + d.hubSeq
  PROVE  MsgInv(ApplyEvent(d, ev, ooo, t))
<1> DEFINE f == FaultAfter(d, ev)
           r == ApplyEvent(d, ev, ooo, t)
           m == NewMessage(d, ev, f, ooo, t)
           B(n) == Filled(d, ev, f, n)
<1>1. /\ RowsInv(d) /\ d \in Rows /\ RowIds(d) /\ CopiesTrue(d) /\ MessageIds(d) /\ Unowned(d)
      /\ d.hApplied \in [SourceIds -> Nat] /\ d.fids \in Nat
  BY DEF FaultsInv, RowsInv, MsgInv, Rows
<1>2. /\ r.msgs = Backfilled(d, ev, f) \cup {m}
      /\ r.cMsgs = {n \in d.cMsgs : n.id # m.id} \cup {m}
      /\ r.hubSeq = d.hubSeq
      /\ r.hApplied = IF ev.id \in SourceIds
                      THEN [d.hApplied EXCEPT ![ev.id] = d.hApplied[ev.id] + 1] ELSE d.hApplied
  BY DEF ApplyEvent, MessageChange
<1>3. /\ Backfilled(d, ev, f) = {B(n) : n \in d.msgs}
      /\ \A n \in d.msgs : /\ B(n).id = n.id
                           /\ B(n).fid = 0 => B(n) = n
                           /\ \A c : c = n \/ c = Bare(n) => c = B(n) \/ c = Bare(B(n))
  BY FilledFacts
<1>4. m.id = ev.id /\ (m.fid = 0 => m.inc = 0)
  <2>1. m.id = ev.id /\ m.fid = f.fid /\ m.inc = IF Applies(d, ev) THEN f.inc ELSE 0
    BY DEF NewMessage
  <2>2. CASE Applies(d, ev)
    <3>1. /\ ev.key \in Keys /\ f \in FaultRow
          /\ HasRow(d, ev.key) => f.fid = d.faults[ev.key].fid
          /\ ~HasRow(d, ev.key) => f.fid = d.fids + 1
      BY <1>1, <2>2, AppliedRow
    <3>2. HasRow(d, ev.key) => 1 <= d.faults[ev.key].fid
      BY <1>1, <3>1 DEF RowIds
    <3>3. f.fid \in Nat
      BY <3>1 DEF FaultRow
    <3> HIDE DEF f, m
    <3> QED BY <1>1, <2>1, <3>1, <3>2, <3>3
  <2>3. CASE ~Applies(d, ev)
    BY <2>1, <2>3
  <2> QED BY <2>2, <2>3
<1> HIDE DEF f, r, m, B
<1>5. \A x \in r.msgs : x = m \/ \E n \in d.msgs : x = B(n)
  BY <1>2, <1>3
<1>6. \A n \in d.msgs : B(n) \in r.msgs /\ B(n).id # m.id
  BY <1>2, <1>3, <1>4
<1>7. Unowned(r)
  BY <1>1, <1>3, <1>4, <1>5 DEF Unowned
<1>8. MessageIds(r)
  <2>1. \A x, y \in r.msgs : x.id = y.id => x = y
    BY <1>1, <1>3, <1>5, <1>6 DEF MessageIds
  <2>2. \A x \in r.msgs : x.id <= HubSeqBase + r.hubSeq
    BY <1>1, <1>2, <1>3, <1>4, <1>5 DEF MessageIds
  <2>3. \A i \in SourceIds : d.hApplied[i] # 0 \/ i = ev.id => r.hApplied[i] # 0
    BY <1>1, <1>2
  <2>4. \A x \in r.msgs : x.id \in SourceIds => r.hApplied[x.id] # 0
    BY <1>1, <1>3, <1>4, <1>5, <2>3 DEF MessageIds
  <2> QED BY <2>1, <2>2, <2>4 DEF MessageIds
<1>9. CopiesTrue(r)
  <2>1. \A c \in r.cMsgs : c = m \/ (c \in d.cMsgs /\ c.id # m.id)
    BY <1>2
  <2>2. ASSUME NEW c \in r.cMsgs PROVE \E x \in r.msgs : x.id = c.id
    <3>1. CASE c = m
      BY <1>2, <3>1
    <3>2. CASE c \in d.cMsgs
      <4>1. PICK n \in d.msgs : n.id = c.id
        BY <1>1, <3>2 DEF CopiesTrue
      <4> QED BY <1>3, <1>6, <4>1
    <3> QED BY <2>1, <2>2, <3>1, <3>2
  <2>3. ASSUME NEW x \in r.msgs PROVE \E c \in r.cMsgs : c.id = x.id
    <3>1. CASE x = m
      <4>1. m \in r.cMsgs
        BY <1>2
      <4> QED BY <3>1, <4>1
    <3>2. CASE x # m
      <4>1. PICK n \in d.msgs : x = B(n)
        BY <1>5, <2>3, <3>2
      <4>2. PICK c \in d.cMsgs : c.id = n.id
        BY <1>1 DEF CopiesTrue
      <4>3. c.id # m.id /\ x.id = n.id
        BY <1>3, <1>4, <4>1, <4>2
      <4>4. c \in r.cMsgs
        BY <1>2, <4>2, <4>3
      <4> QED BY <4>2, <4>3, <4>4
    <3> QED BY <3>1, <3>2
  <2>4. ASSUME NEW c \in r.cMsgs, NEW x \in r.msgs, c.id = x.id PROVE c = x \/ c = Bare(x)
    <3>1. CASE c = m
      BY <1>2, <1>8, <2>4, <3>1 DEF MessageIds
    <3>2. CASE c \in d.cMsgs /\ c.id # m.id
      <4>1. PICK n \in d.msgs : x = B(n)
        BY <1>5, <2>4, <3>2
      <4>2. c = n \/ c = Bare(n)
        BY <1>1, <1>3, <2>4, <3>2, <4>1 DEF CopiesTrue
      <4> QED BY <1>3, <4>1, <4>2
    <3> QED BY <2>1, <2>4, <3>1, <3>2
  <2> QED BY <2>2, <2>3, <2>4 DEF CopiesTrue
<1> QED BY <1>7, <1>8, <1>9 DEF MsgInv, r

\* Steps that touch no message and forget no applied event.
LEMMA MsgsCarry ==
  ASSUME NEW d, MsgInv(d), NEW e, e.msgs = d.msgs, e.cMsgs = d.cMsgs,
         e.hApplied = d.hApplied, d.hubSeq \in Nat, e.hubSeq \in Nat, d.hubSeq <= e.hubSeq,
         d.msgs \subseteq MessageRow
  PROVE  MsgInv(e)
<1>1. CopiesTrue(e) /\ Unowned(e)
  BY DEF MsgInv, CopiesTrue, Unowned
<1>2. \A m \in d.msgs : m.id \in Nat
  BY DEF MessageRow
<1>3. MessageIds(e)
  BY <1>2, ConstantsOK DEF MsgInv, MessageIds
<1> QED BY <1>1, <1>3 DEF MsgInv

LEMMA EmitMsgs ==
  ASSUME NEW d, FaultsInv(d), MsgInv(d), NEW k \in Keys,
         NEW a \in {"open", "update", "resolve"},
         NEW v \in Nat, NEW o \in Nat, NEW t \in Nat,
         a = "resolve" => FaultOpen(d, k)
  PROVE  MsgInv(EmitHubEvent(d, k, a, v, o, t))
<1> DEFINE e == Numbered(d)
           ev == HubEvent(d, k, a, v, o)
           r == ApplyEvent(e, ev, FALSE, t)
<1>0. RowsInv(d) /\ d \in Rows /\ d.hubSeq \in Nat /\ HubSeqBase \in Nat /\ d.msgs \subseteq MessageRow
  BY ConstantsOK DEF FaultsInv, RowsInv, Rows
<1>1. RowsInv(e) /\ Admissible(e, ev)
  BY <1>0, EmitIsApply, Zenon
<1>2. EmitHubEvent(d, k, a, v, o, t) = r
  BY DEF EmitHubEvent, Numbered, HubEvent
<1>3. FALSE \in BOOLEAN
  OBVIOUS
<1>4. /\ e.faults = d.faults /\ e.fids = d.fids /\ e.cFaults = d.cFaults /\ e.notes = d.notes
      /\ e.msgs = d.msgs /\ e.cMsgs = d.cMsgs /\ e.hApplied = d.hApplied
      /\ e.hubSeq = d.hubSeq + 1
  BY <1>0 DEF Numbered, Rows
<1>5. ev.id = HubSeqBase + d.hubSeq + 1
  BY DEF HubEvent
<1> HIDE DEF e, ev, r
<1>6. FaultsInv(e)
  BY <1>1, <1>4, FaultsCarry
<1>7. MsgInv(e)
  <2>1. e.hubSeq \in Nat /\ d.hubSeq <= e.hubSeq
    BY <1>0, <1>4
  <2> QED BY <1>0, <1>4, <2>1, MsgsCarry
<1>8. \A m \in e.msgs : m.id # ev.id
  <2>1. \A m \in d.msgs : m.id \in Nat /\ m.id <= HubSeqBase + d.hubSeq
    BY <1>0 DEF MsgInv, MessageIds, MessageRow
  <2> QED BY <1>0, <1>4, <1>5, <2>1
<1>9. ev.id <= HubSeqBase + e.hubSeq
  BY <1>0, <1>4, <1>5
<1>10. MsgInv(r)
  BY <1>1, <1>3, <1>6, <1>7, <1>8, <1>9, ApplyMsgs, Zenon DEF r
<1> QED BY <1>2, <1>10, Zenon

LEMMA TouchMsgs ==
  ASSUME NEW d, FaultsInv(d), MsgInv(d), NEW at \in Nat, NEW t \in Nat
  PROVE  MsgInv(TouchSeen(d, at, t))
<1> DEFINE e == [d EXCEPT !.seen = at]
<1>0. RowsInv(d) /\ d \in Rows /\ d.hubSeq \in Nat /\ d.msgs \subseteq MessageRow
  BY DEF FaultsInv, RowsInv, Rows
<1>1. e \in Rows
  BY <1>0, Zenon DEF Rows
<1>2. /\ e.faults = d.faults /\ e.pend = d.pend /\ e.hubSeq = d.hubSeq
      /\ e.fids = d.fids /\ e.cFaults = d.cFaults /\ e.notes = d.notes
      /\ e.msgs = d.msgs /\ e.cMsgs = d.cMsgs /\ e.hApplied = d.hApplied
  BY <1>0 DEF Rows
<1>3. TouchSeen(d, at, t) = IF FaultOpen(e, Heartbeat)
                            THEN EmitHubEvent(e, Heartbeat, "resolve", 0, at, t) ELSE e
  BY DEF TouchSeen
<1> HIDE DEF e
<1>4. RowsInv(e)
  BY <1>0, <1>1, <1>2 DEF RowsInv, PendingHonoured, RoundsOrdered, HubResolvesApply,
                    OpenedByPast, FaultOpen
<1>5. FaultsInv(e)
  BY <1>2, <1>4, FaultsCarry
<1>6. MsgInv(e)
  <2>1. d.hubSeq <= e.hubSeq
    BY <1>0, <1>2
  <2> QED BY <1>0, <1>2, <2>1, MsgsCarry
<1> QED BY <1>3, <1>5, <1>6, EmitMsgs, ConstantsOK

LEMMA IngestMsgs ==
  ASSUME NEW d, FaultsInv(d), MsgInv(d), NEW ev \in SourceEvents, NEW t \in Nat,
         d.hApplied[ev.id] = 0
  PROVE  MsgInv(IngestEvent(d, ev, t))
<1> DEFINE late == ev.seq <= d.lastSeq
           e == ApplyEvent(d, ev, late, t)
           x == IF ev.seq > e.lastSeq THEN ev.seq ELSE e.lastSeq
           r == IngestEvent(d, ev, t)
<1>0. RowsInv(d) /\ d.hubSeq \in Nat
  BY DEF FaultsInv, RowsInv, Rows
<1>1. late \in BOOLEAN
  OBVIOUS
<1>2. Admissible(d, ev)
  BY <1>0, SourceAdmissible
<1>3. ev.id \in SourceIds /\ ev.id <= HubSeqBase + d.hubSeq
  BY <1>0, ConstantsOK DEF SourceIds, EventType
<1>4. \A m \in d.msgs : m.id # ev.id
  BY <1>3 DEF MsgInv, MessageIds
<1> HIDE DEF late
<1>5. FaultsInv(e)
  BY <1>1, <1>2, ApplyFaults, Zenon
<1>6. MsgInv(e)
  BY <1>1, <1>2, <1>3, <1>4, ApplyMsgs, Zenon
<1>7. r = [e EXCEPT !.lastSeq = x]
  BY DEF IngestEvent, late
<1> HIDE DEF e, x, r
<1>8. e \in Rows /\ e.hubSeq \in Nat /\ e.msgs \subseteq MessageRow /\ e.hubSeq <= e.hubSeq
  BY <1>5 DEF FaultsInv, RowsInv, Rows
<1>9. r.msgs = e.msgs /\ r.cMsgs = e.cMsgs /\ r.hApplied = e.hApplied /\ r.hubSeq = e.hubSeq
  BY <1>7, <1>8 DEF Rows
<1> QED BY <1>6, <1>8, <1>9, MsgsCarry DEF r

\* setMessageRead and handleMessagesReadAll: every message gets a change of its own.
LEMMA ReadMsgs ==
  ASSUME NEW d, RowsInv(d), MsgInv(d), NEW M \in SUBSET d.msgs, NEW b \in BOOLEAN
  PROVE  MsgInv(WithRead(d, M, b))
<1> DEFINE r == WithRead(d, M, b)
           R(m) == [m EXCEPT !.read = b]
           G == {R(m) : m \in M}
<1>1. d \in Rows /\ d.msgs \subseteq MessageRow /\ CopiesTrue(d) /\ MessageIds(d) /\ Unowned(d)
  BY DEF RowsInv, Rows, MsgInv
<1>2. /\ r.msgs = (d.msgs \ M) \cup G
      /\ r.cMsgs = {c \in d.cMsgs : \A m \in M : m.id # c.id} \cup G
      /\ r.hubSeq = d.hubSeq /\ r.hApplied = d.hApplied
  BY <1>1 DEF WithRead, Rows
<1>3. \A m \in M : R(m).id = m.id /\ R(m).fid = m.fid /\ R(m).inc = m.inc
  BY <1>1 DEF MessageRow
<1>4. \A m \in M : R(m) \in G
  OBVIOUS
<1>5. \A g \in G : \E m \in M : g = R(m)
  OBVIOUS
<1> HIDE DEF r, R, G
<1>6. Unowned(r)
  BY <1>1, <1>2, <1>3, <1>5 DEF Unowned
<1>7. MessageIds(r)
  <2>1. \A x, y \in r.msgs : x.id = y.id => x = y
    BY <1>1, <1>2, <1>3, <1>5 DEF MessageIds
  <2>2. \A x \in r.msgs : x.id <= HubSeqBase + r.hubSeq /\ (x.id \in SourceIds => r.hApplied[x.id] # 0)
    BY <1>1, <1>2, <1>3, <1>5 DEF MessageIds
  <2> QED BY <2>1, <2>2 DEF MessageIds
<1>8. CopiesTrue(r)
  <2>1. ASSUME NEW c \in r.cMsgs PROVE \E x \in r.msgs : x.id = c.id
    <3>1. CASE c \in G
      BY <1>2, <3>1
    <3>2. CASE c \in d.cMsgs /\ \A m \in M : m.id # c.id
      <4>1. PICK n \in d.msgs : n.id = c.id
        BY <1>1, <3>2 DEF CopiesTrue
      <4> QED BY <1>2, <3>2, <4>1
    <3> QED BY <1>2, <2>1, <3>1, <3>2
  <2>2. ASSUME NEW x \in r.msgs PROVE \E c \in r.cMsgs : c.id = x.id
    <3>1. CASE x \in G
      BY <1>2, <3>1
    <3>2. CASE x \in d.msgs \ M
      <4>1. PICK c \in d.cMsgs : c.id = x.id
        BY <1>1, <3>2 DEF CopiesTrue
      <4>2. \A m \in M : m.id # c.id
        BY <1>1, <3>2, <4>1 DEF MessageIds
      <4>3. c \in r.cMsgs
        BY <1>2, <4>1, <4>2
      <4> QED BY <4>1, <4>3
    <3> QED BY <1>2, <2>2, <3>1, <3>2
  <2>3. ASSUME NEW c \in r.cMsgs, NEW x \in r.msgs, c.id = x.id PROVE c = x \/ c = Bare(x)
    <3>1. CASE c \in G
      BY <1>2, <1>7, <2>3, <3>1 DEF MessageIds
    <3>2. CASE c \in d.cMsgs /\ \A m \in M : m.id # c.id
      <4>1. x \notin G
        BY <1>3, <1>5, <2>3, <3>2
      <4>2. x \in d.msgs
        BY <1>2, <2>3, <4>1
      <4> QED BY <1>1, <2>3, <3>2, <4>2 DEF CopiesTrue
    <3> QED BY <1>2, <2>3, <3>1, <3>2
  <2> QED BY <2>1, <2>2, <2>3 DEF CopiesTrue
<1> QED BY <1>6, <1>7, <1>8 DEF MsgInv, r

\* runRetention: a tombstone for every message it deletes, and for no other.
LEMMA RetentionMsgs ==
  ASSUME NEW d, RowsInv(d), MsgInv(d)
  PROVE  MsgInv(Retained(d))
<1> DEFINE X == {k \in Keys : d.faults[k].state = "resolved" /\ Old(d.faults[k].resolvedAt)}
           fids == {d.faults[k].fid : k \in X}
           gone(m) == m.fid \in fids \/ (m.fid = 0 /\ Old(m.recv))
           lost == {n \in d.msgs : gone(n)}
           tombs == {m.id : m \in lost}
           r == Retained(d)
<1>1. d \in Rows /\ CopiesTrue(d) /\ MessageIds(d) /\ Unowned(d)
  BY DEF RowsInv, MsgInv
<1>2. /\ r.msgs = {m \in d.msgs : ~gone(m)}
      /\ r.cMsgs = {m \in d.cMsgs : m.id \notin tombs}
      /\ r.hubSeq = d.hubSeq /\ r.hApplied = d.hApplied
  BY <1>1 DEF Retained, Rows
<1>3. r.msgs = d.msgs \ lost
  BY <1>2
<1>4. \A m \in d.msgs : m \in lost <=> m.id \in tombs
  BY <1>1 DEF MessageIds
<1> HIDE DEF lost, tombs, r
<1>5. Unowned(r) /\ MessageIds(r)
  BY <1>1, <1>2, <1>3 DEF Unowned, MessageIds
<1>6. \A c \in r.cMsgs, x \in r.msgs : c.id = x.id => c = x \/ c = Bare(x)
  BY <1>1, <1>2, <1>3 DEF CopiesTrue
<1>7. ASSUME NEW c \in r.cMsgs PROVE \E x \in r.msgs : x.id = c.id
  <2>1. PICK n \in d.msgs : n.id = c.id
    BY <1>1, <1>2, <1>7 DEF CopiesTrue
  <2> QED BY <1>2, <1>3, <1>4, <1>7, <2>1
<1>8. ASSUME NEW x \in r.msgs PROVE \E c \in r.cMsgs : c.id = x.id
  <2>1. PICK c \in d.cMsgs : c.id = x.id
    BY <1>1, <1>3, <1>8 DEF CopiesTrue
  <2> QED BY <1>2, <1>3, <1>4, <1>8, <2>1
<1>9. CopiesTrue(r)
  BY <1>6, <1>7, <1>8 DEF CopiesTrue
<1> QED BY <1>5, <1>9 DEF MsgInv, r

\* Deduplication is what makes a message's id its own, so it is part of the invariant.
MInv == FInv /\ DedupInv /\ MsgInv(db) /\ MsgInv(work)

LEMMA InitMInv == Init => MInv
<1> SUFFICES ASSUME Init PROVE MInv
  OBVIOUS
<1>1. FInv /\ DedupInv
  BY InitFInv, InitDedup
<1>2. EmptyRows.msgs = {} /\ EmptyRows.cMsgs = {}
  BY DEF EmptyRows
<1>3. MsgInv(EmptyRows)
  BY <1>2 DEF MsgInv, CopiesTrue, MessageIds, Unowned
<1> QED BY <1>1, <1>3, Zenon DEF MInv, Init

LEMMA NextMInv ==
  ASSUME Window <= Retention, MInv, [Next]_vars
  PROVE  MInv'
<1>1. /\ FInv' /\ DedupInv'
      /\ FaultsInv(db) /\ FaultsInv(work) /\ MsgInv(db) /\ MsgInv(work)
      /\ RowsInv(db) /\ now \in Nat /\ DedupInv
  BY NextFInv, NextDedup DEF MInv, FInv, IInv
<1> SUFFICES MsgInv(db') /\ MsgInv(work')
  BY <1>1 DEF MInv
<1>2. ASSUME NEW d, MsgInv(d), Transact(d) PROVE MsgInv(db') /\ MsgInv(work')
  BY <1>2 DEF Transact
<1>3. ASSUME NEW B \in Requests, NEW at \in 1..now, BeginIngest(B, at)
      PROVE  MsgInv(db') /\ MsgInv(work')
  <2>1. at \in Nat
    BY <1>1
  <2>2. MsgInv(TouchSeen(db, at, now))
    BY <1>1, <2>1, TouchMsgs
  <2> QED BY <1>1, <1>3, <2>2 DEF BeginIngest
<1>4. ASSUME NEW e \in SourceEvents, ApplyNext(e)
      PROVE  MsgInv(db') /\ MsgInv(work')
  <2>1. work.hApplied[e.id] = 0
    BY <1>1, <1>4 DEF ApplyNext, DedupInv
  <2>2. MsgInv(IngestEvent(work, e, now))
    BY <1>1, <2>1, IngestMsgs
  <2> QED BY <1>1, <1>4, <2>2 DEF ApplyNext
<1>5. CASE Commit \/ Rollback \/ Tick \/ UNCHANGED vars
  BY <1>1, <1>5 DEF Commit, Rollback, Tick, vars
<1>6. CASE HeartbeatLost
  <2>1. MsgInv(EmitHubEvent(db, Heartbeat, "open", 2, now, now))
    BY <1>1, EmitMsgs, ConstantsOK
  <2> QED BY <1>2, <1>6, <2>1 DEF HeartbeatLost
<1>7. ASSUME NEW k \in Keys, NEW f, Transact(SetFlags(db, k, f))
      PROVE  MsgInv(db') /\ MsgInv(work')
  <2> DEFINE d == SetFlags(db, k, f)
  <2>1. /\ db \in Rows /\ db.hubSeq \in Nat /\ db.msgs \subseteq MessageRow
        /\ db.hubSeq <= db.hubSeq
    BY <1>1 DEF RowsInv, Rows
  <2>2. d.msgs = db.msgs /\ d.cMsgs = db.cMsgs /\ d.hApplied = db.hApplied /\ d.hubSeq = db.hubSeq
    BY <2>1 DEF SetFlags, Rows
  <2> HIDE DEF d
  <2>3. MsgInv(d)
    BY <1>1, <2>1, <2>2, MsgsCarry
  <2> QED BY <1>2, <1>7, <2>3 DEF d
<1>8. ASSUME NEW M \in SUBSET db.msgs, NEW b \in BOOLEAN, Transact(WithRead(db, M, b))
      PROVE  MsgInv(db') /\ MsgInv(work')
  <2>1. MsgInv(WithRead(db, M, b))
    BY <1>1, ReadMsgs
  <2> QED BY <1>2, <1>8, <2>1
<1>9. ASSUME NEW k \in Keys, FaultRead(k) \/ FaultMute(k) \/ FaultUnmute(k)
      PROVE  MsgInv(db') /\ MsgInv(work')
  BY <1>7, <1>9 DEF FaultRead, FaultMute, FaultUnmute
<1>10. ASSUME NEW m \in db.msgs, NEW r \in BOOLEAN, SetMessageRead(m, r)
       PROVE  MsgInv(db') /\ MsgInv(work')
  BY <1>8, <1>10 DEF SetMessageRead
<1>11. ASSUME NEW t \in 1..now, ReadAll(t)
       PROVE  MsgInv(db') /\ MsgInv(work')
  <2> DEFINE M == {m \in db.msgs : ~m.read /\ m.recv <= t}
  <2>1. Transact(WithRead(db, M, TRUE)) /\ M \in SUBSET db.msgs
    BY <1>11 DEF ReadAll
  <2> HIDE DEF M
  <2> QED BY <1>8, <2>1
<1>12. CASE RunRetention
  <2>1. MsgInv(Retained(db))
    BY <1>1, RetentionMsgs
  <2> QED BY <1>2, <1>12, <2>1 DEF RunRetention
<1>13. CASE Ingest
  BY <1>3, <1>4, <1>5, <1>13 DEF Ingest
<1>14. CASE Client
  BY <1>9, <1>10, <1>11, <1>14 DEF Client
<1> QED BY <1>5, <1>6, <1>12, <1>13, <1>14 DEF Next

\* The message changes of the log rebuild the message table, up to the adoption of step 5,
\* which writes none.  Event rows must be kept for the backfill window: an event applied
\* twice would put two messages under one id.
THEOREM MessageChangesComplete ==
  ASSUME Window <= Retention
  PROVE  Spec => []ClientMirrorsMessages
<1>1. MInv => ClientMirrorsMessages
  BY DEF MInv, MsgInv, CopiesTrue, Bare, ClientMirrorsMessages
<1>2. MInv /\ [Next]_vars => MInv'
  BY NextMInv
<1> QED BY <1>1, <1>2, InitMInv, PTL DEF Spec
=============================================================================
