----------------------------- MODULE HubIngest ------------------------------
(***************************************************************************)
(* One source's event traffic at the hub: POST /ingest/events as a write   *)
(* transaction that may fail at any point (hub/ingest.go), the heartbeat   *)
(* monitor's transaction (hub/rules.go), the client's read and mute flags  *)
(* (hub/api.go) and the retention job (hub/retention.go).  The source's    *)
(* events reach the hub in any order, in any grouping, any number of times *)
(* and at any later moment.                                                *)
(***************************************************************************)
EXTENDS FaultMachine

CONSTANTS
  Window,       \* maxBackfillAge: an older occurredAt is rejected
  Retention,    \* cfg.messagesDays
  HbTimeout,    \* settings.heartbeat_seconds
  MaxBatch,     \* bound: events in one request
  Readable,     \* bound: the messages the client ever marks, by id
  MaxWait,      \* bound: how long a request waits for the store's mutex
  MaxHub,       \* bound: hub events after which no heartbeat is lost any more
  MaxNow        \* bound: the clock

ASSUME TimesOK ==
  /\ Window \in Nat
  /\ Retention \in Nat
  /\ HbTimeout \in Nat
  /\ MaxWait \in Nat
  /\ MaxNow \in Nat
  /\ MaxHub \in Nat

VARIABLES
  db,     \* the committed rows
  work,   \* the rows as the running transaction sees them
  busy,   \* the store's mutex is held by an ingest transaction
  batch,  \* its valid events that are still to be applied
  now     \* the hub's clock; the source's clock agrees with it

vars == <<db, work, busy, batch, now>>

Init ==
  /\ db = EmptyRows
  /\ work = EmptyRows
  /\ busy = FALSE
  /\ batch = {}
  /\ now = 1      \* 0 stands for a NULL last_seen_at

-----------------------------------------------------------------------------
(* POST /api/v1/ingest/events                                              *)

\* validateEvent: the backfill window (the other checks are on the form).
InWindow(ev) == now <= ev.occ + Window

Known(d, ev) == \E r \in d.events : r.id = ev.id

\* The transaction starts: the source is seen, invalid and known events are put
\* aside.  An id repeated inside the request is one element of B.
BeginIngest(B, at) ==
  /\ ~busy
  /\ busy' = TRUE
  /\ work' = TouchSeen(db, at, now)
  /\ batch' = {e \in B : InWindow(e) /\ ~Known(db, e)}
  /\ UNCHANGED <<db, now>>

\* sort.Slice(valid, ...): the remaining event with the smallest seq is next.
ApplyNext(e) ==
  /\ busy
  /\ e \in batch
  /\ \A f \in batch : e.seq <= f.seq
  /\ work' = IngestEvent(work, e, now)
  /\ batch' = batch \ {e}
  /\ UNCHANGED <<db, busy, now>>

Commit ==
  /\ busy
  /\ batch = {}
  /\ db' = work
  /\ busy' = FALSE
  /\ UNCHANGED <<work, batch, now>>

\* A statement fails, the request is cancelled or the hub dies: withTx rolls back.
Rollback ==
  /\ busy
  /\ work' = db
  /\ batch' = {}
  /\ busy' = FALSE
  /\ UNCHANGED <<db, now>>

-----------------------------------------------------------------------------
(* Transactions that are one step each.                                    *)

Transact(d) ==
  /\ ~busy
  /\ db' = d
  /\ work' = d
  /\ UNCHANGED <<busy, batch, now>>

\* checkHeartbeats, the conditions rechecked inside its transaction
HeartbeatLost ==
  /\ db.seen # 0
  /\ now > db.seen + HbTimeout
  /\ ~FaultOpen(db, Heartbeat)
  /\ db.hubSeq < MaxHub
  /\ Transact(EmitHubEvent(db, Heartbeat, "open", 2, now, now))

\* Mutant: the flag is stored and the change is not.
SetFlagsQuietly(d, k, f) == [d EXCEPT !.faults = [d.faults EXCEPT ![k] = f]]

\* updateFaultFlags; a flag already as asked is an early return.
SetFlags(d, k, f) ==
  [d EXCEPT !.faults = [d.faults EXCEPT ![k] = f], !.cFaults = FaultChange(d.cFaults, f)]

FaultRead(k) ==
  /\ HasRow(db, k) /\ ~db.faults[k].read
  /\ Transact(SetFlags(db, k, [db.faults[k] EXCEPT !.read = TRUE]))

FaultMute(k) ==
  /\ HasRow(db, k) /\ ~db.faults[k].muted
  /\ Transact(SetFlags(db, k, [db.faults[k] EXCEPT !.muted = TRUE]))

FaultUnmute(k) ==
  /\ HasRow(db, k) /\ db.faults[k].muted
  /\ Transact(SetFlags(db, k, [db.faults[k] EXCEPT !.muted = FALSE]))

\* Mutant: only the first message of the call gets a change.
WithReadFirst(d, M, r) ==
  LET flagged == {[m EXCEPT !.read = r] : m \in M}
      first   == {m \in flagged : \A k \in flagged : m.id <= k.id}
  IN  [d EXCEPT !.msgs = (d.msgs \ M) \cup flagged,
                !.cMsgs = {c \in d.cMsgs : \A m \in first : m.id # c.id} \cup first]

\* Messages rewritten with a read flag, one message change each.
WithRead(d, M, r) ==
  LET flagged == {[m EXCEPT !.read = r] : m \in M}
  IN  [d EXCEPT !.msgs = (d.msgs \ M) \cup flagged,
                !.cMsgs = {c \in d.cMsgs : \A m \in M : m.id # c.id} \cup flagged]

\* setMessageRead
SetMessageRead(m, r) ==
  /\ m.id \in Readable
  /\ m.read # r
  /\ Transact(WithRead(db, {m}, r))

\* handleMessagesReadAll
ReadAll(before) ==
  LET M == {m \in db.msgs : ~m.read /\ m.recv <= before}
  IN  /\ M # {}
      /\ \E m \in M : m.id \in Readable
      /\ Transact(WithRead(db, M, TRUE))

\* Mutant: rows that reach the retention period to the day are old.
OldOrEqual(t) == t + Retention <= now

Old(t) == t + Retention < now

\* Mutant: the job does not look at the state of a fault.
RetainedAnyState(d) ==
  LET expired == {k \in Keys : HasRow(d, k) /\ Old(d.faults[k].resolvedAt)}
      fids == {d.faults[k].fid : k \in expired}
      gone(m) == m.fid \in fids \/ (m.fid = 0 /\ Old(m.recv))
      tombs == {m.id : m \in {n \in d.msgs : gone(n)}}
  IN  [d EXCEPT
        !.events = {r \in d.events : ~Old(r.recv)},
        !.pend = {p \in d.pend : ~Old(p.occ) /\ p.key \notin expired},
        !.faults = [k \in Keys |-> IF k \in expired THEN NoFault ELSE d.faults[k]],
        !.msgs = {m \in d.msgs : ~gone(m)},
        !.cFaults = {f \in d.cFaults : f.fid \notin fids},
        !.cMsgs = {m \in d.cMsgs : m.id \notin tombs}]

\* runRetention on events, pending resolves, resolved faults with their messages,
\* and standalone messages; every deletion of a message or fault is a tombstone.
Retained(d) ==
  LET expired == {k \in Keys : /\ d.faults[k].state = "resolved"
                               /\ Old(d.faults[k].resolvedAt)}
      fids == {d.faults[k].fid : k \in expired}
      gone(m) == m.fid \in fids \/ (m.fid = 0 /\ Old(m.recv))
      tombs == {m.id : m \in {n \in d.msgs : gone(n)}}
  IN  [d EXCEPT
        !.events = {r \in d.events : ~Old(r.recv)},
        !.pend = {p \in d.pend : ~Old(p.occ) /\ p.key \notin expired},
        !.faults = [k \in Keys |-> IF k \in expired THEN NoFault ELSE d.faults[k]],
        !.msgs = {m \in d.msgs : ~gone(m)},
        !.cFaults = {f \in d.cFaults : f.fid \notin fids},
        !.cMsgs = {m \in d.cMsgs : m.id \notin tombs}]

RunRetention ==
  /\ Retained(db) # db
  /\ Transact(Retained(db))

Tick ==
  /\ now < MaxNow
  /\ now' = now + 1
  /\ UNCHANGED <<db, work, busy, batch>>

-----------------------------------------------------------------------------
\* What the source may have in flight: any events that have already happened.
Requests == {B \in SUBSET {e \in SourceEvents : e.occ <= now} : Cardinality(B) <= MaxBatch}

Ingest ==
  \/ \E B \in Requests, at \in 1..now : at + MaxWait >= now /\ BeginIngest(B, at)
  \/ \E e \in SourceEvents : ApplyNext(e)
  \/ Commit
  \/ Rollback

Client ==
  \/ \E k \in Keys : FaultRead(k) \/ FaultMute(k) \/ FaultUnmute(k)
  \/ \E m \in db.msgs, r \in BOOLEAN : SetMessageRead(m, r)
  \/ \E t \in 1..now : ReadAll(t)

Next == Ingest \/ HeartbeatLost \/ Client \/ RunRetention \/ Tick

Spec == Init /\ [][Next]_vars

-----------------------------------------------------------------------------
Rows ==
  [events : SUBSET [id : Nat, recv : Nat],
   faults : [Keys -> FaultRow],
   pend : SUBSET [key : Keys, seq : Nat, occ : Nat],
   msgs : SUBSET MessageRow,
   lastSeq : Nat, hubSeq : Nat, fids : Nat, seen : Nat,
   cFaults : SUBSET FaultRow, cMsgs : SUBSET MessageRow,
   notes : SUBSET [kind : {"new_message", "incident_open", "incident_update",
                           "incident_resolved"},
                   fid : Nat, inc : Nat, muted : BOOLEAN, id : Nat],
   hApplied : [SourceIds -> Nat],
   hRes : SUBSET [key : Keys, seq : Nat]]

\* Type invariant: the rows the hub keeps, committed and in the transaction.
TypeOK ==
  /\ db \in Rows /\ work \in Rows
  /\ busy \in BOOLEAN
  /\ batch \subseteq SourceEvents
  /\ now \in Nat

\* (source, eventId) deduplication holds across rollbacks, redelivery and the
\* retention job that deletes the event rows it rests on: no event is applied
\* twice (handleIngestEvents, runRetention; events.md section 3).
AppliedOnce == \A i \in SourceIds : db.hApplied[i] <= 1

\* An open round is never older than a pending resolve of its key, whatever the
\* order of delivery: a resolve on record is honoured by every later open
\* (findPendingResolve, applyEventTx).
PendingHonoured(d) ==
  \A k \in Keys : FaultOpen(d, k) =>
    \A p \in d.pend : p.key = k => p.seq <= d.faults[k].openedSeq
NoOpenUnderPending == PendingHonoured(db)

\* The round a fault row shows was opened before it was resolved, in the order of
\* the sequence numbers (applyEventTx, both ways to become resolved).
RoundsOrdered(d) ==
  \A k \in Keys : d.faults[k].state = "resolved" =>
    d.faults[k].openedSeq < d.faults[k].resolvedSeq
RoundOrder == RoundsOrdered(db)

\* Events the hub numbers itself are never out of order: none of its resolves
\* ends up as a pending resolve (emitHubEventTx, touchSourceSeenTx).
HubResolvesApply(d) == \A p \in d.pend : p.seq < HubSeqBase
HubEventsInOrder == HubResolvesApply(db)

\* A client that applied every change holds exactly the hub's fault rows
\* (insertChangeObj calls of applyEventTx, updateFaultFlags and runRetention).
ClientMirrorsFaults ==
  db.cFaults = {db.faults[k] : k \in {j \in Keys : HasRow(db, j)}}

\* A client that applied every change holds exactly the hub's messages, up to the
\* fault that a late open gave to messages before it, which is written without a
\* change (setMessageRead, handleMessagesReadAll, runRetention, step 5 of applyEventTx).
ClientMirrorsMessages ==
  /\ {c.id : c \in db.cMsgs} = {m.id : m \in db.msgs}
  /\ \A c \in db.cMsgs, m \in db.msgs : c.id = m.id =>
       c = m \/ c = [m EXCEPT !.fid = 0, !.inc = 0]

\* A round is announced by at most one incident_open notification.
OpenNotifiedOnce ==
  \A a, b \in db.notes :
    a.kind = "incident_open" /\ b.kind = "incident_open" /\ a.fid = b.fid /\ a.inc = b.inc
      => a = b

\* An open fault is never removed, whatever the retention period ("unresolved
\* faults are never cleaned up", retention.go).
OpenFaultNeverRemoved ==
  [][\A k \in Keys : FaultOpen(db, k) =>
       HasRow(db', k) /\ db'.faults[k].fid = db.faults[k].fid]_db

\* Mute is attached to the fault and survives its rounds: only an unmute call,
\* which applies no event, clears it (updateFaultFlags, the reopening branch).
MuteSurvivesRounds ==
  [][\A k \in Keys :
       (/\ HasRow(db, k) /\ db.faults[k].muted
        /\ HasRow(db', k) /\ db'.faults[k].fid = db.faults[k].fid
        /\ ~db'.faults[k].muted)
       => db'.notes = db.notes]_db

-----------------------------------------------------------------------------
(* What the contract promises and the code does not keep.                  *)

\* contracts/events.md section 3: an open whose seq is below a recorded resolve
\* does not produce a ghost open round.
NoGhostOpen ==
  \A k \in Keys : FaultOpen(db, k) =>
    \A r \in db.hRes : r.key = k => r.seq <= db.faults[k].openedSeq
=============================================================================
