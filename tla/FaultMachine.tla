---------------------------- MODULE FaultMachine ----------------------------
(***************************************************************************)
(* The fault state machine of the hub (hub/fault.go) for one source, as    *)
(* operators on the rows a write transaction works on.  A transaction is   *)
(* serialised by the store's mutex (hub/store.go withTx), so an operator   *)
(* takes the rows d before a call and returns the rows after it.           *)
(*                                                                         *)
(* d.events    rows of table events: [id, recv]                            *)
(* d.faults    row of table faults per fault key, or NoFault               *)
(* d.pend      rows of table pending_resolves: [key, seq, occ]             *)
(* d.msgs      rows of table messages                                      *)
(* d.lastSeq   sources.last_event_seq                                      *)
(* d.hubSeq    hub events numbered so far (meta hub_event_seq - base)      *)
(* d.fids      fault ids handed out so far (newID is fresh every time)     *)
(* d.seen      sources.last_seen_at, a time                                *)
(* The change log (table changes) is kept as what a client that applied    *)
(* every change in order holds: d.cFaults and d.cMsgs, and as the set      *)
(* d.notes of the notify blocks the message changes carried.  Delivery of  *)
(* the log to clients is the subject of module ChangeStream.               *)
(* History only, read by no guard: d.hApplied counts how often each source *)
(* event was applied, d.hRes are the resolves applied so far.              *)
(*                                                                         *)
(* Titles, bodies, references and attachments of an event are left out.    *)
(***************************************************************************)
EXTENDS Integers, FiniteSets

CONSTANTS
  Keys,         \* the fault keys in use, Heartbeat among them
  Heartbeat,    \* the key of the heartbeat fault
  SourceEvents, \* every event the source ever produces
  HubSeqBase    \* hubSeqBase: hub events are numbered from here

NoKey == "-"    \* a standalone message has no fault key

\* An event as it reaches the hub; ids and seqs of hub events are >= HubSeqBase.
EventType ==
  [id : Nat, seq : Nat, key : Keys \cup {NoKey},
   action : {"open", "update", "resolve", "none"}, sev : Nat, occ : Nat]

\* What validateEvent and the source's own numbering guarantee: keys and actions
\* go together, ids and sequence numbers are unique and below the hub's range.
ASSUME ConstantsOK ==
  /\ Heartbeat \in Keys
  /\ NoKey \notin Keys
  /\ HubSeqBase \in Nat
  /\ SourceEvents \subseteq EventType
  /\ \A e \in SourceEvents :
       /\ e.id < HubSeqBase
       /\ e.seq < HubSeqBase
       /\ e.key = NoKey <=> e.action = "none"
  /\ \A e, f \in SourceEvents : e.id = f.id \/ e.seq = f.seq => e = f

SourceIds == {e.id : e \in SourceEvents}

\* state "none" stands for the absence of a row.
FaultRow ==
  [fid : Nat, state : {"none", "open", "resolved"}, inc : Nat, openedSeq : Nat,
   resolvedSeq : Nat, resolvedAt : Nat, lastAt : Nat, sev : Nat, count : Nat,
   read : BOOLEAN, muted : BOOLEAN]

NoFault ==
  [fid |-> 0, state |-> "none", inc |-> 0, openedSeq |-> 0, resolvedSeq |-> 0,
   resolvedAt |-> 0, lastAt |-> 0, sev |-> 0, count |-> 0, read |-> FALSE,
   muted |-> FALSE]

\* fid = 0 stands for a NULL fault_id, inc = 0 for a NULL incident.
MessageRow ==
  [id : Nat, seq : Nat, key : Keys \cup {NoKey}, fid : Nat, inc : Nat,
   recv : Nat, read : BOOLEAN, ooo : BOOLEAN]

EmptyRows ==
  [events |-> {}, faults |-> [k \in Keys |-> NoFault], pend |-> {}, msgs |-> {},
   lastSeq |-> 0, hubSeq |-> 0, fids |-> 0, seen |-> 0,
   cFaults |-> {}, cMsgs |-> {}, notes |-> {},
   hApplied |-> [i \in SourceIds |-> 0], hRes |-> {}]

-----------------------------------------------------------------------------
(* The change log.                                                         *)

\* insertChangeObj(tx, "fault", ...): the client replaces its copy by id.
FaultChange(c, f) == {g \in c : g.fid # f.fid} \cup {f}

\* insertChangeObj(tx, "message", ...)
MessageChange(c, m) == {n \in c : n.id # m.id} \cup {m}

-----------------------------------------------------------------------------
(* The state machine of one fault.                                         *)

\* Mutant: the comparison of the query reversed.
PendingBefore(d, k, s) == {p \in d.pend : p.key = k /\ p.seq < s}

\* findPendingResolve: pending resolves of the key beyond the sequence number.
PendingAfter(d, k, s) == {p \in d.pend : p.key = k /\ p.seq > s}

\* ... ORDER BY seq LIMIT 1
Earliest(P) == CHOOSE p \in P : \A q \in P : p.seq <= q.seq

\* newFaultRow
NewFault(d, ev) ==
  [fid |-> d.fids + 1, state |-> "open", inc |-> 1, openedSeq |-> ev.seq,
   resolvedSeq |-> 0, resolvedAt |-> 0, lastAt |-> ev.occ, sev |-> ev.sev,
   count |-> 1, read |-> FALSE, muted |-> FALSE]

\* A late open whose resolve is already on record is born resolved.
BornResolved(d, ev) ==
  LET p == Earliest(PendingAfter(d, ev.key, ev.seq))
  IN  [NewFault(d, ev) EXCEPT !.state = "resolved", !.resolvedSeq = p.seq,
                              !.resolvedAt = p.occ]

\* mergeFaultEvent
Merge(f, ev) ==
  [f EXCEPT !.count = f.count + 1,
            !.sev = IF ev.sev > f.sev THEN ev.sev ELSE f.sev,
            !.lastAt = IF ev.occ > f.lastAt THEN ev.occ ELSE f.lastAt]

\* Mutant: the row is rewritten as if new, its mute flag with it.
ReopenUnmuted(f, ev) ==
  [f EXCEPT !.inc = f.inc + 1, !.state = "open", !.sev = ev.sev, !.openedSeq = ev.seq,
            !.lastAt = ev.occ, !.resolvedSeq = 0, !.resolvedAt = 0, !.count = 1,
            !.read = FALSE, !.muted = FALSE]

\* The resolved row opens again for its next round; mute is kept, read is not.
Reopen(f, ev) ==
  [f EXCEPT !.inc = f.inc + 1, !.state = "open", !.sev = ev.sev, !.openedSeq = ev.seq,
            !.lastAt = ev.occ, !.resolvedSeq = 0, !.resolvedAt = 0, !.count = 1,
            !.read = FALSE]

\* The open round is closed by a resolve that lies beyond its opening.
Close(f, ev) ==
  [f EXCEPT !.state = "resolved", !.resolvedSeq = ev.seq, !.resolvedAt = ev.occ,
            !.lastAt = ev.occ, !.count = f.count + 1]

\* case "open", "update"
OnOpen(d, ev) ==
  LET f    == d.faults[ev.key]
      late == PendingAfter(d, ev.key, ev.seq) # {}
  IN  CASE f.state = "none" /\ late      -> BornResolved(d, ev)
        [] f.state = "none" /\ ~late     -> NewFault(d, ev)
        [] f.state = "open"              -> Merge(f, ev)
        [] f.state = "resolved" /\ late  -> Merge(f, ev)
        [] f.state = "resolved" /\ ~late -> Reopen(f, ev)

\* Mutant: any resolve closes the round that is open.
CoversAny(f, ev) == f.state = "open"

\* the condition of case "resolve"
Covers(f, ev) == f.state = "open" /\ f.openedSeq < ev.seq

\* The row of the event's key after the switch (NoFault for a standalone event).
FaultAfter(d, ev) ==
  CASE ev.action = "none"                -> NoFault
    [] ev.action \in {"open", "update"}  -> OnOpen(d, ev)
    [] ev.action = "resolve" ->
         IF Covers(d.faults[ev.key], ev) THEN Close(d.faults[ev.key], ev)
                                         ELSE d.faults[ev.key]

\* incidentApplied # nil, which is also faultChanged
Applies(d, ev) ==
  \/ ev.action \in {"open", "update"}
  \/ ev.action = "resolve" /\ Covers(d.faults[ev.key], ev)

\* Mutant: the kind follows the action, whatever the row was before.
NotifyKindByAction(d, ev) ==
  CASE ev.action = "resolve"            -> "incident_resolved"
    [] ev.action \in {"open", "update"} -> "incident_open"
    [] OTHER                            -> "new_message"

\* Mutant: no kind is set for an open that is merged into a resolved round.
NotifyKindUnset(d, ev) ==
  LET g == FaultAfter(d, ev)
      opens == Applies(d, ev) /\ ev.action # "resolve"
  IN  CASE ~Applies(d, ev)                           -> "new_message"
        [] Applies(d, ev) /\ ev.action = "resolve"   -> "incident_resolved"
        [] opens /\ g.state = "open"                 -> "incident_open"
        [] OTHER                                     -> ""

\* notifyKind of the message change
NotifyKind(d, ev) ==
  LET f == IF ev.key \in Keys THEN d.faults[ev.key] ELSE NoFault
      g == FaultAfter(d, ev)
      opens == Applies(d, ev) /\ ev.action # "resolve"
  IN  CASE Applies(d, ev) /\ ev.action = "resolve"             -> "incident_resolved"
        [] opens /\ f.state = "open"                           -> "incident_update"
        [] opens /\ f.state # "open" /\ g.state = "open"       -> "incident_open"
        [] OTHER                                               -> "new_message"

\* INSERT OR IGNORE INTO pending_resolves for a resolve that covers no open round
PendAfter(d, ev) ==
  IF ev.action = "resolve" /\ ~Applies(d, ev)
  THEN d.pend \cup {[key |-> ev.key, seq |-> ev.seq, occ |-> ev.occ]}
  ELSE d.pend

\* Step 5: a row left resolved adopts the unowned messages of its round.
Backfilled(d, ev, f) ==
  IF Applies(d, ev) /\ f.state = "resolved"
  THEN {IF m.key = ev.key /\ m.fid = 0 /\ m.seq >= f.openedSeq /\ m.seq <= f.resolvedSeq
        THEN [m EXCEPT !.fid = f.fid, !.inc = f.inc] ELSE m : m \in d.msgs}
  ELSE d.msgs

\* The message row of the event.
NewMessage(d, ev, f, ooo, now) ==
  [id |-> ev.id, seq |-> ev.seq, key |-> ev.key, fid |-> f.fid,
   inc |-> IF Applies(d, ev) THEN f.inc ELSE 0, recv |-> now, read |-> FALSE,
   ooo |-> ooo]

\* applyEventTx: event row, state machine, fault change and row, backfill (which
\* writes no change), message change and row.
ApplyEvent(d, ev, ooo, now) ==
  LET f == FaultAfter(d, ev)
      m == NewMessage(d, ev, f, ooo, now)
      changed == Applies(d, ev)
      resolve == ev.action = "resolve"
      mark == [key |-> ev.key, seq |-> ev.seq]
  IN  [events |-> d.events \cup {[id |-> ev.id, recv |-> now]},
       faults |-> IF changed THEN [d.faults EXCEPT ![ev.key] = f] ELSE d.faults,
       pend |-> PendAfter(d, ev),
       msgs |-> Backfilled(d, ev, f) \cup {m},
       lastSeq |-> d.lastSeq,
       hubSeq |-> d.hubSeq,
       fids |-> IF changed /\ f.fid > d.fids THEN f.fid ELSE d.fids,
       seen |-> d.seen,
       cFaults |-> IF changed THEN FaultChange(d.cFaults, f) ELSE d.cFaults,
       cMsgs |-> MessageChange(d.cMsgs, m),
       notes |-> d.notes \cup {[kind |-> NotifyKind(d, ev), fid |-> f.fid, inc |-> m.inc,
                                muted |-> f.muted, id |-> ev.id]},
       hApplied |-> IF ev.id \in SourceIds
                    THEN [d.hApplied EXCEPT ![ev.id] = d.hApplied[ev.id] + 1]
                    ELSE d.hApplied,
       hRes |-> IF resolve THEN d.hRes \cup {mark} ELSE d.hRes]

-----------------------------------------------------------------------------
(* Events the hub makes itself, and traffic from the source.               *)

\* Mutant: the sequence counter is read and not saved.
EmitHubEventUnsaved(d, key, action, sev, occ, now) ==
  LET s == HubSeqBase + d.hubSeq + 1
  IN  ApplyEvent(d, [id |-> s, seq |-> s, key |-> key, action |-> action,
                     sev |-> sev, occ |-> occ], FALSE, now)

\* emitHubEventTx with nextHubSeqTx: internal, never out of order.
EmitHubEvent(d, key, action, sev, occ, now) ==
  LET s == HubSeqBase + d.hubSeq + 1
  IN  ApplyEvent([d EXCEPT !.hubSeq = d.hubSeq + 1],
                 [id |-> s, seq |-> s, key |-> key, action |-> action,
                  sev |-> sev, occ |-> occ], FALSE, now)

\* loadFaultTx finds a row.
HasRow(d, k) == d.faults[k].state # "none"

\* isFaultOpen
FaultOpen(d, k) == d.faults[k].state = "open"

\* touchSourceSeenTx: any call of the source ends its heartbeat fault.
TouchSeen(d, at, now) ==
  LET e == [d EXCEPT !.seen = at]
  IN  IF FaultOpen(e, Heartbeat)
      THEN EmitHubEvent(e, Heartbeat, "resolve", 0, at, now)
      ELSE e

\* One valid event of an ingest batch, with the bookkeeping of handleIngestEvents.
IngestEvent(d, ev, now) ==
  LET e == ApplyEvent(d, ev, ev.seq <= d.lastSeq, now)
  IN  [e EXCEPT !.lastSeq = IF ev.seq > e.lastSeq THEN ev.seq ELSE e.lastSeq]
=============================================================================
