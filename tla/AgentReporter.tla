--------------------------- MODULE AgentReporter ----------------------------
(***************************************************************************)
(* The agent's persistent queue (agent/internal/queue/queue.go) and its    *)
(* reporter (agent/internal/report/reporter.go): the collect loop puts     *)
(* metric batches into the queue, the drain loop posts them to the hub and *)
(* deletes what was acknowledged, both as goroutines on one SQLite         *)
(* connection, so that single statements and transactions interleave.  The *)
(* hub is what hub/ingest.go does with a metrics seq; it may be down, its  *)
(* answer may be lost, it may refuse the key.  The agent may crash and be  *)
(* started again.  A batch is its seq; row ids grow with it.               *)
(***************************************************************************)
EXTENDS Integers, FiniteSets, FiniteSetsExt

CONSTANTS
  MaxBatch,    \* capacity of metrics_q (500)
  MaxEvents,   \* capacity of events_q (1000)
  MaxReplay,   \* batches a replay keeps (100)
  MaxSend,     \* events in one request (100)
  Poison,      \* the batches the hub answers with 400 or 413, by seq
  MaxSeq,      \* bound: batches collected
  MaxCrash,    \* bound: crashes and stops of the agent
  MaxFail      \* bound: changes of the hub's state and lost answers

ASSUME AgentOK ==
  /\ {MaxBatch, MaxEvents, MaxReplay, MaxSend, MaxSeq, MaxCrash, MaxFail} \subseteq Nat
  /\ MaxBatch > 0 /\ MaxReplay > 0 /\ MaxSend > 0

VARIABLES
  mseq, eseq,   \* meta: the counters of the two streams
  mq,           \* metrics_q: seqs
  eq,           \* events_q: [seq, kind, n]
  ovf,          \* table overflow: dropped per kind, 0 for no row
  pc,           \* the drain loop
  part,         \* flushOverflowEvents: the kind it is at
  hand,         \* what the drain loop holds in memory for its next statement
  unauth,       \* unauthorized
  stopping,     \* ctx is cancelled: finalFlush is running
  hub,          \* up, down (5xx, 403, no route) or unauth (401)
  hubSeq,       \* sources.last_metrics_seq
  hubHas,       \* the batches the hub applied
  crashes, fails,
  enq, dropped, poisoned, reported   \* history: see below

queueVars == <<mseq, eseq, mq, eq, ovf>>
hubVars == <<hub, hubSeq, hubHas>>
countVars == <<crashes, fails>>
histVars == <<enq, dropped, poisoned, reported>>
vars == <<mseq, eseq, mq, eq, ovf, pc, part, hand, unauth, stopping, hub, hubSeq, hubHas,
          crashes, fails, enq, dropped, poisoned, reported>>

\* hand: nothing, the overflow record read, rows sent, or a report to write.
Nothing == [kind |-> "none", n |-> 0, rows |-> {}]

Init ==
  /\ mseq = 0 /\ eseq = 0 /\ mq = {} /\ eq = {}
  /\ ovf = [metrics |-> 0, events |-> 0]
  /\ pc = "dead" /\ part = "metrics" /\ hand = Nothing
  /\ unauth = FALSE /\ stopping = FALSE
  /\ hub \in {"up", "down", "unauth"} /\ hubSeq = 0 /\ hubHas = {}
  /\ crashes = 0 /\ fails = 0
  /\ enq = {} /\ dropped = {} /\ poisoned = {} /\ reported = 0

-----------------------------------------------------------------------------
(* Queue.                                                                  *)

\* ORDER BY id ASC LIMIT k
Oldest(S, k) == {s \in S : Cardinality({t \in S : t < s}) < k}
OldestRows(S, k) == {r \in S : Cardinality({t \in S : t.seq < r.seq}) < k}

Excess(S, max) == IF Cardinality(S) > max THEN Cardinality(S) - max ELSE 0

\* EnqueueMetrics: one transaction, the oldest rows make room and are counted.
EnqueueMetrics(s) ==
  LET all  == mq \cup {s}
      gone == Oldest(all, Excess(all, MaxBatch))
  IN  /\ mq' = all \ gone
      /\ ovf' = [ovf EXCEPT !.metrics = @ + Cardinality(gone)]
      /\ dropped' = dropped \cup gone

\* EnqueueEvent, the same for events
EnqueueEvent(r) ==
  LET all  == eq \cup {r}
      gone == OldestRows(all, Excess(all, MaxEvents))
  IN  /\ eq' = all \ gone
      /\ ovf' = [ovf EXCEPT !.events = @ + Cardinality(gone)]

\* EnqueueEventNoTrim with its NextEventSeq
EnqueueEventNoTrim(kind, k) ==
  /\ eseq' = eseq + 1
  /\ eq' = eq \cup {[seq |-> eseq + 1, kind |-> kind, n |-> k]}

-----------------------------------------------------------------------------
(* The collect loop.                                                       *)

Running == pc # "dead"

\* collectOnce; one that is under way when the agent stops may still finish.
Collect ==
  /\ Running /\ mseq < MaxSeq
  /\ mseq' = mseq + 1
  /\ EnqueueMetrics(mseq + 1)
  /\ enq' = enq \cup {mseq + 1}
  /\ UNCHANGED <<eseq, eq, pc, part, hand, unauth, stopping, hubVars, countVars, poisoned,
                 reported>>

\* collectOnce fails after NextMetricsSeq: the number is burned.
CollectFails ==
  /\ Running /\ mseq < MaxSeq
  /\ mseq' = mseq + 1
  /\ UNCHANGED <<eseq, mq, eq, ovf, pc, part, hand, unauth, stopping, hubVars, countVars,
                 histVars>>

-----------------------------------------------------------------------------
(* The drain loop.                                                         *)

\* Where the loop goes when drainOnce returns: the end of a finalFlush is the end.
Return(to) == IF stopping THEN "dead" ELSE to

\* anyPending: with an empty queue the loop blocks on wake.
Turn ==
  /\ pc = "idle" /\ (mq # {} \/ eq # {})
  /\ pc' = IF unauth THEN "probe" ELSE "flush"
  /\ part' = "metrics"
  /\ UNCHANGED <<queueVars, hand, unauth, stopping, hubVars, countVars, histVars>>

\* The timer of a backoff or of the probe period fires.
Retry ==
  /\ pc = "wait"
  /\ pc' = "idle"
  /\ UNCHANGED <<queueVars, part, hand, unauth, stopping, hubVars, countVars, histVars>>

NextPart == IF part = "metrics" THEN <<"flush", "events">> ELSE <<"metrics", "metrics">>

\* TakeOverflow, its SELECT: no row, or the record is in memory.
TakeOverflowRead ==
  /\ pc = "flush"
  /\ IF ovf[part] = 0
     THEN pc' = NextPart[1] /\ part' = NextPart[2] /\ UNCHANGED hand
     ELSE pc' = "take" /\ hand' = [kind |-> part, n |-> ovf[part], rows |-> {}]
          /\ UNCHANGED part
  /\ UNCHANGED <<queueVars, unauth, stopping, hubVars, countVars, histVars>>

\* Mutant: the record is left where it is.
TakeOverflowKept ==
  /\ pc = "take"
  /\ pc' = "report"
  /\ UNCHANGED <<queueVars, part, hand, unauth, stopping, hubVars, countVars, histVars>>

\* TakeOverflow, its DELETE: a statement of its own.
TakeOverflowDelete ==
  /\ pc = "take"
  /\ ovf' = [ovf EXCEPT ![part] = 0]
  /\ pc' = "report"
  /\ UNCHANGED <<mseq, eseq, mq, eq, part, hand, unauth, stopping, hubVars, countVars,
                 histVars>>

\* emitSystemEventNoTrim of flushOverflowEvents
ReportOverflow ==
  /\ pc = "report"
  /\ EnqueueEventNoTrim("overflow", hand.n)
  /\ reported' = IF part = "metrics" THEN reported + hand.n ELSE reported
  /\ hand' = Nothing
  /\ pc' = NextPart[1] /\ part' = NextPart[2]
  /\ UNCHANGED <<mseq, mq, ovf, unauth, stopping, hubVars, countVars, enq, dropped, poisoned>>

\* DropOldestMetrics: a backlog beyond MaxReplay is cut, counted and reported.
TrimBacklog ==
  LET gone == Oldest(mq, Excess(mq, MaxReplay))
  IN  /\ pc = "metrics" /\ gone # {}
      /\ mq' = mq \ gone
      /\ ovf' = [ovf EXCEPT !.metrics = @ + Cardinality(gone)]
      /\ dropped' = dropped \cup gone
      /\ pc' = "flush" /\ part' = "metrics"
      /\ UNCHANGED <<mseq, eseq, eq, hand, unauth, stopping, hubVars, countVars, enq,
                     poisoned, reported>>

\* What the hub does with a batch that reaches it (handleIngestMetrics).
HubTakes(s) ==
  /\ hub = "up"
  /\ hubSeq' = IF s > hubSeq THEN s ELSE hubSeq
  /\ hubHas' = IF s > hubSeq THEN hubHas \cup {s} ELSE hubHas

\* A probe sends one row, of the metrics if there are any; drainOnce cuts a backlog first.
\* A probe always finds a row: the one that was refused is still queued, or trimmed for
\* a newer one, so the branch of probeUnauthorized for empty queues is never taken.
Probing == pc = "probe"
SendingMetrics == mq # {} /\ (Probing \/ (pc = "metrics" /\ Cardinality(mq) <= MaxReplay))
SendingEvents == eq # {} /\ ((Probing /\ mq = {}) \/ pc = "events")

\* Mutant: the newest row is sent first.
PostMetricsNewest ==
  /\ SendingMetrics
  /\ Max(mq) \notin Poison
  /\ HubTakes(Max(mq))
  /\ hand' = [kind |-> "metrics", n |-> 1, rows |-> {Max(mq)}]
  /\ pc' = IF Probing THEN "delete1" ELSE "delete"
  /\ unauth' = FALSE
  /\ UNCHANGED <<queueVars, part, stopping, hub, countVars, histVars>>

\* PostMetrics of the oldest row, acknowledged: a probe that gets through ends the pause.
PostMetrics ==
  /\ SendingMetrics
  /\ Min(mq) \notin Poison
  /\ HubTakes(Min(mq))
  /\ hand' = [kind |-> "metrics", n |-> 1, rows |-> {Min(mq)}]
  /\ pc' = IF Probing THEN "delete1" ELSE "delete"
  /\ unauth' = FALSE
  /\ UNCHANGED <<queueVars, part, stopping, hub, countVars, histVars>>

\* The batch arrives and its answer does not, or the row cannot be deleted: to the
\* agent a retryable failure.
PostMetricsUnanswered ==
  /\ SendingMetrics /\ Min(mq) \notin Poison
  /\ fails < MaxFail /\ fails' = fails + 1
  /\ HubTakes(Min(mq))
  /\ pc' = Return("wait")
  /\ unauth' = FALSE
  /\ UNCHANGED <<queueVars, part, hand, stopping, hub, crashes, histVars>>

\* Mutant: a refused batch is tried again like any other failure.
PostMetricsPoisonRetried ==
  /\ SendingMetrics /\ Min(mq) \in Poison /\ hub = "up"
  /\ pc' = Return("wait")
  /\ unauth' = FALSE
  /\ UNCHANGED <<queueVars, part, hand, stopping, hubVars, countVars, histVars>>

\* A 400 or 413 (ErrPoison): the row is to go; a probe only resumes sending.
PostMetricsPoison ==
  /\ SendingMetrics /\ Min(mq) \in Poison /\ hub = "up"
  /\ hand' = IF Probing THEN hand ELSE [kind |-> "badMetrics", n |-> 1, rows |-> {Min(mq)}]
  /\ pc' = IF Probing THEN "wait" ELSE "delete"
  /\ unauth' = FALSE
  /\ UNCHANGED <<queueVars, part, stopping, hubVars, countVars, histVars>>

\* Any other failure of a POST, of metrics or of events.
PostFails ==
  /\ SendingMetrics \/ SendingEvents
  /\ hub # "up"
  /\ unauth' = (hub = "unauth")
  /\ pc' = Return("wait")
  /\ UNCHANGED <<queueVars, part, hand, stopping, hubVars, countVars, histVars>>

\* The metrics are out: on to the events.
MetricsDone ==
  /\ pc = "metrics" /\ mq = {}
  /\ pc' = "events"
  /\ UNCHANGED <<queueVars, part, hand, unauth, stopping, hubVars, countVars, histVars>>

\* PostEvents of up to MaxSend rows (of one in a probe); rejected ones count as sent.
PostEvents ==
  /\ SendingEvents /\ hub = "up"
  /\ hand' = [kind |-> "events", n |-> 1,
              rows |-> {r.seq : r \in OldestRows(eq, IF Probing THEN 1 ELSE MaxSend)}]
  /\ pc' = IF Probing THEN "delete1" ELSE "delete"
  /\ unauth' = FALSE
  /\ UNCHANGED <<queueVars, part, stopping, hubVars, countVars, histVars>>

PostEventsUnanswered ==
  /\ SendingEvents /\ hub = "up"
  /\ fails < MaxFail /\ fails' = fails + 1
  /\ pc' = Return("wait")
  /\ unauth' = FALSE
  /\ UNCHANGED <<queueVars, part, hand, stopping, hubVars, crashes, histVars>>

\* The hub refuses the whole request.
PostEventsPoison ==
  /\ SendingEvents /\ hub = "up"
  /\ fails < MaxFail /\ fails' = fails + 1
  /\ LET rows == {r.seq : r \in OldestRows(eq, MaxSend)}
     IN  hand' = IF Probing THEN hand
                 ELSE [kind |-> "badEvents", n |-> Cardinality(rows), rows |-> rows]
  /\ pc' = IF Probing THEN "wait" ELSE "delete"
  /\ unauth' = FALSE
  /\ UNCHANGED <<queueVars, part, stopping, hubVars, crashes, histVars>>

EventsDone ==
  /\ pc = "events" /\ eq = {}
  /\ pc' = Return("idle")
  /\ UNCHANGED <<queueVars, part, hand, unauth, stopping, hubVars, countVars, histVars>>

OfEvents == hand.kind \in {"events", "badEvents"}
Refused == hand.kind \in {"badMetrics", "badEvents"}

\* Mutant: the oldest row goes instead of the one that was sent.
DeleteOldest ==
  /\ pc \in {"delete", "delete1"}
  /\ mq' = IF OfEvents \/ mq = {} THEN mq ELSE mq \ {Min(mq)}
  /\ eq' = IF OfEvents THEN {r \in eq : r.seq \notin hand.rows} ELSE eq
  /\ poisoned' = IF hand.kind = "badMetrics" THEN poisoned \cup hand.rows ELSE poisoned
  /\ pc' = CASE pc = "delete1" -> "idle"
             [] pc = "delete" /\ Refused -> "complain"
             [] pc = "delete" /\ ~Refused -> hand.kind
  /\ hand' = IF Refused THEN hand ELSE Nothing
  /\ UNCHANGED <<mseq, eseq, ovf, part, unauth, stopping, hubVars, countVars, enq, dropped,
                 reported>>

\* DeleteMetrics, DeleteEvents by id: rows gone in the meantime are no matter.
DeleteRows ==
  /\ pc \in {"delete", "delete1"}
  /\ mq' = IF OfEvents THEN mq ELSE mq \ hand.rows
  /\ eq' = IF OfEvents THEN {r \in eq : r.seq \notin hand.rows} ELSE eq
  /\ poisoned' = IF hand.kind = "badMetrics" THEN poisoned \cup hand.rows ELSE poisoned
  /\ pc' = CASE pc = "delete1" -> "idle"
             [] pc = "delete" /\ Refused -> "complain"
             [] pc = "delete" /\ ~Refused -> hand.kind
  /\ hand' = IF Refused THEN hand ELSE Nothing
  /\ UNCHANGED <<mseq, eseq, ovf, part, unauth, stopping, hubVars, countVars, enq, dropped,
                 reported>>

\* dropPoisonMetrics, dropPoisonEvents: the event that tells of it
ReportPoison ==
  /\ pc = "complain"
  /\ EnqueueEventNoTrim("custom", hand.n)
  /\ hand' = Nothing
  /\ pc' = IF OfEvents THEN "events" ELSE "metrics"
  /\ UNCHANGED <<mseq, mq, ovf, part, unauth, stopping, hubVars, countVars, histVars>>

-----------------------------------------------------------------------------
(* The life of the agent, and of the hub.                                  *)

\* Run: agent_started goes into the queue before the loops start.
Start ==
  /\ pc = "dead" /\ crashes <= MaxCrash
  /\ eseq' = eseq + 1
  /\ EnqueueEvent([seq |-> eseq + 1, kind |-> "started", n |-> 0])
  /\ pc' = "idle" /\ part' = "metrics" /\ hand' = Nothing
  /\ unauth' = FALSE /\ stopping' = FALSE
  /\ UNCHANGED <<mseq, mq, hubVars, countVars, histVars>>

\* ctx is done: the drain loop, idle or waiting, runs finalFlush and returns.
Stop ==
  /\ pc \in {"idle", "wait"} /\ crashes < MaxCrash
  /\ stopping' = TRUE
  /\ crashes' = crashes + 1
  /\ pc' = "flush" /\ part' = "metrics"
  /\ UNCHANGED <<queueVars, hand, unauth, hubVars, fails, histVars>>

Crash ==
  /\ Running /\ crashes < MaxCrash
  /\ pc' = "dead"
  /\ hand' = Nothing
  /\ crashes' = crashes + 1
  /\ UNCHANGED <<queueVars, part, unauth, stopping, hubVars, fails, histVars>>

HubChange ==
  /\ fails < MaxFail
  /\ fails' = fails + 1
  /\ hub' \in {"up", "down", "unauth"} \ {hub}
  /\ UNCHANGED <<queueVars, pc, part, hand, unauth, stopping, hubSeq, hubHas, crashes,
                 histVars>>

\* An outage or a revoked key ends, whatever came before.
HubBack ==
  /\ hub # "up" /\ hub' = "up"
  /\ UNCHANGED <<queueVars, pc, part, hand, unauth, stopping, hubSeq, hubHas, countVars,
                 histVars>>

Drain ==
  \/ Turn \/ Retry \/ TakeOverflowRead \/ TakeOverflowDelete \/ ReportOverflow
  \/ TrimBacklog \/ PostMetrics \/ PostMetricsPoison \/ PostFails \/ MetricsDone
  \/ PostEvents \/ EventsDone \/ DeleteRows \/ ReportPoison

Next ==
  \/ Collect \/ CollectFails
  \/ Drain \/ PostMetricsUnanswered \/ PostEventsUnanswered \/ PostEventsPoison
  \/ Start \/ Stop \/ Crash
  \/ HubChange \/ HubBack

Spec == Init /\ [][Next]_vars

\* The drain loop never stops by itself, its timers fire, a service manager starts
\* the agent again, and the hub comes back in the end.
FairSpec == Spec /\ WF_vars(Drain) /\ WF_vars(Start) /\ WF_vars(HubBack)

-----------------------------------------------------------------------------
\* Type invariant: the tables, the drain loop and the hub.
TypeOK ==
  /\ mseq \in Nat /\ eseq \in Nat
  /\ mq \subseteq 1..mseq
  /\ eq \subseteq [seq : 1..eseq, kind : {"started", "overflow", "custom"}, n : Nat]
  /\ ovf \in [metrics : Nat, events : Nat]
  /\ pc \in {"dead", "idle", "wait", "flush", "take", "report", "metrics", "events", "probe",
             "delete", "delete1", "complain"}
  /\ part \in {"metrics", "events"}
  /\ hand \in [kind : {"none", "metrics", "events", "badMetrics", "badEvents"}, n : Nat, rows : SUBSET Nat]
  /\ unauth \in BOOLEAN /\ stopping \in BOOLEAN
  /\ hub \in {"up", "down", "unauth"} /\ hubSeq \in 0..mseq /\ hubHas \subseteq 1..mseq
  /\ crashes \in Nat /\ fails \in Nat
  /\ enq \subseteq 1..mseq /\ dropped \subseteq enq /\ poisoned \subseteq enq
  /\ reported \in Nat

\* No batch leaves the queue unsent: a batch that was ever queued is still queued,
\* or applied by the hub, or was cut by an overflow, or refused for good, although
\* rows are cut while one of them is on its way (deleteIDs, enqueue, dropOldest).
Accounted == enq \subseteq mq \cup hubHas \cup dropped \cup poisoned

\* The hub's seq test never discards a batch it does not have: what is queued and
\* not yet applied is beyond the last seq applied, across lost answers, crashes
\* and restarts (nextSeq, PeekMetrics; handleIngestMetrics).
FreshIsNew == \A s \in mq : s \in hubHas \/ s > hubSeq

\* Once collecting, crashes and outages are over both queues run empty: refused
\* payloads do not block the rest, and a pause for a bad key ends with it.
QueueDrains == <>[](mq = {} /\ eq = {})

\* No loss is reported twice: what the overflow record holds, what was taken out of it
\* and what was reported never exceed the batches that were cut, although the record is
\* read, deleted and reported in steps that the collector and a crash may come between
\* (TakeOverflow, flushOverflowEvents).
OverflowNotInflated ==
  ovf.metrics + reported + (IF pc = "report" /\ part = "metrics" THEN hand.n ELSE 0)
    <= Cardinality(dropped)
=============================================================================
