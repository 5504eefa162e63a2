---------------------------- MODULE ChangeStream ----------------------------
(***************************************************************************)
(* The change stream from the hub's write transactions to the phone's      *)
(* foreground service: commit under the store's mutex and publish after it *)
(* (hub/store.go), the broker and GET /stream (hub/sse.go), the window of  *)
(* the change table (hub/retention.go), and the service's SSE loop with    *)
(* its full sync (app/android/.../AssistantSyncService.kt).  A change is   *)
(* its sequence number.  Writers are handler goroutines: the mutex orders  *)
(* their commits, nothing orders their publishing.                         *)
(***************************************************************************)
EXTENDS Integers, Sequences, Functions

CONSTANTS
  Writers,    \* goroutines that commit changes
  Cap,        \* capacity of a subscriber's channel (256)
  Keep,       \* cfg.changesMinSeq
  PageLimit,  \* limit of a /sync page (200)
  MaxPages,   \* pages of one full sync (50)
  MaxTx,      \* bound: changes in one transaction
  MaxSeq,     \* bound: changes in all
  MaxBreaks   \* bound: disconnections, restarts of the hub, kills of the service

ASSUME StreamOK ==
  /\ {Cap, Keep, PageLimit, MaxPages, MaxTx, MaxSeq, MaxBreaks} \subseteq Nat
  /\ Keep > 0 /\ PageLimit > 0 /\ MaxPages > 0

VARIABLES
  n, low,     \* table changes holds the numbers low+1..n
  pub,        \* per writer, its committed changes that are not yet published
  conn,       \* the connection: off, checked, subscribed, live, resync
  last,       \* handleStream: since, then the last change written
  ch,         \* the subscriber's channel
  wire,       \* changes written to the connection and not yet read
  cursor,     \* the service's lastChangeSeq, persistent
  busyWith,   \* the change being handled by the service, or 0
  fsSince, fsPages,  \* performFullSync: since, pages
  told,       \* the changes the service was given (history)
  missed,     \* dropped by a full channel, or overtaken by a later publication (history)
  handled,    \* how often onMessageEvent and its kin ran per change (history)
  resyncs,    \* failed reads of the history (history)
  breaks

hubVars == <<n, low, pub>>
connVars == <<conn, last, ch, wire>>
history == <<missed, handled, resyncs>>
vars == <<n, low, pub, conn, last, ch, wire, cursor, busyWith, fsSince, fsPages,
          told, missed, handled, resyncs, breaks>>

Init ==
  /\ n = 0 /\ low = 0
  /\ pub = [w \in Writers |-> <<>>]
  /\ conn = "off" /\ last = 0 /\ ch = <<>> /\ wire = <<>>
  /\ cursor = 0 /\ busyWith = 0
  /\ fsSince = 0 /\ fsPages = 0
  /\ told = {} /\ missed = {} /\ handled = [s \in 1..MaxSeq |-> 0]
  /\ resyncs = 0 /\ breaks = 0

\* The consecutive numbers a+1..b as a sequence.
Run(a, b) == [i \in 1..(IF b > a THEN b - a ELSE 0) |-> a + i]

-----------------------------------------------------------------------------
(* Hub: writers, publishing, the window.                                   *)

\* withTx: the numbers are taken inside the transaction (nextChangeSeq), so a
\* rollback gives them back; the mutex is free again before publish.
Commit(w, k) ==
  /\ pub[w] = <<>>
  /\ n + k <= MaxSeq
  /\ n' = n + k
  /\ pub' = [pub EXCEPT ![w] = Run(n, n + k)]
  /\ UNCHANGED <<low, connVars, cursor, busyWith, fsSince, fsPages, told, history, breaks>>

Subscribed == conn \in {"subscribed", "live"}

\* The changes that writers other than w have committed before c and not published.
Overtaken(w, c) == UNION {{x \in Range(pub[v]) : x < c} : v \in Writers \ {w}}

\* publish and broker.Publish: a full channel drops the change.
Publish(w) ==
  LET c == Head(pub[w])
  IN  /\ pub[w] # <<>>
      /\ pub' = [pub EXCEPT ![w] = Tail(@)]
      /\ ch' = IF Subscribed /\ Len(ch) < Cap THEN Append(ch, c) ELSE ch
      /\ missed' = IF ~Subscribed THEN missed
                   ELSE missed \cup {x \in IF Len(ch) < Cap THEN Overtaken(w, c) ELSE {c} :
                                       x > cursor}
      /\ UNCHANGED <<n, low, conn, last, wire, cursor, busyWith, fsSince, fsPages, told,
                     handled, resyncs, breaks>>

\* runRetention: rows past changesDays, never one of the last Keep.
Trim(c) ==
  /\ low < c /\ c <= n - Keep
  /\ low' = c
  /\ UNCHANGED <<n, pub, connVars, cursor, busyWith, fsSince, fsPages, told, history, breaks>>

-----------------------------------------------------------------------------
(* GET /stream                                                             *)

\* streamOnce connects with since = lastChangeSeq; the window is checked first.
Connect ==
  /\ conn = "off" /\ busyWith = 0
  /\ conn' = IF low < n /\ cursor < low THEN "resync" ELSE "checked"
  /\ last' = cursor
  /\ ch' = <<>> /\ wire' = <<>>
  /\ fsSince' = 0 /\ fsPages' = 0
  /\ UNCHANGED <<hubVars, cursor, busyWith, told, history, breaks>>

Subscribe ==
  /\ conn = "checked"
  /\ conn' = "subscribed"
  /\ UNCHANGED <<hubVars, last, ch, wire, cursor, busyWith, fsSince, fsPages,
                 told, history, breaks>>

\* Mutant: the history starts one change too late.
ReplayLate ==
  /\ conn = "subscribed"
  /\ conn' = "live"
  /\ wire' = Run(IF last < low THEN low ELSE last + 1, n)
  /\ last' = IF last < n THEN n ELSE last
  /\ UNCHANGED <<hubVars, ch, cursor, busyWith, fsSince, fsPages, told, history, breaks>>

\* Mutant: the position after the history is not kept.
ReplayForgets ==
  /\ conn = "subscribed"
  /\ conn' = "live"
  /\ wire' = Run(IF last < low THEN low ELSE last, n)
  /\ UNCHANGED <<hubVars, last, ch, cursor, busyWith, fsSince, fsPages, told, history, breaks>>

\* Mutant: a new connection is live only, without the history.
ReplayNothing ==
  /\ conn = "subscribed"
  /\ conn' = "live"
  /\ UNCHANGED <<hubVars, last, ch, wire, cursor, busyWith, fsSince, fsPages, told, history, breaks>>

\* changesSince and the replay loop
Replay ==
  /\ conn = "subscribed"
  /\ conn' = "live"
  /\ wire' = Run(IF last < low THEN low ELSE last, n)
  /\ last' = IF last < n THEN n ELSE last
  /\ UNCHANGED <<hubVars, ch, cursor, busyWith, fsSince, fsPages, told, history, breaks>>

\* changesSince fails: the client is told to resync although its cursor is good,
\* and its full sync starts over.
ReplayFails ==
  /\ breaks < MaxBreaks
  /\ conn = "subscribed"
  /\ conn' = "resync"
  /\ ch' = <<>>
  /\ breaks' = breaks + 1 /\ resyncs' = resyncs + 1
  /\ UNCHANGED <<hubVars, last, wire, cursor, busyWith, fsSince, fsPages, told,
                 missed, handled>>

\* case e := <-ch, with its test against last
Forward ==
  /\ conn = "live" /\ ch # <<>>
  /\ ch' = Tail(ch)
  /\ wire' = IF Head(ch) > last THEN Append(wire, Head(ch)) ELSE wire
  /\ last' = IF Head(ch) > last THEN Head(ch) ELSE last
  /\ UNCHANGED <<hubVars, conn, cursor, busyWith, fsSince, fsPages, told, history, breaks>>

-----------------------------------------------------------------------------
(* AssistantSyncService                                                    *)

\* handleSseEvent, first half: the cursor is persisted before the event is handled.
Receive ==
  /\ conn # "off" /\ busyWith = 0 /\ wire # <<>>
  /\ busyWith' = Head(wire)
  /\ cursor' = IF Head(wire) > cursor THEN Head(wire) ELSE cursor
  /\ told' = told \cup {Head(wire)}
  /\ wire' = Tail(wire)
  /\ UNCHANGED <<hubVars, conn, last, ch, fsSince, fsPages, history, breaks>>

\* handleSseEvent, second half: onMessageEvent, onFaultEvent, onSettingsEvent
Handle ==
  /\ busyWith # 0
  /\ handled' = [handled EXCEPT ![busyWith] = @ + 1]
  /\ busyWith' = 0
  /\ UNCHANGED <<hubVars, connVars, cursor, fsSince, fsPages, told, missed, resyncs, breaks>>

\* performFullSync, one page of GET /sync; after the last one the loop reconnects.
SyncPage ==
  LET from == IF fsSince < low THEN low ELSE fsSince
      to   == IF n - from > PageLimit THEN from + PageLimit ELSE n
      more == to < n
  IN  /\ conn = "resync"
      /\ cursor' = IF to > fsSince THEN to ELSE fsSince
      /\ told' = told \cup (from + 1 .. to)
      /\ fsSince' = to
      /\ fsPages' = fsPages + 1
      /\ conn' = IF more /\ fsPages + 1 < MaxPages THEN "resync" ELSE "off"
      /\ UNCHANGED <<hubVars, last, ch, wire, busyWith, history, breaks>>

-----------------------------------------------------------------------------
(* Failures.                                                               *)

Hangup == conn' = "off" /\ last' = 0 /\ ch' = <<>> /\ wire' = <<>>

\* The connection breaks (a failed page of a full sync is one of these).
Disconnect ==
  /\ conn # "off" /\ breaks < MaxBreaks
  /\ Hangup
  /\ breaks' = breaks + 1
  /\ UNCHANGED <<hubVars, cursor, busyWith, fsSince, fsPages, told, history>>

\* The hub restarts: what was committed and not published never will be.
HubRestart ==
  /\ breaks < MaxBreaks
  /\ Hangup
  /\ pub' = [w \in Writers |-> <<>>]
  /\ breaks' = breaks + 1
  /\ UNCHANGED <<n, low, cursor, busyWith, fsSince, fsPages, told, history>>

\* The service's process is killed and started again.
Kill ==
  /\ breaks < MaxBreaks
  /\ Hangup
  /\ busyWith' = 0
  /\ breaks' = breaks + 1
  /\ UNCHANGED <<hubVars, cursor, fsSince, fsPages, told, history>>

-----------------------------------------------------------------------------
Hub ==
  \/ \E w \in Writers : (\E k \in 1..MaxTx : Commit(w, k)) \/ Publish(w)
  \/ \E c \in 1..MaxSeq : Trim(c)

Next ==
  \/ Hub
  \/ Connect \/ Subscribe \/ Replay \/ ReplayFails \/ Forward
  \/ Receive \/ Handle \/ SyncPage
  \/ Disconnect \/ HubRestart \/ Kill

\* A goroutine that has something to publish or to write does so, and the service
\* keeps reconnecting (startSseLoop retries for ever) and reading.
Fairness ==
  /\ \A w \in Writers : WF_vars(Publish(w))
  /\ WF_vars(Connect) /\ WF_vars(Subscribe) /\ WF_vars(Replay) /\ WF_vars(Forward)
  /\ WF_vars(Receive) /\ WF_vars(Handle) /\ WF_vars(SyncPage)

Spec == Init /\ [][Next]_vars

FairSpec == Spec /\ Fairness

-----------------------------------------------------------------------------
\* Type invariant: what the hub, a connection and the service keep.
TypeOK ==
  /\ n \in 0..MaxSeq /\ low \in 0..n
  /\ pub \in [Writers -> Seq(1..MaxSeq)]
  /\ conn \in {"off", "checked", "subscribed", "live", "resync"}
  /\ last \in 0..MaxSeq
  /\ ch \in Seq(1..MaxSeq) /\ wire \in Seq(1..MaxSeq)
  /\ cursor \in 0..MaxSeq /\ busyWith \in 0..MaxSeq
  /\ fsSince \in 0..MaxSeq /\ fsPages \in Nat
  /\ told \subseteq 1..MaxSeq
  /\ missed \subseteq 1..MaxSeq
  /\ handled \in [1..MaxSeq -> Nat] /\ resyncs \in 0..MaxBreaks
  /\ breaks \in 0..MaxBreaks

Feed == INSTANCE ChangeFeed
          WITH pos <- cursor, seen <- {s \in told \cup missed : s <= cursor}

\* Across concurrent handlers, reconnects, restarts, kills, full syncs and trimming the
\* stream is a change feed (module ChangeFeed) but for two kinds of change: one that met
\* a full channel, and one that its handler had not published when another handler
\* published a later one.  The service misses no other change of the window, and with one
\* writer and room in the channel there are none (handleStream, broker.Publish).
ImplementsFeed == Feed!FeedSpec

\* Nothing is handled twice, whatever is lost or replayed, but once more for each failed
\* read of the history: the cursor is persisted before the change is handled, and only the
\* full sync that such a failure asks for sets it back (handleSseEvent, handleStream,
\* performFullSync).
HandledOnce == \A s \in 1..MaxSeq : handled[s] <= 1 + resyncs

\* Once the failures stop the service catches up: what stays ahead of its cursor was
\* dropped by a full channel, and waits for the next change or the next connection
\* (startSseLoop, handleStream, broker.Publish).
CatchesUp == <>[](cursor + 1 .. n \subseteq missed)
=============================================================================
