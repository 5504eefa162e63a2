# Sakura Assistant: TLA+ models, checks and proofs

This directory models the parts of Sakura Assistant where order, concurrency and
failure decide whether the program is right: what the hub makes of the events it
is sent and of what its rules see, how changes reach the phone and what the phone
makes of them, how an agent keeps what it could not send, who is let in and for how
long, and what the hub fetches for others. The modules are translated from the code;
`PROJECT.json` gives, for each definition, the lines it stands for.

## 1. The system

| Part | State | Operations | Talks to |
|---|---|---|---|
| Hub: ingest and fault machine (`hub/ingest.go`, `hub/fault.go`) | tables events, faults, pending_resolves, messages; per source last seq and last seen | POST ingest/events and ingest/metrics, hub events | agents (HTTP), change log |
| Hub: rule engine and heartbeat (`hub/rules.go`) | timers in memory, previous sample per source | evaluation of each sample, heartbeat loop | fault machine |
| Hub: client API (`hub/api.go`) | read and mute flags | read, mute, unmute, read-all, sync, lists | app (HTTP) |
| Hub: change log and stream (`hub/store.go`, `hub/sse.go`) | table changes, broker's subscriber channels | withTx, publish, GET stream | app's service (SSE) |
| Hub: retention (`hub/retention.go`) | - | periodic deletion with tombstones, trimming of changes | all tables |
| Hub: sessions (`hub/auth.go`) | table sessions, the limiter's attempts in memory | login, check of a token, refresh in two statements, logout | app, native service |
| Hub: administration (`hub/admin.go`) | table sources, versioned rules and settings | create, patch, rotate a key, delete; compare-and-set | app, ingest, change log |
| Hub: agent releases (`hub/agent_release.go`) | a directory of bounded size, leases and the gate in memory | serve a file, download, verify, evict | agents, release server |
| Hub: feedback proxy (`hub/feedback_proxy.go`) | none | list, detail, action, attachment; probe after a 404 | app, Feedback service |
| Hub: attachments (`hub/attachments.go`) | files | upload, read | app |
| Agent: queue and reporter (`agent/internal/queue`, `agent/internal/report`) | SQLite queues, counters, overflow record | collect loop, drain loop, shutdown | hub (HTTP) |
| Agent: collectors, configuration | - | reads of the machine | reporter |
| App: native service (`AssistantSyncService.kt`) | cursor, notified faults, held messages | SSE loop, notifications, do-not-disturb, full sync | hub, Android |
| App: cache and coordinator (`assistant_cache.dart`, `providers.dart`) | local tables and cursor | syncAll, applySyncPage | hub |
| App: session (`api_client.dart`, `providers.dart`, `NativeBridge.kt`) | two copies of one credential, Dart's and the native service's | login, refresh on 401, adoption, configure, cold start, logout | hub |
| App: pages and widgets | - | display | cache, API |

What is hard in it:

- **Order.** Events of a source arrive late, twice and out of order; a resolve may
  precede its open; a round that was over may seem to start again.
- **Atomicity.** The hub serialises writers with one mutex, but publishes changes
  after it is released; `/sync` reads the change table twice; the agent reads and
  deletes its overflow record in two statements; the phone's coroutines read the
  config row and write it back without a transaction; a refresh looks a session up
  and changes it in two statements; an ingest handler authenticates before its
  transaction, and the proxy works on a row it loaded before its requests.
- **Shared credentials.** A refresh token is good for one exchange, and two parts of
  the app hold a copy of it that travels by messages which overtake each other.
- **Failure.** A batch is rolled back half way; an answer is lost; the hub restarts
  with changes it committed and never published; the phone's process is killed
  after it saved its cursor and before it showed the notification; the agent
  crashes anywhere; a download is cut off, a stored file is damaged, and the hub
  gives up on an action that another service goes on to run.
- **Limits.** Queues overflow, subscriber channels fill up, the change log keeps a
  window, retention removes the rows deduplication rests on, the release cache is full
  of files that are being served.

What makes each part correct:

- *Fault machine*: a resolve on record closes every earlier open, in any order of
  delivery; rounds are announced once; mutes survive rounds.
- *Ingest*: each event takes effect once, although the rows that recognise it expire.
- *Change log*: what clients hold is what the hub holds.
- *Stream and service*: no change of the window is skipped but for two causes that are
  known and named, none is handled twice, the cursor catches up after every failure.
- *Sync*: the cache is what it was given, and no change of the window is skipped but
  for one named cause.
- *Rules*: a fault opens and ends only after its full window, whatever was rolled
  back or forgotten; a heartbeat fault means silence.
- *Notifications*: no change up to the cursor is left out, a muted fault is silent, the
  end of a fault is shown, held notifications are reported.
- *Agent*: every batch is at the hub, in the queue or accounted for as dropped; new
  numbers are above all the hub has seen; the queue drains.
- *Sessions*: what was revoked is never granted again; the user is signed out only for
  a cause; attempts are limited in every window.
- *Administration*: the change log tells the source's row; no accepted edit is lost.
- *Release cache*: only verified files are served, they stay while they are served, the
  directory never outgrows its limit, every request is answered.
- *Feedback proxy*: a key goes only to the address it belongs to; what the client is told
  of an action is true.

## 2. Modules

| Module | Models | Remarks |
|---|---|---|
| `FaultMachine` | `hub/fault.go`, with the row types of `types.go` | operators on the rows of one transaction |
| `HubIngest` | `hub/ingest.go`, `hub/retention.go`, client flags of `hub/api.go`, the heartbeat check | state machine over committed and working rows |
| `MCHubIngest` | - | the small sources the runs use |
| `HubIngestProofs` | - | theorems about `HubIngest` |
| `ChangeFeed` | the promise of the change log | abstract specification |
| `ChangeStream` | `hub/store.go`, `hub/sse.go`, `AssistantSyncService.kt` | implements `ChangeFeed` |
| `SyncPull` | `handleSync`, `providers.dart`, `assistant_cache.dart` | implements `ChangeFeed` without its `Rewind` |
| `AgentReporter` | `queue.go`, `reporter.go`, `client.go` | with a small model of the hub |
| `RuleEngine` | `hub/rules.go`, `handleIngestMetrics`, `handleRulesPut` | one device source |
| `MCRuleEngine` | - | the samples the runs use |
| `NativeNotify` | `AssistantSyncService.kt`, `ConfigStore.kt`, `FaultDebounce.kt`, `NativeBridge.kt` | what happens behind `ChangeStream`'s `Handle` |
| `Sessions` | `hub/auth.go`, session part of `providers.dart` and `api_client.dart`, `refreshAuth` of the service, the bridge | hub and both clients composed |
| `SourceAdmin` | `hub/admin.go`, authentication of `hub/ingest.go` | one source, one versioned document |
| `FeedbackProxy` | `hub/feedback_proxy.go` | extends `SourceAdmin`, whose rows it reads; the Feedback service is external |
| `ReleaseCache` | `hub/agent_release.go` | |
| `MCReleaseCache` | - | file sizes and what an earlier process left |
| `StreamProofs` | - | theorems about `ChangeStream` and about any reader of `ChangeFeed` |
| `AppProofs` | - | theorems about `SyncPull` and `NativeNotify` |
| `AgentProofs`, `RuleProofs` | - | theorems about `AgentReporter` and `RuleEngine` |
| `SessionProofs`, `SourceProofs`, `CacheProofs` | - | theorems about `Sessions`, `FeedbackProxy` with `SourceAdmin`, and `ReleaseCache` |

`HubIngest` composes the operators of `FaultMachine` into transactions. `ChangeStream`
instantiates `ChangeFeed` with the service's cursor as the reader's position and what the
service was given, or missed for one of the two named causes, as what the reader has seen;
`SyncPull` does the same with the app's cursor. `FeedbackProxy` runs its requests beside the
actions of `SourceAdmin`, so that every load of a row may be followed by any change of it.
Two cuts keep the state spaces small: `RuleEngine` keeps of a fault only whether it is open, which theorem
`HubResolvesInOrder` allows (an event the hub makes itself always finds the fault it is
about), and `NativeNotify` takes the stream as a feed that starts again at the cursor,
which is what `ChangeStream` shows of it.

## 3. State and actions

**FaultMachine, HubIngest.** A record `db` holds the committed tables of one source and
`work` the tables as the running transaction sees them. `BeginIngest`, `ApplyNext`,
`Commit` and `Rollback` are the steps of one `POST ingest/events`: the mutex of `withTx`
is `busy`, so that other transactions are single actions (`HeartbeatLost`, the flags,
`ReadAll`, `RunRetention`). `ApplyEvent` is `applyEventTx` whole: the switch on the
action, the pending resolve, the message, the back-filling of earlier messages, the
changes and the notification. Fields that end in `h...` and the copies `cFaults` and
`cMsgs` (what a client that applied every change would hold) are history. A batch is
applied in any order of its events, a redelivery is a batch that contains known events.

**ChangeStream.** `n` is the last committed change, `low` the last trimmed one, `pub` what
each writer has committed and not yet published, `ch` the subscriber's channel, `wire` the
bytes under way, `cursor` and `busyWith` the service. `Connect`, `Subscribe`, `Replay` and
`Forward` are `handleStream`; `Receive`, `Handle` and `SyncPage` are the service;
`Disconnect`, `HubRestart`, `Kill` and `ReplayFails` are the failures. A full channel drops
what is published, as `Publish` of the broker does. History: `missed` collects the changes
that met a full channel and those that another writer's publication overtook, `resyncs`
counts the failed reads of the history. The properties speak of exactly these causes: a
change lost in any other way violates them.

**SyncPull.** Rows of changes per object, the client's cache, and a page that is read by
two statements (`ReadRows`, `ReadMax`) with commits and trimming between and after them.
History `raced`: the changes committed between the two reads of an empty page.

**AgentReporter.** The two queue tables, the overflow record, the sequence counters and
the program counter of the drain loop; the collect loop is the action `Collect`. The hub
is what the agent sees of it: it takes a batch, takes it and its answer is lost, refuses
it for good, is away, or refuses the key.

**RuleEngine.** `states` holds a timer per label, as ages instead of instants. `IngestMetrics`
is the whole handler, `IngestFails` one that is rolled back after part of the rules ran.
The heartbeat monitor has the code's three steps: the read outside of a transaction, the
transaction, the clearing of the timers. `overFor`, `underFor`, `reading`, `verdict` and
`blind` (containers whose last transition no pair of samples shows) are history.

**NativeNotify.** The tables `cfg`, `muted`, `held`, and one program counter for each of the
stream loop (`sse`), the ticker and the bridge. `Deliver` loads the config row and
`SaveCursor` writes it back, with the bridge and the ticker in between; `HandleMessage`
decides between silence, holding and posting, which happen one step later.

**Sessions.** A pair (access token, refresh token) is a number, 0 is none. `rows` are the
hub's sessions; `dart`, `saved` and `native` the copies of the pair; `req` each client's
request, whose refresh is looked up (`Lookup`) and written (`Rotate`) in two steps; `pull`,
`sent` and `events` what is on its way between the two sides. `HandleExpired` and
`ColdStart` are the two ways to adopt the native pair, `Kill`, `Lose` and `OfflineStart` the
failures. A token grows from fresh to old (access expired) to dead (refresh expired).
`causes` is history: which of the known ways to lose a session has happened.

**SourceAdmin.** `row` is the source's row with its keys and address as generations, `shown`
what the change log says of it last, `ingest` handlers between authentication and
transaction, `doc` and `edit` a versioned document and the administrators' copies. Sources
and documents share nothing but the store's lock, so a behaviour is about one of them.

**FeedbackProxy.** `fb` holds each proxied request with the key and address it loaded;
`upstream` is the Feedback service: the keys it accepts, whether it has the management
routes and the item, and which action ids it has run. `Timeout` is the hub giving up, while
`Complete` may still follow.

**ReleaseCache.** `mtime` and `damaged` are the directory, `temp` and `leftover` the bytes of
temporary files, `refs` the leases, `gate` the request inside the gate. The steps of
`openAgentAsset` are actions (`Prepare`, `Check`, `Discard`, `MakeRoom`, `Fetch`, `Write`,
`Commit`, `Open`), first for the manifest and then for the file that was asked for. `Victims`
says which files `makeRoom` removes: the oldest without a lease, no more than needed; among
equally old ones any. `Abort` is any error return, `Crash` a restart at any point.

## 4. Runs

| Run | Instance | Shows |
|---|---|---|
| `hub_order` | two rounds of one fault, all four events in any order and grouping, redelivery, rollbacks, flags | a resolve on record is honoured, rounds are in order and announced once, a mute survives rounds, clients hold the hub's messages |
| `hub_retention` | a round and a reopening that outlives the period, heartbeat faults, retention at any time | no event applied twice, hub events in order, clients hold the hub's faults, an open fault is never removed |
| `ghost_open` (violation) | as `hub_order`, single events | an open delivered after its applied resolve opens the fault again |
| `stream_delivery` | two writers, a channel of one, four changes, a window of one, two failures | the stream implements `ChangeFeed` but for dropped and overtaken changes, hands nothing out twice, and the cursor catches up |
| `sync_pages` | two objects, pages of two, five changes, a window of one | the cache is what it was given; the sync is a feed but for changes between the two reads |
| `agent_delivery` | four batches, capacity three, one refused payload, a crash, two failures | every batch accounted for, numbers always new, losses not counted twice, both queues run empty |
| `rule_timers` | one label, container and disk; windows of two ticks, clock ahead by one, two troubles | windows are complete, a heartbeat fault means silence, disks follow their verdict and containers their list, a fault whose value stays low is resolved |
| `native_notify` | two changes of every kind, one night, one bridge call, two breaks | nothing up to the cursor skipped, muted faults silent, ends shown, held rows reported |
| `release_cache` | two requests at a time, three in all, two releases of which one fits, one damaged file, one restart | files stay while they are served, the limit is kept, only verified files are served, every request is answered |
| `sessions` | two logins, three pairs, two expiries, one failure; a limit of two attempts in two ticks | signed out only for a cause, revoked sessions stay revoked, attempts are limited |
| `refresh_unlabelled` (violation) | one session without a device label | its refresh token is refused although it is current |
| `source_access` | one report, one proxied request at a time and two in all, one action id, two administrators | the log tells the row, no edit is lost, keys go to their address, the client is told the truth |

Bounds. Each is a named constant, and each is the smallest at which the case it is for
occurs with one step to spare. Four events are two rounds, the least in which a late event
can be taken for one of another round. Two writers are the least that can publish in the
opposite order of their commits, four changes the least in which that happens on both sides
of a trimmed window. Two failures are the least in which a recovery is itself interrupted.
Three batches in a queue are the least in which a cut leaves a row in
flight and one behind it. Two changes are the least in which a cursor that is set back
replays an old message after a newer mute or end. Windows of two ticks are the least in
which a clock one tick ahead makes a difference that a full tick does not explain. Three
pairs let each side refresh after the other; the larger instance of `Sessions` with
two failures was checked too (7.2 million states) and is left out of the runs for its time.
The limiter's clock moves only in behaviours without a session, which have nothing else in
common with the others. An offline cold start needs no bound of its own: there is one at most for each end of
the app. In the release cache a binary weighs 3, metadata 1, and 5 fit: one release with
nothing to spare, so that a second one must evict. Requests that are answered or cut off
free their slot, so that three requests meet every stage of one another. Two proxied
requests with one action id are a first try and its repetition. `CHECK_DEADLOCK FALSE` stands
where every bound may be used up.

The type invariant of `HubIngest` is checked in `hub_order` and proved. The `TypeOK` of
`ChangeStream`, `SyncPull`, `AgentReporter`, `RuleEngine`, `Sessions` and `FeedbackProxy`, and
the `NotifyTypeOK` of `NativeNotify`, are proved for every value of the constants and need no
run; those of the other modules document what their variables hold.

Fairness. `stream_delivery` assumes that each goroutine and the service's loop go on when
they can: the loop reconnects for ever, with a capped delay, and the hub does not hold a
handler back. `agent_delivery` assumes that the drain loop's timers fire, that a service
manager starts the agent again, and that the hub and its key are back in the end (failures
are bounded). `rule_timers` assumes that time passes and that samples keep coming;
`native_notify` only that the ticker runs. `release_cache` assumes that the holder of the
gate goes on, which the timeout of every upstream request guarantees, and strong fairness of
entering the gate, because a Go channel serves its waiting senders in order. No fairness is
assumed of failures, of administrators, of users, or of the order in which handlers run.

## 5. Proofs

Every theorem holds for every value of the constants that the named assumptions of its
module allow (`ConstantsOK`, `TimesOK`, `StreamOK`, `SyncOK`, `AgentOK`, `RulesOK`,
`NotifyOK`, `SessionsAssumption`, `BoundsOK`, `ProxyBoundOK`, `CacheAssumption`): numbers are naturals,
page and batch sizes are positive, names of different things differ. Six theorems have a
hypothesis of their own, given below. Each proof has the same shape: an inductive invariant,
one lemma for each action that disturbs it, and a last step that puts them together.

### Hub: events, faults and messages (`HubIngestProofs`)

| Theorem | Property | Invariant |
|---|---|---|
| `TypeCorrect` | `TypeOK` | `IInv` |
| `PendingResolveHonoured` | `NoOpenUnderPending` | `IInv` |
| `RoundsInOrder` | `RoundOrder` | `IInv` |
| `HubResolvesInOrder` | `HubEventsInOrder` | `IInv` |
| `DeduplicationHolds` | `AppliedOnce` | `DedupInv` |
| `FaultChangesComplete` | `ClientMirrorsFaults` | `FInv` |
| `RoundsAnnouncedOnce` | `OpenNotifiedOnce` | `FInv` |
| `OpenFaultsStay` | `OpenFaultNeverRemoved` (of steps) | `FInv` |
| `MuteIsKept` | `MuteSurvivesRounds` (of steps) | `FInv` |
| `MessageChangesComplete` | `ClientMirrorsMessages` | `MInv` |

`IInv` is `RowsInv` of the committed rows and of the rows in the transaction. The working rows
must be in it because a commit makes them the committed ones. `RowsInv` adds to the
properties that an open fault was opened by a number the hub or the source has already used
(`OpenedByPast`): without it, the resolve of a heartbeat fault could be below its open and
become a pending one. The argument goes along the code: lemmas say what each way to change a
fault row does to its fields, `FaultAfterFacts` what the switch does, `ApplyInv` that an
admissible event keeps `RowsInv`, and one lemma per transaction that it only applies
admissible events. `ConstantsOK` says that the source's ids and numbers are below
the hub's, that they identify its events, and that an event has a key exactly if it has an
action.

`DedupInv`: an event that was applied has its row in the events table or is past the
acceptance window, no row is older than its event, and the running batch holds no event that
was applied. `DeduplicationHolds` has the hypothesis `Window <= Retention`, which is how the
code is configured; the mutant of `AppliedOnce`, which deletes event rows one tick too early,
shows that it is needed.

`FInv` adds to `IInv`, of both copies of the rows, that ids of faults are given once
(`RowIds`), that the client's copy is the table (`Mirrored`), and that no announcement is
ahead of the round its fault is in (`NotesPast`); without the last, a reopening could meet an
announcement of the round it begins. Of the two copies together it says that the
transaction carries every committed row on, with its id and its mute flag (`Persists`). This
makes the two properties of steps provable at `Commit`, where many events take effect at once.

`MInv` adds for messages that copies are true but for the adoption of step 5 (`CopiesTrue`),
that ids are used once (`MessageIds`) and that a message of no fault is of no round
(`Unowned`). It includes `DedupInv`, and `MessageChangesComplete` shares its hypothesis: an
event applied twice would put two messages under one id.

### Change feed, stream and sync (`StreamProofs`, `AppProofs`)

`CursorVouches` is about `ChangeFeed` alone: the cursor vouches for everything in the window up
to it (`NoRetainedGap`), for any number of changes. Its inductive invariant adds that window
and cursor lie within the log and that nothing beyond the cursor counts as seen, which a
cursor set back by `Rewind` needs. What the stream and the sync owe their readers follows
from it by the two refinements, which are proved step by step:

| Theorem | Property | Argument |
|---|---|---|
| `StreamImplementsFeed` | `ImplementsFeed` | the wire continues the cursor up to the last number forwarded (`WireFits`); what is past that number is in the channel, unpublished or excused (`ChannelFits`), and writers publish their own changes in order (`PubInOrder`) |
| `HandledAtMostOnce` | `HandledOnce` | `Counted`: what was handled, or is being handled, is within one for a change up to the cursor, and one for each failed read whose full sync has already set the cursor back |
| `SyncImplementsFeed` | `SyncIsFeed` | `AnswerFits`: an answer starts at the cursor or behind changes that have left the window; what an empty answer skips was committed between its reads |
| `CacheIsFaithful` | `CacheFaithful` | with `told` within the cursor, a page only brings later changes of an object |

`StreamTypeCorrect` and `SyncTypeCorrect` are the type invariants.

### Native service (`AppProofs`)

| Theorem | Property | Invariant |
|---|---|---|
| `NotifyTypeCorrect` | `NotifyTypeOK` | `NotifyShape` |
| `NoChangeSkipped` | `NothingSkipped` | `Tracked` |
| `MutedFaultsSilent` | `MutedSilent` (of steps) | `InHand` |
| `EndsAreShown` | `ResolvedShown` | `Pending` |

`NotifyShape` ties the positions together: an idle stream loop holds no row, a busy one is one
behind the connection, and no cursor is beyond the last change. The stream loop and the bridge
each write back a whole config row that they read some steps before, the cursor in it
included; so `Tracked` says of every copy of the row, and not only of the stored one, that its
cursor may be written: each change up to it was handled or is the one in hand, and the copy in
the bridge is never ahead of what is stored. The stored cursor may thus be set back, which
replays changes, but it never passes one that nobody has met. It also says that the open
connection is past what is stored, since the next change is the one after the last.

`InHand`: what the stream loop has decided to post or to hold is not muted. Mutes are written by
the stream loop alone, so none comes between its decision and the act.

`Pending` is what a redelivery needs. A replayed open overwrites the end that was shown; then
the stream still has that end ahead of it, or in hand, and shows it again. Together with
`Tracked` (the connection starts again at the stored cursor, whoever set it back) this gives
`ResolvedShown` when the stream has caught up.

### Agent (`AgentProofs`)

| Theorem | Property | Argument |
|---|---|---|
| `BatchesAccounted` | `Accounted` | the rows that the drain loop is about to delete were applied or refused for good (`HandOK`), across the crash between the hub's answer and the deletion |
| `QueuedIsNew` | `FreshIsNew` | batches leave the queue from its oldest end, so what is queued is above all that the hub has taken |
| `LossesReportedOnce` | `OverflowNotInflated` | what was cut is no longer queued (`HistOK`), and the record that was read is part of the record that will be deleted (`TakenOK`) |

The properties hold together: `AgentInv` is their conjunction with these facts and the types
(`AgentTypeCorrect`). That the oldest rows of a finite table have a smallest number, and that
disjoint sets of losses add up, are the lemmas about `Min` and `Cardinality` it rests on.

### Rules (`RuleProofs`)

| Theorem | Property | Argument |
|---|---|---|
| `HeartbeatHonest` | `HeartbeatTrue` | `HbInv`: between the monitor's read and its transaction the source is still silent or marked as touched |
| `ContainersTrue` | `ContainerFollowsList` | inductive with the types, whatever rules are switched |
| `PartsTrue` | `PartsFollowVerdict` | inductive with the types; hypothesis `"smart_pool" \notin Toggled` |
| `OpensInTime`, `ResolvesInTime` | `OpensAfterWindow`, `ResolvesAfterWindow` (of steps) | `WindowInv`: a running timer is not older than the history it measures, and only an open fault recovers; hypothesis `"threshold" \notin Toggled` |

The hypotheses exclude what the properties do not hold for: a rule that is switched off is not
evaluated, so that its faults do not follow what the samples say, and its timers stay as they
are (section 6). The run switches the rule for containers. Rollbacks, restarts, pauses of the
source and clocks that run ahead are all allowed. `RulesTypeCorrect` is the type invariant.

### Sessions, administration, proxy, releases

| Theorem | Property | Argument |
|---|---|---|
| `SessionProofs!LogoutIsFinal` | `RevokedNeverGranted` | needs only that the table holds sessions (`RowsOK`): the `UPDATE` asks again whether the session was revoked, so nothing need be known of the refresh that looked it up earlier |
| `SessionProofs!LimiterHolds` | `AttemptsBounded` | `LimiterInv`: the record holds every admitted attempt that is still inside the window and no more than the limit, and windows that have passed are not touched any more |
| `SessionProofs!SignedOutOnlyForCause` | `SignedOutForCause` | `CauseInv`, below |
| `SessionProofs!SessionTypeCorrect` | `TypeOK` of `Sessions` | `CauseInv` |
| `SessionProofs!RefusedOnlyForCause` | `RefusedForCause` | `AllLabelled`, and a refresh that has looked its row up goes on with a row that was good then; hypothesis: every login names its device |
| `SourceProofs!EditsKept` | `NoEditLost` | `DocInv`: no copy is newer than the document, and a copy of its version has its text; so a save that matches is based on every edit taken |
| `SourceProofs!ChangesAnnounced` | `LogTellsRow` | `LogInv`: after a deletion no handler is authenticated unless the history says so (`NoneLate`) |
| `SourceProofs!KeysStayHome` | `KeyMatchesAddress` | `ProxyInv`: what a request holds, for itself or for its probe, was one committed row (`Loaded`) |
| `SourceProofs!ActionsToldTrue` | `ToldTheTruth` | `ProxyInv`: an answer of success stands for a completed action, and one that ran is never called refused (`Truthful`) |
| `SourceProofs!ProxyTypeCorrect` | `TypeOK` of `FeedbackProxy` | `DocInv` and `ProxyInv` |
| `CacheProofs!ServedStay` | `ServedOnDisk` | `CacheInv`: the holder of the gate and nobody else is inside it, the leases on a file are counted exactly, and a file that is about to be replaced has no lease from its discarding to its renaming |
| `CacheProofs!VerifiedServed` | `OnlyVerifiedServed` | `SoundInv` adds that the file of a request that is about to open it is not damaged; only the holder of the gate can be there, and files are damaged only while the gate is open |
| `CacheProofs!StaysWithinCapacity` | `NeverOutgrows` (of steps) | `Room`, below |

`CauseInv` has a part that holds whatever happens (`Ordered`: no pair opens two sessions, the
running app has in memory what it has stored, an ended app has nothing under way) and a part for
behaviours in which no cause has occurred. There only the latest session can be good and one
refresh is under way at a time (`Calm`), and the newest pair of a good session is in one of
three places (`Somewhere`): it is stored by the app; it is on its way to the app, as the answer
of a refresh or as a session event, while the stored one is known to no row (`Travels`); or
the native side alone has it, because it refreshed while the app was ended, and then a cold
start is still trying the stored pair and will ask the native side before it gives up (`Apart`).
The third place is why the invariant speaks of each stage of a cold start: passing the stored
pair to the native side there would destroy the only good copy, which is the cause that an
offline start is (section 6). `RefusedOnlyForCause` complements the run `refresh_unlabelled`:
the property fails there, and the theorem shows that a login without a label is the only reason.

`Room`: from `makeRoom` to the write, what is stored and left over leaves room for the file
that the holder of the gate is about to write (`Reserved`); the temporary file that is about to
be renamed has the size of the file it becomes (`Weighed`); the directory holds finitely many
files (`Sized`). Together with `CacheInv`, which lets nobody else inside the gate, no step
takes the directory beyond the limit. One that was found too large may only shrink.

`CacheAssumption` says that the requests and the files an earlier process left are finitely
many, that sizes are positive, and that no request is called "none".
Modification times may be anything: the exact order in which `makeRoom` evicts does not matter
to what is served. That a file is damaged only while the gate is open is an assumption of the
model (`Damage`): between the check and the opening of a file the code does not look again.

### What the proofs asked of the model

Conditions in `CASE` expressions exclude each other, as the code's `else` branches do. The attempts
of the login limiter are a set of numbered attempts with their times, so that two attempts at
the same instant count twice and sizes are cardinalities. The bounds of `SourceAdmin` and
`FeedbackProxy` are stated to be natural numbers. `ReleaseCache` counts the stored files by kind and
multiplies by the kind's size (`FilesOf`, `Bytes`), which is the sum over the files without a
fold. The positions of `NativeNotify`'s coroutines are named sets, and what a step may not do to a
muted fault is an operator of its own (`Silence`), so that the property of steps can be cited.

### Only model-checked

Every safety property of the passing runs is stated by a theorem. The liveness properties
`CatchesUp`, `QueueDrains`, `ThresholdClears`, `LeftoversFlushed` and `Answered` are checked by
TLC only: fairness is out of the prover's reach.

## 6. Findings and observations

The two violations are described in `PROJECT.json` under `findings`: a late open that starts
a round again (`ghost_open`), and a session without a device label that cannot be refreshed
(`refresh_unlabelled`).

Some properties hold only but for a cause that the property names. Each cause is a
disagreement of code and contract or comment:

- `ImplementsFeed`: a change is published after the lock is released, so a later change of
  another handler may be forwarded first and the earlier one is then dropped (`sse.go:158`;
  the comment at `sse.go:129` promises no gap). A change for a full subscriber channel is
  dropped and the subscriber not told (`sse.go:41`; the comment at `sse.go:35`).
- `HandledOnce`: a failing read of the history answers resync to a client whose cursor was
  valid; the full sync sets its cursor back to what the first pages hold (`sse.go:134`).
- `SyncIsFeed`: an empty page answers with the newest number, read by a second statement; a
  change committed between the two is never sent (`api.go:272`; `api-v1.md:283`).
- `ContainerFollowsList`: a container that the previous sample does not list is skipped; the
  agent sends no list when Docker does not answer (`rules.go:272`, `provider.go:117`;
  `events.md:81`).
- `SignedOutForCause`: two refreshes with the same token that overlap are both granted and
  only the later pair works (`auth.go:258`–`280`); a refusal to Dart that crosses the session
  event of the native refresh, or a configure call that crosses a native refresh, leaves one
  side with a spent pair; a lost answer counts as a refusal and logs the user out
  (`providers.dart:190`); a cold start without network passes the restored pair to the native
  side although that may hold a newer one (`providers.dart:169`; the comment at
  `providers.dart:158`); a logout with an expired or exchanged access token revokes nothing, and the
  native configuration keeps its pair.
- `LogTellsRow`: a report that was authenticated before a source was deleted announces the
  source again after its tombstone (`ingest.go`; the comment at `admin.go:370`).

Further disagreements, met while modelling and not run:

- A fault that retention removes takes its pending resolves along, although these are
  younger (`retention.go:108`; `events.md:68`).
- Messages that a late open gives to its round change without an entry in the change log
  (`fault.go:210`; `api-v1.md:283`). `ClientMirrorsMessages` is stated up to those fields.
- A sync that starts below the window is answered with the rest of the window
  (`api.go:240`; `api-v1.md:270`).
- What the collector adds to the overflow record between `TakeOverflow`'s two statements is
  deleted unread, and a crash before the report loses the record (`queue.go:216`;
  `events.md:102`). Events enqueued without trimming exceed the queue's limit (`queue.go:144`).
- Events the hub refuses one by one are deleted with a log line only (`reporter.go:353`).
- The monitor clears a source's timers also when its transaction found the source back
  (`rules.go:518`): the window starts anew. A rule that is switched off keeps its timers, so
  that it may open at once when it is switched on again. A source whose clock runs ahead
  shortens its windows by as much; `OpensAfterWindow` is stated up to that error.
- A notification that is held between the count and the clearing of the held table is
  reported by nobody, one that is held just after it waits for the next quiet hours
  (`AssistantSyncService.kt:562`; `bridge.md:59`).
- `ConfigStore.update` reads and writes in two statements, which its comment calls atomic
  (`ConfigStore.kt:5`): a cursor may be set back, which replays changes, and a change of the
  quiet hours may be lost.
- A fault that ends in the quiet hours keeps its open notification afterwards; an update
  beyond three in a minute is dropped, not shown later (`bridge.md`, section 3).
- A release file that does not fit beside the leased ones evicts everything else before it
  is refused (`agent_release.go:290`).
- When the hub gives up on an action, the client is answered `feedback_unavailable` and may
  repeat the action with a new request id although the service has run it
  (`feedback_proxy.go:131`). `ToldTheTruth` says that nothing else is said of such an action.

## 7. Not modelled

Attachments are reads and writes of single files; the collectors read the machine; metric
storage and queries are SQL over time ranges; configuration is parsed once; pages and
widgets display the cache. None of them has a protocol or state that a later step depends
on, and what is left of them is text and arithmetic that unit tests reach. Row decoding, schema
migrations, TLS, JSON, the fields of a release manifest, the redirect rules of the download
and the listing queries of the API are left out everywhere. `os.Remove` either works or ends the request
(`Abort`); a half-done eviction is a shorter one. `NativeNotify` has one bridge call under way
at a time, and `ResolvedShown` depends on it: two overlapping calls could set the cursor back
and forth around a replay. `Sessions` has one phone: several phones have rows of their own
and share nothing.

## 8. What is left

- The five liveness properties, for more than the instances of the runs.
- Retention's removal of pending resolves, the split read of `TakeOverflow` and the other
  disagreements that section 6 lists as not run: each becomes a violation run once it is
  decided which side is to change.
- When the code changes: the lines in `PROJECT.json` under `map` say which definitions to
  compare, and the invariants above say which facts a change has to keep.
