---------------------------- MODULE NativeNotify ----------------------------
(***************************************************************************)
(* What the Android service makes of the changes it is sent                *)
(* (AssistantSyncService.kt): notifications, quiet hours, held rows and    *)
(* their summary, mutes and debouncing.  Three coroutines share a database *)
(* without transactions: the stream loop handles one change after the      *)
(* other, the ticker watches the quiet hours, the bridge configures.  Each *)
(* of them reads the config row, and writes it back, in separate steps.    *)
(*                                                                         *)
(* The changes come in the order of their numbers, again from the saved    *)
(* cursor after every reconnection; how they get here, and resync, are     *)
(* ChangeStream's.  Titles, bodies, sources and rounds are left out, and   *)
(* so are the credentials in the config row.                               *)
(***************************************************************************)
EXTENDS Integers, Sequences, FiniteSets

CONSTANTS
  Faults,
  Kinds,        \* bound: the kinds of change the hub sends
  MaxPerWindow, \* FaultDebounce.maxPerWindow
  MaxChanges,   \* bound: changes
  MaxNights,    \* bound: beginnings of the quiet hours
  MaxCalls,     \* bound: configure calls
  MaxBreaks     \* bound: disconnections and kills

Incident == {"incident_open", "incident_update", "incident_resolved"}
Settings == {"dnd_on", "dnd_off"}
AllKinds == Incident \cup Settings \cup {"new_message", "maintenance", "mute", "unmute"}

\* A change the stream delivers; a message carries the mute the fault had at the hub.
NoFault == "none"
Changes ==
  {c \in [kind : Kinds, fault : Faults \cup {NoFault}] :
     c.fault = NoFault <=> c.kind \in Settings \cup {"new_message", "maintenance"}}

ASSUME NotifyOK ==
  /\ Kinds \subseteq AllKinds /\ NoFault \notin Faults
  /\ MaxPerWindow \in Nat \ {0}
  /\ {MaxChanges, MaxNights, MaxCalls, MaxBreaks} \subseteq Nat

VARIABLES
  log,      \* the changes the hub has sent so far
  night,    \* the clock is within start..end
  cfg,      \* the config row: lastChangeSeq and dndEnabled
  muted,    \* the notified rows with muted = TRUE
  held,     \* the held table, as change numbers in the order of insertion
  shown,    \* per fault, what its notification shows
  up,       \* the process runs
  hits,     \* FaultDebounce.hits: calls allowed within the last 60 s
  next,     \* the number the open connection sends next; 0 when there is none
  sse,      \* the change the stream loop is handling and how far it is
  ticker,   \* the ticker: wasActive, where it is, the rows it counted
  bridge,   \* configure: the row it will write, if it is under way
  nights, calls, breaks,
  outcome   \* history: what was last made of every change

dbVars == <<cfg, muted, held>>
bounds == <<nights, calls, breaks>>
notifyVars == <<log, night, cfg, muted, held, shown, up, hits, next, sse, ticker, bridge,
          nights, calls, breaks, outcome>>

Row == [cursor : 0..MaxChanges, dnd : BOOLEAN]
Idle == [at |-> "idle", n |-> 0, row |-> [cursor |-> 0, dnd |-> FALSE]]
NoCall == [busy |-> FALSE, row |-> Idle.row]

StreamStates == [at : {"idle", "cursor", "handle", "settings", "hold", "post"},
                 n : 0..MaxChanges, row : Row]
TickerStates == [was : BOOLEAN, at : {"off", "start", "sleep", "flush", "clear"},
                 counted : Nat]
BridgeStates == [busy : BOOLEAN, row : Row]

\* wasActive starts TRUE, so that rows left by an earlier process are reported.
Started == [was |-> TRUE, at |-> "start", counted |-> 0]

Outcomes == {"none", "done", "muted", "debounced", "posted", "held", "summarised",
             "raced", "killed"}

NotifyInit ==
  /\ log = <<>> /\ night = FALSE
  /\ cfg \in [cursor : {0}, dnd : BOOLEAN]
  /\ muted = {} /\ held = <<>>
  /\ shown = [f \in Faults |-> "nothing"]
  /\ up = TRUE
  /\ hits = [f \in Faults |-> 0]
  /\ next = 0 /\ sse = Idle /\ ticker = Started /\ bridge = NoCall
  /\ nights = 0 /\ calls = 0 /\ breaks = 0
  /\ outcome = [n \in 1..MaxChanges |-> "none"]

\* DndWindow.isActiveAt on the stored copy
Active == cfg.dnd /\ night

Change == log[sse.n]
Made(what) == [outcome EXCEPT ![sse.n] = what]

\* notify.muted: the last mute or unmute of the fault before the change n
MutedAtHub(n) ==
  \E i \in 1..n : /\ log[i] = [kind |-> "mute", fault |-> log[n].fault]
                  /\ \A j \in i..n : log[j] # [kind |-> "unmute", fault |-> log[n].fault]

-----------------------------------------------------------------------------
(* The stream loop: startSseLoop, streamOnce, handleSseEvent               *)

\* Mutant: the stream is asked for new changes only.
ConnectLive ==
  /\ up /\ next = 0 /\ sse = Idle
  /\ next' = Len(log) + 1
  /\ UNCHANGED <<log, night, dbVars, shown, up, hits, sse, ticker, bridge, bounds, outcome>>

Connect ==
  /\ up /\ next = 0 /\ sse = Idle
  /\ next' = cfg.cursor + 1
  /\ UNCHANGED <<log, night, dbVars, shown, up, hits, sse, ticker, bridge, bounds, outcome>>

\* An error, EOF, or requestReconnect; the change being handled is finished first.
Disconnect ==
  /\ up /\ next # 0 /\ sse = Idle
  /\ breaks < MaxBreaks /\ breaks' = breaks + 1
  /\ next' = 0
  /\ UNCHANGED <<log, night, dbVars, shown, up, hits, sse, ticker, bridge, nights, calls, outcome>>

\* The change comes, old or new, and configStore.update loads the row.
Deliver ==
  /\ up /\ next \in 1..MaxChanges /\ sse = Idle
  /\ \/ next <= Len(log) /\ UNCHANGED log
     \/ next = Len(log) + 1 /\ \E c \in Changes : log' = Append(log, c)
  /\ next' = next + 1
  /\ sse' = [at |-> "cursor", n |-> next,
             row |-> IF next > cfg.cursor THEN [cfg EXCEPT !.cursor = next] ELSE cfg]
  /\ UNCHANGED <<night, dbVars, shown, up, hits, ticker, bridge, bounds, outcome>>

\* The row is written back, before the change is handled.
SaveCursor ==
  /\ sse.at = "cursor"
  /\ cfg' = sse.row
  /\ sse' = [sse EXCEPT !.at = "handle"]
  /\ UNCHANGED <<log, night, muted, held, shown, up, hits, next, ticker, bridge, bounds, outcome>>

\* onMessageEvent without a notify block, "source", "rules"
HandleMaintenance ==
  /\ sse.at = "handle" /\ Change.kind = "maintenance"
  /\ sse' = Idle /\ outcome' = Made("done")
  /\ UNCHANGED <<log, night, dbVars, shown, up, hits, next, ticker, bridge, bounds>>

\* onFaultEvent
HandleFault ==
  /\ sse.at = "handle" /\ Change.kind \in {"mute", "unmute"}
  /\ muted' = IF Change.kind = "mute" THEN muted \cup {Change.fault}
              ELSE muted \ {Change.fault}
  /\ sse' = Idle /\ outcome' = Made("done")
  /\ UNCHANGED <<log, night, cfg, held, shown, up, hits, next, ticker, bridge, bounds>>

\* onSettingsEvent: configStore.update loads the row again, ...
HandleSettings ==
  /\ sse.at = "handle" /\ Change.kind \in Settings
  /\ sse' = [sse EXCEPT !.at = "settings",
                        !.row = [cfg EXCEPT !.dnd = (Change.kind = "dnd_on")]]
  /\ UNCHANGED <<log, night, dbVars, shown, up, hits, next, ticker, bridge, bounds, outcome>>

\* ... and writes it back.
SaveSettings ==
  /\ sse.at = "settings"
  /\ cfg' = sse.row
  /\ sse' = Idle /\ outcome' = Made("done")
  /\ UNCHANGED <<log, night, muted, held, shown, up, hits, next, ticker, bridge, bounds>>

\* Mutant: only the hub's word on the mute counts.
SilencedByHub == MutedAtHub(sse.n)

Silenced == MutedAtHub(sse.n) \/ Change.fault \in muted

\* onMessageEvent up to the check of the quiet hours
HandleMessage ==
  /\ sse.at = "handle" /\ Change.kind \in Incident \cup {"new_message"}
  /\ IF Silenced
     THEN sse' = Idle /\ outcome' = Made("muted")
     ELSE /\ sse' = [sse EXCEPT !.at = IF Active THEN "hold" ELSE "post"]
          /\ UNCHANGED outcome
  /\ UNCHANGED <<log, night, dbVars, shown, up, hits, next, ticker, bridge, bounds>>

Hold ==
  /\ sse.at = "hold"
  /\ held' = Append(held, sse.n)
  /\ sse' = Idle /\ outcome' = Made("held")
  /\ UNCHANGED <<log, night, cfg, muted, shown, up, hits, next, ticker, bridge, bounds>>

\* Mutant: the end of a fault is debounced as well.
DebouncedAll == Change.kind \in Incident

Debounced == Change.kind \in {"incident_open", "incident_update"}

\* The notification is posted or, of an open or update too many, debounced;
\* recordNotified leaves the mute as it is.
Post ==
  /\ sse.at = "post"
  /\ sse' = Idle
  /\ IF Debounced /\ hits[Change.fault] >= MaxPerWindow
     THEN outcome' = Made("debounced") /\ UNCHANGED <<shown, hits>>
     ELSE /\ outcome' = Made("posted")
          /\ hits' = IF Debounced THEN [hits EXCEPT ![Change.fault] = @ + 1] ELSE hits
          /\ shown' = IF Change.kind \in Incident
                      THEN [shown EXCEPT ![Change.fault] =
                              IF Change.kind = "incident_resolved" THEN "resolved" ELSE "open"]
                      ELSE shown
  /\ UNCHANGED <<log, night, dbVars, up, next, ticker, bridge, bounds>>

\* 60 s pass since the oldest call that FaultDebounce allowed.
Expire(f) ==
  /\ hits[f] > 0
  /\ hits' = [hits EXCEPT ![f] = @ - 1]
  /\ UNCHANGED <<log, night, dbVars, shown, up, next, sse, ticker, bridge, bounds, outcome>>

-----------------------------------------------------------------------------
(* The ticker: startTicker, flushHeld                                      *)

Tick ==
  /\ up /\ ticker.at \in {"start", "sleep"}
  /\ ticker' = IF ticker.was /\ ~Active THEN [ticker EXCEPT !.at = "flush"]
               ELSE [ticker EXCEPT !.at = "sleep", !.was = Active]
  /\ UNCHANGED <<log, night, dbVars, shown, up, hits, next, sse, bridge, bounds, outcome>>

\* The rows are counted and the summary is posted.
CountHeld ==
  /\ ticker.at = "flush"
  /\ ticker' = IF held = <<>> THEN [was |-> FALSE, at |-> "sleep", counted |-> 0]
               ELSE [ticker EXCEPT !.at = "clear", !.counted = Len(held)]
  /\ UNCHANGED <<log, night, dbVars, shown, up, hits, next, sse, bridge, bounds, outcome>>

\* The table is emptied: what was inserted since the count goes with it.
ClearHeld ==
  /\ ticker.at = "clear"
  /\ held' = <<>>
  /\ outcome' = [n \in 1..MaxChanges |->
       IF outcome[n] # "held" THEN outcome[n]
       ELSE IF \E i \in 1..ticker.counted : held[i] = n THEN "summarised" ELSE "raced"]
  /\ ticker' = [was |-> FALSE, at |-> "sleep", counted |-> 0]
  /\ UNCHANGED <<log, night, cfg, muted, shown, up, hits, next, sse, bridge, bounds>>

-----------------------------------------------------------------------------
(* The bridge, the clock, the process                                      *)

\* NativeBridge.configure and the other calls that write the row: it is loaded, ...
CallBridge(on) ==
  /\ up /\ ~bridge.busy
  /\ calls < MaxCalls /\ calls' = calls + 1
  /\ bridge' = [busy |-> TRUE, row |-> [cfg EXCEPT !.dnd = on]]
  /\ UNCHANGED <<log, night, dbVars, shown, up, hits, next, sse, ticker, nights, breaks, outcome>>

\* ... and written back.
SaveBridge ==
  /\ bridge.busy
  /\ cfg' = bridge.row
  /\ bridge' = NoCall
  /\ UNCHANGED <<log, night, muted, held, shown, up, hits, next, sse, ticker, bounds, outcome>>

NightFalls ==
  /\ ~night /\ nights < MaxNights
  /\ night' = TRUE /\ nights' = nights + 1
  /\ UNCHANGED <<log, dbVars, shown, up, hits, next, sse, ticker, bridge, calls, breaks, outcome>>

DayBreaks ==
  /\ night /\ night' = FALSE
  /\ UNCHANGED <<log, dbVars, shown, up, hits, next, sse, ticker, bridge, bounds, outcome>>

\* The process is killed, or the service stopped: the database and what is shown stay.
Kill ==
  /\ up /\ up' = FALSE
  /\ breaks < MaxBreaks /\ breaks' = breaks + 1
  /\ next' = 0 /\ sse' = Idle /\ bridge' = NoCall
  /\ hits' = [f \in Faults |-> 0]
  /\ ticker' = [Started EXCEPT !.at = "off"]
  /\ outcome' = IF sse = Idle \/ sse.at = "cursor" THEN outcome ELSE Made("killed")
  /\ UNCHANGED <<log, night, dbVars, shown, nights, calls>>

\* Mutant: a new process takes it that the quiet hours were over before.
StartAwake ==
  /\ ~up /\ up' = TRUE
  /\ ticker' = [Started EXCEPT !.was = FALSE]
  /\ UNCHANGED <<log, night, dbVars, shown, hits, next, sse, bridge, bounds, outcome>>

\* ensureRunning: by the user, START_STICKY, the watchdog or after a boot
Start ==
  /\ ~up /\ up' = TRUE
  /\ ticker' = Started
  /\ UNCHANGED <<log, night, dbVars, shown, hits, next, sse, bridge, bounds, outcome>>

StreamLoop ==
  \/ Connect \/ Deliver \/ SaveCursor
  \/ HandleMaintenance \/ HandleFault \/ HandleSettings \/ SaveSettings
  \/ HandleMessage \/ Hold \/ Post

Ticker == Tick \/ CountHeld \/ ClearHeld

NotifyNext ==
  \/ StreamLoop \/ Disconnect
  \/ \E f \in Faults : Expire(f)
  \/ Ticker
  \/ \E on \in BOOLEAN : CallBridge(on)
  \/ SaveBridge
  \/ NightFalls \/ DayBreaks
  \/ Kill \/ Start

NotifySpec == NotifyInit /\ [][NotifyNext]_notifyVars

\* The ticker wakes up every 30 s.
FairSpec == NotifySpec /\ WF_notifyVars(Ticker)

-----------------------------------------------------------------------------
\* Type invariant: tables, coroutines and histories.
NotifyTypeOK ==
  /\ log \in Seq(Changes) /\ Len(log) <= MaxChanges
  /\ night \in BOOLEAN /\ up \in BOOLEAN
  /\ cfg \in Row /\ muted \subseteq Faults
  /\ held \in Seq(1..MaxChanges) /\ \A i \in 1..Len(held) : held[i] <= Len(log)
  /\ shown \in [Faults -> {"nothing", "open", "resolved"}]
  /\ hits \in [Faults -> 0..MaxPerWindow]
  /\ next \in 0..(MaxChanges + 1)
  /\ sse \in StreamStates
  /\ ticker \in TickerStates /\ ticker.counted <= Len(held)
  /\ bridge \in BridgeStates
  /\ outcome \in [1..MaxChanges -> Outcomes]

\* No change up to the stored cursor was left out: whatever the other coroutines
\* write over the config row, a change is lost only to a kill while it is handled or
\* to the clearing of the held table (handleSseEvent, ConfigStore.update).
NothingSkipped ==
  \A n \in 1..cfg.cursor : outcome[n] # "none" \/ n = sse.n

\* The step posts or holds nothing of a fault whose row is muted.
Silence ==
  \A i \in 1..Len(log) :
    outcome'[i] # outcome[i] /\ outcome'[i] \in {"posted", "held"} => log[i].fault \notin muted

\* Once the mute of a fault was handled nothing of it is posted or held until it is
\* undone, although a cursor that was set back brings older messages again
\* (onMessageEvent, onFaultEvent; events.md section 3).
MutedSilent == [][Silence]_notifyVars

\* The last of the fault's incidents, 0 when it had none.
Incidents(f) == {i \in 1..Len(log) : log[i].fault = f /\ log[i].kind \in Incident}
LastIncident(f) ==
  IF Incidents(f) = {} THEN 0
  ELSE CHOOSE i \in Incidents(f) : \A j \in Incidents(f) : j <= i

\* When the stream has nothing more to say, the notification of a fault whose end was
\* handled outside of the quiet hours shows that end: no debouncing and no redelivery
\* hides it (onMessageEvent, FaultDebounce).
ResolvedShown ==
  \A f \in Faults :
    LET n == LastIncident(f)
    IN  /\ n > 0 /\ log[n].kind = "incident_resolved"
        /\ sse = Idle /\ next = Len(log) + 1
        /\ outcome[n] \in {"posted", "debounced"}
        => shown[f] = "resolved"

\* Rows that a ticker finds when it starts, or that were held while it knew of the quiet
\* hours, are reported when these are over (startTicker, flushHeld).
LeftoversFlushed ==
  (up /\ held # <<>> /\ (ticker.was \/ ticker.at = "start"))
    ~> (held = <<>> \/ Active \/ ~up)
=============================================================================
