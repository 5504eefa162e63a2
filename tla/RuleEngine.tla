----------------------------- MODULE RuleEngine -----------------------------
(***************************************************************************)
(* The hub's rule engine and heartbeat monitor for one device source       *)
(* (hub/rules.go) with POST /ingest/metrics that feeds it (hub/ingest.go). *)
(* Timers live in memory and are changed inside a database transaction,    *)
(* which may be rolled back; the heartbeat monitor reads, then writes in a *)
(* transaction of its own, then clears the timers, with other handlers in  *)
(* between.                                                                *)
(*                                                                         *)
(* Time has no origin: a timer holds the time since it was started, up to  *)
(* the period it is compared with.  A measured value is over the limit,    *)
(* under the recovery limit, between them, or absent.  A fault is open or  *)
(* not: that an event the hub makes itself opens or resolves the fault it  *)
(* names is theorem HubResolvesInOrder of HubIngestProofs.  Stored         *)
(* samples, summaries, capabilities and standalone messages are left out.  *)
(***************************************************************************)
EXTENDS Integers, FiniteSets

CONSTANTS
  Labels,       \* label selectors of the threshold rule ("-", "mount=/", ...)
  Containers,   \* container names
  Parts,        \* disks (smart) and storage pools
  Toggled,      \* bound: the rule kinds an administrator switches on and off
  For,          \* forSeconds
  RecoverFor,   \* recoverForSeconds
  HbTimeout,    \* heartbeatSeconds
  MaxAhead,     \* how far sample.ts may be ahead of the hub's clock
  Reports,      \* bound: the samples the agent sends
  MaxTrouble    \* bound: rollbacks, restarts and rule changes

RuleKinds == {"threshold", "container_exit", "smart_pool"}

\* A sample: the value per label, the containers (NoList if they were not collected)
\* and the verdict per part.
Values == [Labels -> {"over", "between", "under", "absent"}]
NoList == [c \in Containers |-> "uncollected"]
Lists == [Containers -> {"running", "stopped", "gone"}] \cup {NoList}
Samples == [value : Values, list : Lists, part : [Parts -> {"bad", "ok", "unknown"}]]

ASSUME RulesOK ==
  /\ {For, RecoverFor, HbTimeout, MaxAhead, MaxTrouble} \subseteq Nat
  /\ Toggled \subseteq RuleKinds
  /\ Reports \subseteq Samples
  /\ Labels \cap (Containers \cup Parts) = {} /\ Containers \cap Parts = {}
  /\ "heartbeat" \notin Labels \cup Containers \cup Parts

VARIABLES
  open,      \* the keys of the open faults
  prev,      \* sources.prev_sample, its containers
  states,    \* ruleEngine.states per label, in memory
  on,        \* the enabled rules
  silent,    \* time since last_seen_at, up to HbTimeout + 1; -1 for NULL
  hb,        \* checkHeartbeats: idle, checked (first read done), pause (committed)
  touched,   \* an ingest call was committed since that first read
  trouble,
  overFor, underFor,  \* history per label: how long every sample was over, under; -1
  reading,            \* history per label: the value of the last applied sample
  verdict,            \* history per part: the last sample that was conclusive
  blind               \* history: the containers whose last transition was not seen

memVars == <<states, hb, touched>>
histVars == <<overFor, underFor, reading, verdict, blind>>
vars == <<open, prev, states, on, silent, hb, touched, trouble, overFor, underFor,
          reading, verdict, blind>>

\* A ruleState; the zero value is the same as no entry in the map.
NoTimer == [breach |-> FALSE, since |-> 0, recovering |-> FALSE, recSince |-> 0]
Timer == [breach : BOOLEAN, since : -MaxAhead..For,
          recovering : BOOLEAN, recSince : -MaxAhead..RecoverFor]

Init ==
  /\ open = {} /\ prev = NoList
  /\ states = [l \in Labels |-> NoTimer]
  /\ on = RuleKinds
  /\ silent = -1 /\ hb = "idle" /\ touched = FALSE
  /\ trouble = 0
  /\ overFor = [l \in Labels |-> -1] /\ underFor = [l \in Labels |-> -1]
  /\ reading = [l \in Labels |-> "absent"]
  /\ verdict = [p \in Parts |-> "ok"]
  /\ blind = Containers

-----------------------------------------------------------------------------
(* evalThreshold, for one label: the timer before the event is sent, the   *)
(* event, the timer after it.  ahead is evalNow less the hub's clock.      *)

\* Mutant: the start of a breach is kept when the value falls.
TimedSticky(t, v, isOpen, ahead) ==
  CASE v = "over" ->
         [t EXCEPT !.breach = TRUE, !.since = IF t.breach THEN t.since ELSE -ahead,
                   !.recovering = FALSE, !.recSince = 0]
    [] v = "under" /\ isOpen ->
         [t EXCEPT !.recovering = TRUE,
                   !.recSince = IF t.recovering THEN t.recSince ELSE -ahead]
    [] OTHER -> t

\* Mutant: a value between the limits does not interrupt the recovery.
TimedHysteresis(t, v, isOpen, ahead) ==
  CASE v = "absent" -> t
    [] v = "over" ->
         [t EXCEPT !.breach = TRUE, !.since = IF t.breach THEN t.since ELSE -ahead,
                   !.recovering = FALSE, !.recSince = 0]
    [] v = "under" /\ isOpen ->
         [breach |-> FALSE, since |-> 0, recovering |-> TRUE,
          recSince |-> IF t.recovering THEN t.recSince ELSE -ahead]
    [] OTHER -> [t EXCEPT !.breach = FALSE, !.since = 0]

\* Mutant: every sample starts the recovery anew.
TimedRestarting(t, v, isOpen, ahead) ==
  CASE v = "absent" -> t
    [] v = "over" ->
         [t EXCEPT !.breach = TRUE, !.since = IF t.breach THEN t.since ELSE -ahead,
                   !.recovering = FALSE, !.recSince = 0]
    [] v = "under" /\ isOpen ->
         [breach |-> FALSE, since |-> 0, recovering |-> TRUE, recSince |-> -ahead]
    [] OTHER -> NoTimer

Timed(t, v, isOpen, ahead) ==
  CASE v = "absent" -> t
    [] v = "over" ->
         [t EXCEPT !.breach = TRUE, !.since = IF t.breach THEN t.since ELSE -ahead,
                   !.recovering = FALSE, !.recSince = 0]
    [] v = "under" /\ isOpen ->
         [breach |-> FALSE, since |-> 0, recovering |-> TRUE,
          recSince |-> IF t.recovering THEN t.recSince ELSE -ahead]
    [] v = "between" /\ isOpen -> NoTimer
    [] OTHER -> [t EXCEPT !.breach = FALSE, !.since = 0]

Opens(t, v, isOpen, ahead) ==
  v = "over" /\ ~isOpen /\ Timed(t, v, isOpen, ahead).since + ahead >= For

Resolves(t, v, isOpen, ahead) ==
  v = "under" /\ isOpen /\ Timed(t, v, isOpen, ahead).recSince + ahead >= RecoverFor

\* *st = ruleState{} after a resolve
Settled(t, v, isOpen, ahead) ==
  IF Resolves(t, v, isOpen, ahead) THEN NoTimer ELSE Timed(t, v, isOpen, ahead)

-----------------------------------------------------------------------------
(* evalSample: the faults open after the sample s, per kind of rule.       *)

ThresholdFaults(s, ahead) ==
  {l \in Labels : IF "threshold" \notin on THEN l \in open
                  ELSE \/ Opens(states[l], s.value[l], l \in open, ahead)
                       \/ l \in open /\ ~Resolves(states[l], s.value[l], TRUE, ahead)}

\* Mutant: a container that has left the list keeps its fault.
ContainerFaultLeft(c, s) ==
  IF s.list = NoList \/ "container_exit" \notin on THEN c \in open
  ELSE CASE prev[c] = "running" /\ s.list[c] = "stopped" -> TRUE
         [] prev[c] = "stopped" /\ s.list[c] = "running" -> FALSE
         [] OTHER                                        -> c \in open

\* evalContainers: transitions between two samples that both list the container;
\* one that has left the list is resolved.  (A restart count that grows only adds
\* to an open fault.)
ContainerFault(c, s) ==
  LET p == prev[c]
      q == s.list[c]
  IN  IF s.list = NoList \/ "container_exit" \notin on THEN c \in open
      ELSE CASE p = "running" /\ q = "stopped"             -> TRUE
             [] p = "stopped" /\ q = "running"             -> FALSE
             [] p \in {"running", "stopped"} /\ q = "gone" -> FALSE
             [] OTHER                                      -> c \in open

\* Mutant: a disk or pool that cannot be read counts as good.
PartFaultUnknownIsOk(p, s) ==
  IF "smart_pool" \notin on THEN p \in open ELSE s.part[p] = "bad"

\* evalSmart, evalPool: asleep, unsupported, failed and unknown change nothing.
PartFault(p, s) ==
  IF "smart_pool" \notin on \/ s.part[p] = "unknown" THEN p \in open
                                                    ELSE s.part[p] = "bad"

FaultsAfter(s, ahead) ==
  ThresholdFaults(s, ahead)
    \cup {c \in Containers : ContainerFault(c, s)}
    \cup {p \in Parts : PartFault(p, s)}

StatesAfter(s, ahead) ==
  IF "threshold" \notin on THEN states
  ELSE [l \in Labels |-> Settled(states[l], s.value[l], l \in open, ahead)]

-----------------------------------------------------------------------------
(* POST /ingest/metrics                                                    *)

\* History: a label is over from the first such sample that reached the rules until
\* an applied sample says otherwise.
Began(h, v, level) == [l \in Labels |-> IF v[l] = level /\ h[l] = -1 THEN 0 ELSE h[l]]
Ended(h, v, level) == [l \in Labels |-> IF v[l] \in {level, "absent"} THEN h[l] ELSE -1]

\* History: a container's transition is seen if the rule is on and both samples list it;
\* without a transition nothing changes.
Blind(c, s) ==
  \/ s.list = NoList \/ "container_exit" \notin on
  \/ prev[c] \notin {"running", "stopped"} /\ prev[c] # s.list[c]
  \/ prev[c] = s.list[c] /\ c \in blind

\* touchSourceSeenTx ends the heartbeat fault; an applied sample is evaluated and kept.
IngestMetrics(s, ahead) ==
  /\ open' = FaultsAfter(s, ahead)
  /\ states' = StatesAfter(s, ahead)
  /\ prev' = s.list
  /\ silent' = 0 /\ touched' = TRUE
  /\ overFor' = Began(Ended(overFor, s.value, "over"), s.value, "over")
  /\ underFor' = Began(Ended(underFor, s.value, "under"), s.value, "under")
  /\ reading' = s.value
  /\ verdict' = [p \in Parts |-> IF s.part[p] = "unknown" THEN verdict[p] ELSE s.part[p]]
  /\ blind' = {c \in Containers : Blind(c, s)}
  /\ UNCHANGED <<on, hb, trouble>>

\* A batch with an old seq, or an events call: the source is seen, nothing else.
IngestDuplicate ==
  /\ open' = open \ {"heartbeat"}
  /\ silent' = 0 /\ touched' = TRUE
  /\ UNCHANGED <<prev, states, on, hb, trouble, histVars>>

\* The transaction of a sample with values v fails at some point and is rolled back.
\* What the rules did to the timers by then stays: nothing, all of it, or all but the
\* reset after a resolve that could not be sent.
IngestFails(v, ahead, done) ==
  /\ trouble < MaxTrouble /\ "threshold" \in on
  /\ trouble' = trouble + 1
  /\ states' = [l \in Labels |->
                  CASE done[l] = "all"    -> Settled(states[l], v[l], l \in open, ahead)
                    [] done[l] = "unsent" -> Timed(states[l], v[l], l \in open, ahead)
                    [] done[l] = "none"   -> states[l]]
  /\ overFor' = Began(overFor, v, "over")
  /\ underFor' = Began(underFor, v, "under")
  /\ UNCHANGED <<open, prev, on, silent, hb, touched, reading, verdict, blind>>

-----------------------------------------------------------------------------
(* checkHeartbeats                                                         *)

Lost == silent > HbTimeout

\* The source is read outside of a transaction.
CheckHeartbeat ==
  /\ hb = "idle"
  /\ Lost /\ "heartbeat" \notin open
  /\ hb' = "checked" /\ touched' = FALSE
  /\ UNCHANGED <<open, prev, states, on, silent, trouble, histVars>>

\* Mutant: the transaction trusts the first read.
LoseHeartbeatUnchecked ==
  /\ hb = "checked"
  /\ open' = open \cup {"heartbeat"}
  /\ hb' = "pause"
  /\ UNCHANGED <<prev, states, on, silent, touched, trouble, histVars>>

\* The transaction reads the source again, against the time of the first read.
LoseHeartbeat ==
  /\ hb = "checked"
  /\ open' = IF touched THEN open ELSE open \cup {"heartbeat"}
  /\ hb' = "pause"
  /\ UNCHANGED <<prev, states, on, silent, touched, trouble, histVars>>

\* The transaction fails: no fault, no pause.
LoseHeartbeatFails ==
  /\ trouble < MaxTrouble
  /\ trouble' = trouble + 1
  /\ hb = "checked" /\ hb' = "idle"
  /\ UNCHANGED <<open, prev, states, on, silent, touched, histVars>>

\* pauseSource, whether or not the transaction found the source lost.
PauseSource ==
  /\ hb = "pause"
  /\ hb' = "idle"
  /\ states' = [l \in Labels |-> NoTimer]
  /\ UNCHANGED <<open, prev, on, silent, touched, trouble, histVars>>

-----------------------------------------------------------------------------
(* Administration, restarts, time.                                         *)

\* handleRulesPut: a rule is switched off or on again; its timers stay.
RulesPut(k) ==
  /\ trouble < MaxTrouble
  /\ trouble' = trouble + 1
  /\ on' = IF k \in on THEN on \ {k} ELSE on \cup {k}
  /\ UNCHANGED <<open, prev, states, silent, hb, touched, histVars>>

\* The hub restarts with the engine's map empty.
Restart ==
  /\ trouble < MaxTrouble
  /\ trouble' = trouble + 1
  /\ states' = [l \in Labels |-> NoTimer]
  /\ hb' = "idle"
  /\ UNCHANGED <<open, prev, on, silent, touched, histVars>>

Older(age, cap) == IF age < cap THEN age + 1 ELSE age
Aged(h, cap) == [l \in Labels |-> IF h[l] = -1 THEN -1 ELSE Older(h[l], cap)]

Tick ==
  /\ states' = [l \in Labels |->
       [states[l] EXCEPT !.since = IF states[l].breach THEN Older(@, For) ELSE @,
                         !.recSince = IF states[l].recovering THEN Older(@, RecoverFor) ELSE @]]
  /\ silent' = IF silent = -1 THEN -1 ELSE Older(silent, HbTimeout + 1)
  /\ overFor' = Aged(overFor, For)
  /\ underFor' = Aged(underFor, RecoverFor)
  /\ UNCHANGED <<open, prev, on, hb, touched, trouble, reading, verdict, blind>>

Ingest == \E s \in Reports, ahead \in 0..MaxAhead : IngestMetrics(s, ahead)

Next ==
  \/ Ingest \/ IngestDuplicate
  \/ \E v \in Values, ahead \in 0..MaxAhead, done \in [Labels -> {"none", "unsent", "all"}] :
       IngestFails(v, ahead, done)
  \/ CheckHeartbeat \/ LoseHeartbeat \/ LoseHeartbeatFails \/ PauseSource
  \/ \E k \in Toggled : RulesPut(k)
  \/ Restart
  \/ Tick

Spec == Init /\ [][Next]_vars

\* Time passes and the agent keeps reporting.
FairSpec == Spec /\ WF_vars(Tick) /\ WF_vars(Ingest)

-----------------------------------------------------------------------------
\* Type invariant: faults, timers and the monitor's progress.
TypeOK ==
  /\ open \subseteq Labels \cup Containers \cup Parts \cup {"heartbeat"}
  /\ prev \in Lists
  /\ states \in [Labels -> Timer]
  /\ on \subseteq RuleKinds
  /\ silent \in -1..(HbTimeout + 1)
  /\ hb \in {"idle", "checked", "pause"} /\ touched \in BOOLEAN
  /\ trouble \in 0..MaxTrouble
  /\ overFor \in [Labels -> -1..For] /\ underFor \in [Labels -> -1..RecoverFor]
  /\ reading \in Values /\ verdict \in [Parts -> {"bad", "ok"}]

\* A threshold fault opens only after its value has been over the limit in every
\* sample for forSeconds, up to the error of the source's clock, whatever was rolled
\* back, forgotten or paused in between (evalThreshold; events.md section 4).
OpensAfterWindow ==
  [][\A l \in Labels : l \in open' \ open => overFor'[l] >= For - MaxAhead]_open

\* It resolves only after the value has been under the recovery limit in every sample
\* for recoverForSeconds (evalThreshold).
ResolvesAfterWindow ==
  [][\A l \in Labels : l \in open \ open' => underFor'[l] >= RecoverFor - MaxAhead]_open

\* A heartbeat fault is open only while the source is silent, although the monitor
\* decides on a read that an ingest call may overtake (checkHeartbeats).
HeartbeatTrue == "heartbeat" \in open => Lost

\* A disk or pool fault is open exactly while the last conclusive verdict on it was
\* bad, whatever was rolled back and however often the hub restarted (evalSmart,
\* evalPool).
PartsFollowVerdict == \A p \in Parts : p \in open <=> verdict[p] = "bad"

\* Once every sample is under the recovery limit and the source stays in touch, a
\* threshold fault is resolved in the end (evalThreshold, pauseSource).
ThresholdClears ==
  \A l \in Labels :
    <>[](reading[l] = "under" /\ ~Lost) => <>[](l \notin open)

\* A container's fault follows the last sample (open while it is stopped, resolved when
\* it runs or has left the list), unless a sample without a list, a sample that did not
\* list it, or a rule switched off has hidden its last transition (evalContainers).
ContainerFollowsList ==
  \A c \in Containers \ blind : c \in open <=> prev[c] = "stopped"
=============================================================================
