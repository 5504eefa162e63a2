----------------------------- MODULE RuleProofs -----------------------------
(***************************************************************************)
(* The rule engine and the heartbeat monitor, for any rules, samples and   *)
(* periods, and for any number of rollbacks, restarts and rule changes.    *)
(* The history variables of RuleEngine say what the samples said; the      *)
(* invariants relate the engine's timers and faults to them.               *)
(***************************************************************************)
EXTENDS RuleEngine, TLAPS

Level == {"over", "between", "under", "absent"}
Since == -MaxAhead..For
RecSince == -MaxAhead..RecoverFor

LEMMA TimerType == Timer = [breach : BOOLEAN, since : Since, recovering : BOOLEAN, recSince : RecSince]
BY DEF Timer, Since, RecSince

\* The periods of the rule, and the timer that is not running.
LEMMA Periods ==
  /\ For \in Nat /\ RecoverFor \in Nat /\ HbTimeout \in Nat /\ MaxAhead \in Nat /\ MaxTrouble \in Nat
  /\ 0 \in Since /\ 0 \in RecSince /\ \A ahead \in 0..MaxAhead : -ahead \in Since /\ -ahead \in RecSince
BY RulesOK DEF Since, RecSince

LEMMA NoTimerOK == NoTimer \in Timer /\ ~NoTimer.breach /\ ~NoTimer.recovering
<1>1. NoTimer \in Timer
  BY Periods, TimerType, Zenon DEF NoTimer
<1> QED BY <1>1 DEF NoTimer

\* evalThreshold on one label, by the value of the sample.
LEMMA TimedOver ==
  ASSUME NEW t \in Timer, NEW b \in BOOLEAN, NEW ahead \in 0..MaxAhead
  PROVE  LET n == Timed(t, "over", b, ahead) IN
         /\ n \in Timer /\ n.breach = TRUE /\ n.recovering = FALSE
         /\ n.since = IF t.breach THEN t.since ELSE -ahead
<1> DEFINE s == IF t.breach THEN t.since ELSE -ahead
           n == [t EXCEPT !.breach = TRUE, !.since = s, !.recovering = FALSE, !.recSince = 0]
<1>1. Timed(t, "over", b, ahead) = n
  BY DEF Timed
<1>2. s \in Since
  BY Periods, TimerType
<1> HIDE DEF s
<1>3. n \in Timer
  BY <1>2, Periods, TimerType, Zenon
<1>4. n.breach = TRUE /\ n.recovering = FALSE /\ n.since = s
  BY TimerType
<1> HIDE DEF n
<1> QED BY <1>1, <1>3, <1>4 DEF s

LEMMA TimedUnderOpen ==
  ASSUME NEW t \in Timer, NEW ahead \in 0..MaxAhead
  PROVE  LET n == Timed(t, "under", TRUE, ahead) IN
         /\ n \in Timer /\ n.breach = FALSE /\ n.recovering = TRUE
         /\ n.recSince = IF t.recovering THEN t.recSince ELSE -ahead
<1> DEFINE s == IF t.recovering THEN t.recSince ELSE -ahead
           n == [breach |-> FALSE, since |-> 0, recovering |-> TRUE, recSince |-> s]
<1>1. Timed(t, "under", TRUE, ahead) = n
  BY DEF Timed
<1>2. s \in RecSince
  BY Periods, TimerType
<1> HIDE DEF s
<1>3. n \in Timer
  BY <1>2, Periods, TimerType, Zenon
<1>4. n.breach = FALSE /\ n.recovering = TRUE /\ n.recSince = s
  OBVIOUS
<1> HIDE DEF n
<1> QED BY <1>1, <1>3, <1>4 DEF s

\* A value that is not over the limit ends the breach; without an open fault the
\* recovery timer is left as it is.
LEMMA TimedElse ==
  ASSUME NEW t \in Timer, NEW v \in {"under", "between"}, NEW o \in BOOLEAN,
         NEW ahead \in 0..MaxAhead, ~(v = "under" /\ o)
  PROVE  LET n == Timed(t, v, o, ahead) IN
         /\ n \in Timer /\ n.breach = FALSE
         /\ o => n.recovering = FALSE
         /\ ~o => n.recovering = t.recovering /\ n.recSince = t.recSince
<1>1. CASE v = "between" /\ o
  <2>1. Timed(t, v, o, ahead) = NoTimer
    BY <1>1 DEF Timed
  <2>2. NoTimer.breach = FALSE /\ NoTimer.recovering = FALSE
    BY DEF NoTimer
  <2> QED BY <1>1, <2>1, <2>2, NoTimerOK, Zenon
<1>2. CASE ~o
  <2> DEFINE n == [t EXCEPT !.breach = FALSE, !.since = 0]
  <2>1. Timed(t, v, o, ahead) = n
    BY <1>2 DEF Timed
  <2>2. n \in Timer
    BY Periods, TimerType, Zenon
  <2>3. n.breach = FALSE /\ n.recovering = t.recovering /\ n.recSince = t.recSince
    BY TimerType
  <2> HIDE DEF n
  <2> QED BY <1>2, <2>1, <2>2, <2>3
<1> QED BY <1>1, <1>2

LEMMA TimedAbsent ==
  ASSUME NEW t, NEW o, NEW ahead
  PROVE  Timed(t, "absent", o, ahead) = t
BY DEF Timed

LEMMA TimedType ==
  ASSUME NEW t \in Timer, NEW v \in Level, NEW o \in BOOLEAN, NEW ahead \in 0..MaxAhead
  PROVE  Timed(t, v, o, ahead) \in Timer /\ Settled(t, v, o, ahead) \in Timer
<1>1. Timed(t, v, o, ahead) \in Timer
  <2>1. CASE v = "over"
    BY <2>1, TimedOver
  <2>2. CASE v = "under" /\ o
    <3>1. o = TRUE
      BY <2>2
    <3> QED BY <2>2, <3>1, TimedUnderOpen
  <2>3. CASE v \in {"under", "between"} /\ ~(v = "under" /\ o)
    BY <2>3, TimedElse
  <2>4. CASE v = "absent"
    BY <2>4, TimedAbsent
  <2> QED BY <2>1, <2>2, <2>3, <2>4 DEF Level
<1> QED BY <1>1, NoTimerOK DEF Settled

-----------------------------------------------------------------------------
(* Types.                                                                  *)

LEMMA LevelsOf == Values = [Labels -> Level]
BY DEF Values, Level

LEMMA InitTypes == Init => TypeOK
<1> SUFFICES ASSUME Init PROVE TypeOK
  OBVIOUS
<1>1. states \in [Labels -> Timer]
  BY NoTimerOK DEF Init
<1>2. prev \in Lists /\ on \subseteq RuleKinds /\ open = {} /\ silent = -1 /\ hb = "idle" /\ touched = FALSE /\ trouble = 0
  BY DEF Init, Lists
<1>3. -1 \in -1..For /\ -1 \in -1..RecoverFor /\ -1 \in -1..(HbTimeout + 1) /\ 0 \in 0..MaxTrouble
  BY Periods
<1>4. overFor \in [Labels -> -1..For] /\ underFor \in [Labels -> -1..RecoverFor]
  BY <1>3 DEF Init
<1>5. reading \in Values /\ verdict \in [Parts -> {"bad", "ok"}]
  BY DEF Init, Values
<1> QED BY <1>1, <1>2, <1>3, <1>4, <1>5 DEF TypeOK

\* The history of a label stays within the period.
LEMMA HistoryTypes ==
  ASSUME NEW N \in Nat, NEW h \in [Labels -> -1..N], NEW v, NEW level
  PROVE  /\ Began(h, v, level) \in [Labels -> -1..N]
         /\ Ended(h, v, level) \in [Labels -> -1..N]
         /\ Aged(h, N) \in [Labels -> -1..N]
BY DEF Began, Ended, Aged, Older

LEMMA FaultKeys ==
  ASSUME NEW s, NEW ahead
  PROVE  FaultsAfter(s, ahead) \subseteq Labels \cup Containers \cup Parts
BY DEF FaultsAfter, ThresholdFaults

LEMMA StepTypes == TypeOK /\ [Next]_vars => TypeOK'
<1> SUFFICES ASSUME TypeOK, [Next]_vars PROVE TypeOK'
  OBVIOUS
<1>a. /\ states \in [Labels -> Timer]
      /\ overFor \in [Labels -> -1..For] /\ underFor \in [Labels -> -1..RecoverFor]
      /\ trouble \in 0..MaxTrouble /\ silent \in -1..(HbTimeout + 1)
      /\ open \subseteq Labels \cup Containers \cup Parts \cup {"heartbeat"}
      /\ verdict \in [Parts -> {"bad", "ok"}] /\ prev \in Lists /\ on \subseteq RuleKinds
  BY DEF TypeOK
<1>b. [l \in Labels |-> NoTimer] \in [Labels -> Timer]
  BY NoTimerOK
<1>c. trouble < MaxTrouble => trouble + 1 \in 0..MaxTrouble
  BY <1>a, Periods
<1>1. ASSUME NEW s \in Reports, NEW ahead \in 0..MaxAhead, IngestMetrics(s, ahead) PROVE TypeOK'
  <2>1. s \in Samples /\ s.value \in [Labels -> Level] /\ s.list \in Lists
        /\ s.part \in [Parts -> {"bad", "ok", "unknown"}]
    BY RulesOK, LevelsOf DEF Samples
  <2>2. StatesAfter(s, ahead) \in [Labels -> Timer]
    <3> DEFINE n(l) == Settled(states[l], s.value[l], l \in open, ahead)
    <3>1. ASSUME NEW l \in Labels PROVE n(l) \in Timer
      <4>1. states[l] \in Timer /\ s.value[l] \in Level /\ (l \in open) \in BOOLEAN
        BY <1>a, <2>1
      <4> QED BY <4>1, TimedType
    <3>2. StatesAfter(s, ahead) = IF "threshold" \notin on THEN states ELSE [l \in Labels |-> n(l)]
      BY DEF StatesAfter
    <3> HIDE DEF n
    <3> QED BY <1>a, <3>1, <3>2
  <2>3. /\ overFor' \in [Labels -> -1..For] /\ underFor' \in [Labels -> -1..RecoverFor]
    <3>1. /\ Ended(overFor, s.value, "over") \in [Labels -> -1..For]
          /\ Ended(underFor, s.value, "under") \in [Labels -> -1..RecoverFor]
      BY <1>a, Periods, HistoryTypes
    <3> QED BY <1>1, <3>1, Periods, HistoryTypes DEF IngestMetrics
  <2>4. verdict' \in [Parts -> {"bad", "ok"}]
    BY <1>1, <1>a, <2>1 DEF IngestMetrics
  <2>5. /\ open' \subseteq Labels \cup Containers \cup Parts \cup {"heartbeat"}
        /\ prev' \in Lists /\ states' \in [Labels -> Timer] /\ reading' \in Values
        /\ UNCHANGED <<on, hb, trouble>> /\ touched' = TRUE /\ silent' = 0
    BY <1>1, <2>1, <2>2, FaultKeys, LevelsOf DEF IngestMetrics
  <2>6. 0 \in -1..(HbTimeout + 1)
    BY Periods
  <2> QED BY <2>3, <2>4, <2>5, <2>6 DEF TypeOK
<1>2. CASE IngestDuplicate
  <2>1. 0 \in -1..(HbTimeout + 1)
    BY Periods
  <2> QED BY <1>2, <2>1 DEF TypeOK, IngestDuplicate, histVars
<1>3. ASSUME NEW v \in Values, NEW ahead \in 0..MaxAhead,
             NEW done \in [Labels -> {"none", "unsent", "all"}], IngestFails(v, ahead, done)
      PROVE  TypeOK'
  <2>1. v \in [Labels -> Level]
    BY LevelsOf
  <2>2. states' \in [Labels -> Timer]
    <3> DEFINE n(l) == CASE done[l] = "all"    -> Settled(states[l], v[l], l \in open, ahead)
                         [] done[l] = "unsent" -> Timed(states[l], v[l], l \in open, ahead)
                         [] done[l] = "none"   -> states[l]
    <3>1. ASSUME NEW l \in Labels PROVE n(l) \in Timer
      <4>1. states[l] \in Timer /\ v[l] \in Level /\ (l \in open) \in BOOLEAN
        BY <1>a, <2>1
      <4>2. /\ Settled(states[l], v[l], l \in open, ahead) \in Timer
            /\ Timed(states[l], v[l], l \in open, ahead) \in Timer
        BY <4>1, TimedType
      <4> QED BY <4>1, <4>2
    <3>2. states' = [l \in Labels |-> n(l)]
      BY <1>3 DEF IngestFails
    <3> HIDE DEF n
    <3> QED BY <3>1, <3>2
  <2>3. overFor' \in [Labels -> -1..For] /\ underFor' \in [Labels -> -1..RecoverFor]
    BY <1>3, <1>a, Periods, HistoryTypes DEF IngestFails
  <2> QED BY <1>3, <1>c, <2>2, <2>3 DEF TypeOK, IngestFails
<1>4. CASE CheckHeartbeat \/ LoseHeartbeat
  BY <1>4 DEF TypeOK, CheckHeartbeat, LoseHeartbeat, histVars
<1>5. CASE LoseHeartbeatFails
  BY <1>5, <1>c DEF TypeOK, LoseHeartbeatFails, histVars
<1>6. CASE PauseSource
  BY <1>6, <1>b DEF TypeOK, PauseSource, histVars
<1>7. ASSUME NEW k \in Toggled, RulesPut(k) PROVE TypeOK'
  <2>1. on' \subseteq RuleKinds
    BY <1>7, <1>a, RulesOK DEF RulesPut
  <2> QED BY <1>7, <1>c, <2>1 DEF TypeOK, RulesPut, histVars
<1>8. CASE Restart
  BY <1>8, <1>b, <1>c DEF TypeOK, Restart, histVars
<1>9. CASE Tick
  <2>1. states' \in [Labels -> Timer]
    <3> DEFINE s(l) == IF states[l].breach THEN Older(states[l].since, For) ELSE states[l].since
               r(l) == IF states[l].recovering THEN Older(states[l].recSince, RecoverFor) ELSE states[l].recSince
               n(l) == [states[l] EXCEPT !.since = s(l), !.recSince = r(l)]
    <3>1. ASSUME NEW l \in Labels PROVE n(l) \in Timer
      <4>1. states[l] \in Timer
        BY <1>a
      <4>2. s(l) \in Since /\ r(l) \in RecSince
        BY <4>1, Periods, TimerType DEF Older, Since, RecSince
      <4> HIDE DEF s, r
      <4> QED BY <4>1, <4>2, TimerType, Zenon
    <3>2. states' = [l \in Labels |-> n(l)]
      BY <1>9 DEF Tick
    <3> HIDE DEF n
    <3> QED BY <3>1, <3>2
  <2>2. overFor' \in [Labels -> -1..For] /\ underFor' \in [Labels -> -1..RecoverFor]
    BY <1>9, <1>a, Periods, HistoryTypes DEF Tick
  <2>3. silent' \in -1..(HbTimeout + 1)
    <3>1. silent' = IF silent = -1 THEN -1 ELSE Older(silent, HbTimeout + 1)
      BY <1>9 DEF Tick
    <3> QED BY <3>1, <1>a, Periods DEF Older
  <2> QED BY <1>9, <2>1, <2>2, <2>3 DEF TypeOK, Tick
<1>10. CASE UNCHANGED vars
  BY <1>10 DEF TypeOK, vars
<1> QED BY <1>1, <1>2, <1>3, <1>4, <1>5, <1>6, <1>7, <1>8, <1>9, <1>10 DEF Next, Ingest

\* Every reachable state is well typed: no timer leaves the period it is compared with.
THEOREM RulesTypeCorrect == Spec => []TypeOK
BY InitTypes, StepTypes, PTL DEF Spec

-----------------------------------------------------------------------------
(* The heartbeat monitor.                                                  *)

\* Between the monitor's read and its transaction the source either stays silent or is
\* marked as touched.
HbInv ==
  /\ TypeOK
  /\ hb = "checked" /\ ~touched => Lost
  /\ HeartbeatTrue

LEMMA InitHb == Init => HbInv
<1>1. Init => "heartbeat" \notin open /\ hb # "checked"
  BY DEF Init
<1> QED BY <1>1, InitTypes DEF HbInv, HeartbeatTrue

LEMMA StepHb == HbInv /\ [Next]_vars => HbInv'
<1> SUFFICES ASSUME HbInv, [Next]_vars PROVE HbInv'
  OBVIOUS
<1>t. TypeOK' /\ TypeOK
  BY StepTypes DEF HbInv
<1>1. ASSUME UNCHANGED <<open, silent, hb, touched>> PROVE HbInv'
  BY <1>1, <1>t DEF HbInv, HeartbeatTrue, Lost
<1>2. ASSUME NEW s \in Reports, NEW ahead \in 0..MaxAhead, IngestMetrics(s, ahead) PROVE HbInv'
  <2>1. "heartbeat" \notin open'
    BY <1>2, FaultKeys, RulesOK DEF IngestMetrics
  <2>2. touched'
    BY <1>2 DEF IngestMetrics
  <2> QED BY <1>t, <2>1, <2>2 DEF HbInv, HeartbeatTrue
<1>3. CASE IngestDuplicate
  BY <1>3, <1>t DEF HbInv, HeartbeatTrue, IngestDuplicate
<1>4. ASSUME NEW v, NEW ahead, NEW done, IngestFails(v, ahead, done) PROVE HbInv'
  BY <1>1, <1>4 DEF IngestFails
<1>5. CASE CheckHeartbeat
  BY <1>5, <1>t DEF HbInv, HeartbeatTrue, Lost, CheckHeartbeat
<1>6. CASE LoseHeartbeat
  BY <1>6, <1>t DEF HbInv, HeartbeatTrue, Lost, LoseHeartbeat
<1>7. CASE LoseHeartbeatFails \/ PauseSource \/ Restart
  BY <1>7, <1>t DEF HbInv, HeartbeatTrue, Lost, LoseHeartbeatFails, PauseSource, Restart
<1>8. ASSUME NEW k, RulesPut(k) PROVE HbInv'
  BY <1>1, <1>8 DEF RulesPut
<1>9. CASE Tick
  <2>1. /\ silent' = IF silent = -1 THEN -1 ELSE Older(silent, HbTimeout + 1)
        /\ UNCHANGED <<open, hb, touched>>
    BY <1>9 DEF Tick
  <2>2. silent \in -1..(HbTimeout + 1)
    BY <1>t DEF TypeOK
  <2>3. Lost => Lost'
    BY <2>1, <2>2, Periods DEF Lost, Older
  <2> QED BY <1>t, <2>1, <2>3 DEF HbInv, HeartbeatTrue
<1>10. CASE UNCHANGED vars
  BY <1>1, <1>10 DEF vars
<1> QED BY <1>2, <1>3, <1>4, <1>5, <1>6, <1>7, <1>8, <1>9, <1>10 DEF Next, Ingest

\* A heartbeat fault is open only while the source is silent, although the monitor
\* decides on a read that any number of ingest calls may overtake (checkHeartbeats).
THEOREM HeartbeatHonest == Spec => []HeartbeatTrue
<1>1. HbInv => HeartbeatTrue
  BY DEF HbInv
<1> QED BY <1>1, InitHb, StepHb, PTL DEF Spec

-----------------------------------------------------------------------------
(* Disks, pools and containers.                                            *)

\* A fault key that is neither of the keys of FaultsAfter's other kinds.
LEMMA PartKey ==
  ASSUME NEW p \in Parts, NEW s, NEW ahead
  PROVE  p \in FaultsAfter(s, ahead) <=> PartFault(p, s)
BY RulesOK DEF FaultsAfter, ThresholdFaults

LEMMA ContainerKey ==
  ASSUME NEW c \in Containers, NEW s, NEW ahead
  PROVE  c \in FaultsAfter(s, ahead) <=> ContainerFault(c, s)
BY RulesOK DEF FaultsAfter, ThresholdFaults

LEMMA LabelKey ==
  ASSUME NEW l \in Labels, NEW s, NEW ahead
  PROVE  l \in FaultsAfter(s, ahead) <=>
           IF "threshold" \notin on THEN l \in open
           ELSE \/ Opens(states[l], s.value[l], l \in open, ahead)
                \/ l \in open /\ ~Resolves(states[l], s.value[l], TRUE, ahead)
BY RulesOK DEF FaultsAfter, ThresholdFaults

\* Only a sample changes the faults of labels, containers and parts.
LEMMA OnlySamples ==
  ASSUME [Next]_vars, ~Ingest
  PROVE  /\ \A k \in Labels \cup Containers \cup Parts : k \in open' <=> k \in open
         /\ UNCHANGED <<prev, verdict, blind>>
<1>1. "heartbeat" \notin Labels \cup Containers \cup Parts
  BY RulesOK
<1>2. CASE IngestDuplicate
  BY <1>1, <1>2 DEF IngestDuplicate, histVars
<1>3. ASSUME NEW v, NEW ahead, NEW done, IngestFails(v, ahead, done)
      PROVE  UNCHANGED <<open, prev, verdict, blind>>
  BY <1>3 DEF IngestFails
<1>4. CASE LoseHeartbeat
  BY <1>1, <1>4 DEF LoseHeartbeat, histVars
<1>5. ASSUME CheckHeartbeat \/ LoseHeartbeatFails \/ PauseSource \/ Restart \/ Tick \/ UNCHANGED vars
      PROVE  UNCHANGED <<open, prev, verdict, blind>>
  BY <1>5 DEF CheckHeartbeat, LoseHeartbeatFails, PauseSource, Restart, Tick, vars, histVars
<1>6. ASSUME NEW k, RulesPut(k) PROVE UNCHANGED <<open, prev, verdict, blind>>
  BY <1>6 DEF RulesPut, histVars
<1> QED BY <1>2, <1>3, <1>4, <1>5, <1>6 DEF Next

\* The rules that no administrator switches stay on.
StaysOn(k) == k \in on

LEMMA InitOn == ASSUME NEW k \in RuleKinds PROVE Init => StaysOn(k)
BY DEF Init, StaysOn

LEMMA StepOn == ASSUME NEW k, k \notin Toggled PROVE StaysOn(k) /\ [Next]_vars => StaysOn(k)'
<1> SUFFICES ASSUME StaysOn(k), [Next]_vars PROVE StaysOn(k)'
  OBVIOUS
<1>1. ASSUME NEW j \in Toggled, RulesPut(j) PROVE k \in on'
  BY <1>1 DEF RulesPut, StaysOn
<1>2. ASSUME NEW s, NEW ahead, IngestMetrics(s, ahead) PROVE on' = on
  BY <1>2 DEF IngestMetrics
<1>3. ASSUME NEW v, NEW ahead, NEW done, IngestFails(v, ahead, done) PROVE on' = on
  BY <1>3 DEF IngestFails
<1>4. ASSUME \/ IngestDuplicate \/ CheckHeartbeat \/ LoseHeartbeat \/ LoseHeartbeatFails
             \/ PauseSource \/ Restart \/ Tick \/ UNCHANGED vars
      PROVE  on' = on
  BY <1>4 DEF IngestDuplicate, CheckHeartbeat, LoseHeartbeat, LoseHeartbeatFails, PauseSource,
              Restart, Tick, vars
<1> QED BY <1>1, <1>2, <1>3, <1>4 DEF Next, Ingest, StaysOn

PartInv == TypeOK /\ StaysOn("smart_pool") /\ PartsFollowVerdict

\* While its rule is on, the fault of a disk or pool is open exactly when the last
\* conclusive verdict was bad, across rollbacks and restarts (evalSmart, evalPool).
THEOREM PartsTrue ==
  ASSUME "smart_pool" \notin Toggled
  PROVE  Spec => []PartsFollowVerdict
<1>1. Init => PartInv
  <2>1. Init => PartsFollowVerdict
    BY DEF Init, PartsFollowVerdict
  <2> QED BY <2>1, InitTypes, InitOn DEF PartInv, RuleKinds
<1>2. PartInv /\ [Next]_vars => PartInv'
  <2> SUFFICES ASSUME PartInv, [Next]_vars PROVE PartsFollowVerdict'
    BY StepTypes, StepOn DEF PartInv
  <2>1. CASE Ingest
    <3>1. PICK s \in Reports, ahead \in 0..MaxAhead : IngestMetrics(s, ahead)
      BY <2>1 DEF Ingest
    <3> SUFFICES ASSUME NEW p \in Parts PROVE p \in open' <=> verdict'[p] = "bad"
      BY DEF PartsFollowVerdict
    <3>2. s.part[p] \in {"bad", "ok", "unknown"}
      BY RulesOK DEF Samples
    <3>3. verdict'[p] = IF s.part[p] = "unknown" THEN verdict[p] ELSE s.part[p]
      BY <3>1 DEF IngestMetrics
    <3>4. p \in open' <=> PartFault(p, s)
      BY <3>1, PartKey DEF IngestMetrics
    <3> QED BY <3>2, <3>3, <3>4 DEF PartFault, PartInv, StaysOn, PartsFollowVerdict
  <2>2. CASE ~Ingest
    BY <2>2, OnlySamples DEF PartInv, PartsFollowVerdict
  <2> QED BY <2>1, <2>2
<1>3. PartInv => PartsFollowVerdict
  BY DEF PartInv
<1> QED BY <1>1, <1>2, <1>3, PTL DEF Spec

ContainerInv == TypeOK /\ ContainerFollowsList

\* Unless its last transition was hidden, a container's fault is open exactly when the
\* last sample lists it as stopped, whatever rules were switched (evalContainers).
THEOREM ContainersTrue == Spec => []ContainerFollowsList
<1>1. Init => ContainerInv
  <2>1. Init => ContainerFollowsList
    BY DEF Init, ContainerFollowsList
  <2> QED BY <2>1, InitTypes DEF ContainerInv
<1>2. ContainerInv /\ [Next]_vars => ContainerInv'
  <2> SUFFICES ASSUME ContainerInv, [Next]_vars PROVE ContainerFollowsList'
    BY StepTypes DEF ContainerInv
  <2>1. CASE Ingest
    <3>1. PICK s \in Reports, ahead \in 0..MaxAhead : IngestMetrics(s, ahead)
      BY <2>1 DEF Ingest
    <3> SUFFICES ASSUME NEW c \in Containers, c \notin blind'
                 PROVE  c \in open' <=> prev'[c] = "stopped"
      BY DEF ContainerFollowsList
    <3>2. prev' = s.list /\ s.list \in Lists
      BY <3>1, RulesOK DEF IngestMetrics, Samples
    <3>3. ~Blind(c, s)
      BY <3>1 DEF IngestMetrics
    <3>4. s.list # NoList /\ "container_exit" \in on
      BY <3>3 DEF Blind
    <3>5. s.list[c] \in {"running", "stopped", "gone"}
      BY <3>2, <3>4 DEF Lists
    <3>6. c \in open' <=> ContainerFault(c, s)
      BY <3>1, ContainerKey DEF IngestMetrics
    <3>7. CASE prev[c] = s.list[c]
      <4>1. c \in open <=> prev[c] = "stopped"
        BY <3>3, <3>7 DEF Blind, ContainerInv, ContainerFollowsList
      <4> QED BY <3>2, <3>4, <3>5, <3>6, <3>7, <4>1 DEF ContainerFault
    <3>8. CASE prev[c] # s.list[c]
      <4>1. prev[c] \in {"running", "stopped"}
        BY <3>3, <3>8 DEF Blind
      <4> QED BY <3>2, <3>4, <3>5, <3>6, <3>8, <4>1 DEF ContainerFault
    <3> QED BY <3>7, <3>8
  <2>2. CASE ~Ingest
    BY <2>2, OnlySamples DEF ContainerInv, ContainerFollowsList
  <2> QED BY <2>1, <2>2
<1>3. ContainerInv => ContainerFollowsList
  BY DEF ContainerInv
<1> QED BY <1>1, <1>2, <1>3, PTL DEF Spec

-----------------------------------------------------------------------------
(* The windows of the threshold rule.                                      *)

\* A running timer is not older than the history it measures, and only an open fault
\* recovers.
TimerTrue(t, o, u, isOpen) ==
  /\ t.breach => o >= 0 /\ t.since <= o
  /\ t.recovering => isOpen /\ u >= 0 /\ t.recSince <= u

WindowInv ==
  /\ TypeOK
  /\ StaysOn("threshold")
  /\ \A l \in Labels : TimerTrue(states[l], overFor[l], underFor[l], l \in open)

\* What a sample does to the history of a label: o and u become p and q.
Continues(v, level, o, p) ==
  /\ v = level => p >= 0 /\ p >= o
  /\ v = "absent" => p = o

\* evalThreshold keeps the timers true, whether or not its event could be sent.
LEMMA TimedTrue ==
  ASSUME NEW t \in Timer, NEW v \in Level, NEW isOpen \in BOOLEAN, NEW ahead \in 0..MaxAhead,
         NEW o \in Int, NEW u \in Int, NEW p \in Int, NEW q \in Int,
         TimerTrue(t, o, u, isOpen), Continues(v, "over", o, p), Continues(v, "under", u, q)
  PROVE  /\ TimerTrue(Timed(t, v, isOpen, ahead), p, q, isOpen)
         /\ TimerTrue(Settled(t, v, isOpen, ahead), p, q, isOpen)
<1> DEFINE n == Timed(t, v, isOpen, ahead)
<1>0. t.since \in Int /\ t.recSince \in Int /\ MaxAhead \in Nat /\ -ahead <= 0 /\ -ahead \in Int
  BY Periods, TimerType DEF Since, RecSince
<1>1. TimerTrue(n, p, q, isOpen)
  <2>1. CASE v = "over"
    <3>1. n.breach = TRUE /\ n.recovering = FALSE /\ n.since = IF t.breach THEN t.since ELSE -ahead
      <4>1. n = [t EXCEPT !.breach = TRUE, !.since = IF t.breach THEN t.since ELSE -ahead,
                          !.recovering = FALSE, !.recSince = 0]
        BY <2>1 DEF Timed
      <4> HIDE DEF n
      <4> QED BY <4>1, TimerType
    <3>2. p >= 0 /\ p >= o
      BY <2>1 DEF Continues
    <3> HIDE DEF n
    <3>3. n.since <= p
      <4>1. CASE t.breach
        BY <1>0, <3>1, <3>2, <4>1 DEF TimerTrue
      <4>2. CASE ~t.breach
        BY <1>0, <3>1, <3>2, <4>2
      <4> QED BY <4>1, <4>2
    <3> QED BY <3>1, <3>2, <3>3 DEF TimerTrue
  <2>2. CASE v = "under" /\ isOpen
    <3>0. isOpen = TRUE
      BY <2>2
    <3>1. n.breach = FALSE /\ n.recSince = IF t.recovering THEN t.recSince ELSE -ahead
      BY <2>2, <3>0, TimedUnderOpen
    <3>2. q >= 0 /\ q >= u
      BY <2>2 DEF Continues
    <3>3. n.recSince <= q
      BY <1>0, <3>1, <3>2 DEF TimerTrue
    <3> HIDE DEF n
    <3> QED BY <2>2, <3>1, <3>2, <3>3 DEF TimerTrue
  <2>3. CASE v \in {"under", "between"} /\ ~(v = "under" /\ isOpen)
    <3>1. n.breach = FALSE /\ (isOpen => n.recovering = FALSE) /\ (~isOpen => n.recovering = t.recovering)
      BY <2>3, TimedElse
    <3>2. ~isOpen => ~t.recovering
      BY DEF TimerTrue
    <3>3. ~n.breach /\ ~n.recovering
      BY <3>1, <3>2
    <3> HIDE DEF n
    <3> QED BY <3>3 DEF TimerTrue
  <2>4. CASE v = "absent"
    <3>1. n = t /\ p = o /\ q = u
      BY <2>4, TimedAbsent DEF Continues
    <3> HIDE DEF n
    <3> QED BY <3>1
  <2> QED BY <2>1, <2>2, <2>3, <2>4 DEF Level
<1>2. TimerTrue(NoTimer, p, q, isOpen)
  BY NoTimerOK DEF TimerTrue
<1> HIDE DEF n
<1> QED BY <1>1, <1>2 DEF Settled, n

\* A fault opens only when the history has filled the window, and resolves likewise.
LEMMA OpensTrue ==
  ASSUME NEW t \in Timer, NEW v, NEW ahead \in 0..MaxAhead, NEW o \in Int, NEW p \in Int,
         t.breach => o >= 0 /\ t.since <= o, Continues(v, "over", o, p),
         Opens(t, v, FALSE, ahead)
  PROVE  p >= For - MaxAhead
<1>1. v = "over" /\ Timed(t, v, FALSE, ahead).since + ahead >= For
  BY DEF Opens
<1>2. Timed(t, v, FALSE, ahead).since = IF t.breach THEN t.since ELSE -ahead
  BY <1>1, TimedOver
<1>3. p >= 0 /\ p >= o
  BY <1>1 DEF Continues
<1>4. t.since \in Int /\ MaxAhead \in Nat /\ For \in Nat
  BY Periods, TimerType DEF Since
<1> DEFINE x == Timed(t, v, FALSE, ahead).since
<1>5. CASE t.breach
  <2>1. x = t.since
    BY <1>2, <1>5
  <2>2. x + ahead >= For
    BY <1>1
  <2> HIDE DEF x
  <2> QED BY <1>3, <1>4, <1>5, <2>1, <2>2
<1>6. CASE ~t.breach
  <2>1. x = -ahead
    BY <1>2, <1>6
  <2>2. x + ahead >= For
    BY <1>1
  <2> HIDE DEF x
  <2> QED BY <1>3, <1>4, <2>1, <2>2
<1> QED BY <1>5, <1>6

LEMMA ResolvesTrue ==
  ASSUME NEW t \in Timer, NEW v, NEW ahead \in 0..MaxAhead, NEW u \in Int, NEW q \in Int,
         t.recovering => u >= 0 /\ t.recSince <= u, Continues(v, "under", u, q),
         Resolves(t, v, TRUE, ahead)
  PROVE  q >= RecoverFor - MaxAhead
<1>1. v = "under" /\ Timed(t, v, TRUE, ahead).recSince + ahead >= RecoverFor
  BY DEF Resolves
<1>2. Timed(t, v, TRUE, ahead).recSince = IF t.recovering THEN t.recSince ELSE -ahead
  BY <1>1, TimedUnderOpen
<1>3. q >= 0 /\ q >= u
  BY <1>1 DEF Continues
<1>4. t.recSince \in Int /\ MaxAhead \in Nat /\ RecoverFor \in Nat
  BY Periods, TimerType DEF RecSince
<1> DEFINE x == Timed(t, v, TRUE, ahead).recSince
<1>5. CASE t.recovering
  <2>1. x = t.recSince
    BY <1>2, <1>5
  <2>2. x + ahead >= RecoverFor
    BY <1>1
  <2> HIDE DEF x
  <2> QED BY <1>3, <1>4, <1>5, <2>1, <2>2
<1>6. CASE ~t.recovering
  <2>1. x = -ahead
    BY <1>2, <1>6
  <2>2. x + ahead >= RecoverFor
    BY <1>1
  <2> HIDE DEF x
  <2> QED BY <1>3, <1>4, <2>1, <2>2
<1> QED BY <1>5, <1>6

\* The history of a label after a sample that was applied, and after one rolled back.
LEMMA AppliedContinues ==
  ASSUME NEW h \in [Labels -> -1..For] \cup [Labels -> -1..RecoverFor], NEW v, NEW level,
         level # "absent", NEW l \in Labels
  PROVE  Continues(v[l], level, h[l], Began(Ended(h, v, level), v, level)[l])
<1>1. h[l] \in Int /\ h[l] >= -1
  BY Periods
<1> QED BY <1>1 DEF Continues, Began, Ended

LEMMA RolledBackContinues ==
  ASSUME NEW h \in [Labels -> -1..For] \cup [Labels -> -1..RecoverFor], NEW v, NEW level,
         level # "absent", NEW l \in Labels
  PROVE  /\ v[l] = level => Continues(v[l], level, h[l], Began(h, v, level)[l])
         /\ v[l] # level => Began(h, v, level)[l] = h[l]
<1>1. h[l] \in Int /\ h[l] >= -1
  BY Periods
<1> QED BY <1>1 DEF Continues, Began

LEMMA StepWindow ==
  ASSUME "threshold" \notin Toggled, WindowInv, [Next]_vars
  PROVE  WindowInv'
<1>t. TypeOK /\ TypeOK' /\ StaysOn("threshold")' /\ "threshold" \in on
  BY StepTypes, StepOn DEF WindowInv, StaysOn
<1>a. /\ states \in [Labels -> Timer]
      /\ overFor \in [Labels -> -1..For] /\ underFor \in [Labels -> -1..RecoverFor]
  BY <1>t DEF TypeOK
<1>b. \A l \in Labels : overFor[l] \in Int /\ underFor[l] \in Int /\ overFor'[l] \in Int /\ underFor'[l] \in Int
  BY <1>t, Periods DEF TypeOK
<1>c. \A l \in Labels : TimerTrue(states[l], overFor[l], underFor[l], l \in open)
  BY DEF WindowInv
<1> SUFFICES \A l \in Labels : TimerTrue(states'[l], overFor'[l], underFor'[l], l \in open')
  BY <1>t DEF WindowInv
<1> TAKE l \in Labels
<1>d. /\ states[l] \in Timer /\ TimerTrue(states[l], overFor[l], underFor[l], l \in open)
      /\ overFor[l] \in Int /\ underFor[l] \in Int /\ overFor'[l] \in Int /\ underFor'[l] \in Int
  BY <1>a, <1>b, <1>c
<1>1. CASE Ingest
  <2>1. PICK s \in Reports, ahead \in 0..MaxAhead : IngestMetrics(s, ahead)
    BY <1>1 DEF Ingest
  <2> DEFINE v == s.value[l]
  <2>2. v \in Level
    BY RulesOK, LevelsOf DEF Samples
  <2>3. Continues(v, "over", overFor[l], overFor'[l]) /\ Continues(v, "under", underFor[l], underFor'[l])
    BY <1>a, <2>1, AppliedContinues DEF IngestMetrics
  <2>4. states'[l] = Settled(states[l], v, l \in open, ahead)
    BY <1>t, <2>1 DEF IngestMetrics, StatesAfter
  <2>5. l \in open' <=> \/ Opens(states[l], v, l \in open, ahead)
                        \/ l \in open /\ ~Resolves(states[l], v, TRUE, ahead)
    BY <1>t, <2>1, LabelKey DEF IngestMetrics
  <2>6. (l \in open) \in BOOLEAN
    OBVIOUS
  <2> HIDE DEF v
  <2>7. TimerTrue(states'[l], overFor'[l], underFor'[l], l \in open)
    <3>1. TimerTrue(Settled(states[l], v, l \in open, ahead), overFor'[l], underFor'[l], l \in open)
      BY <1>d, <2>2, <2>3, <2>6, TimedTrue
    <3> QED BY <2>4, <3>1
  <2>8. CASE l \in open /\ l \notin open'
    <3>1. states'[l] = NoTimer
      BY <2>4, <2>5, <2>8 DEF Settled
    <3> QED BY <3>1, NoTimerOK DEF TimerTrue
  <2>9. CASE ~(l \in open /\ l \notin open')
    BY <2>7, <2>9 DEF TimerTrue
  <2> QED BY <2>8, <2>9
<1>2. ASSUME NEW v \in Values, NEW ahead \in 0..MaxAhead,
             NEW done \in [Labels -> {"none", "unsent", "all"}], IngestFails(v, ahead, done)
      PROVE  TimerTrue(states'[l], overFor'[l], underFor'[l], l \in open')
  <2>1. v[l] \in Level /\ open' = open
    BY <1>2, LevelsOf DEF IngestFails
  <2>2. /\ v[l] = "over" => Continues(v[l], "over", overFor[l], overFor'[l])
        /\ v[l] # "over" => overFor'[l] = overFor[l]
        /\ v[l] = "under" => Continues(v[l], "under", underFor[l], underFor'[l])
        /\ v[l] # "under" => underFor'[l] = underFor[l]
    BY <1>2, <1>a, RolledBackContinues DEF IngestFails
  <2>3. Continues(v[l], "over", overFor[l], overFor'[l]) /\ Continues(v[l], "under", underFor[l], underFor'[l])
    BY <2>2 DEF Continues
  <2>4. TimerTrue(states[l], overFor'[l], underFor'[l], l \in open)
    <3>1. overFor'[l] >= overFor[l] /\ underFor'[l] >= underFor[l]
      BY <1>d, <2>2 DEF Continues
    <3>2. states[l].since \in Int /\ states[l].recSince \in Int
      BY <1>d, Periods, TimerType DEF Since, RecSince
    <3> QED BY <1>d, <3>1, <3>2 DEF TimerTrue
  <2>5. (l \in open) \in BOOLEAN
    OBVIOUS
  <2>6. /\ TimerTrue(Timed(states[l], v[l], l \in open, ahead), overFor'[l], underFor'[l], l \in open)
        /\ TimerTrue(Settled(states[l], v[l], l \in open, ahead), overFor'[l], underFor'[l], l \in open)
    BY <1>d, <2>1, <2>3, <2>5, TimedTrue
  <2>7. states'[l] \in {states[l], Timed(states[l], v[l], l \in open, ahead),
                        Settled(states[l], v[l], l \in open, ahead)}
    BY <1>2 DEF IngestFails
  <2> QED BY <2>1, <2>4, <2>6, <2>7
<1>3. CASE PauseSource \/ Restart
  <2>1. states'[l] = NoTimer
    BY <1>3 DEF PauseSource, Restart
  <2> QED BY <2>1, NoTimerOK DEF TimerTrue
<1>4. CASE Tick
  <2> DEFINE t == states[l]
             s == IF t.breach THEN Older(t.since, For) ELSE t.since
             r == IF t.recovering THEN Older(t.recSince, RecoverFor) ELSE t.recSince
  <2>1. states'[l] = [t EXCEPT !.since = s, !.recSince = r] /\ open' = open
    BY <1>4 DEF Tick
  <2>2. /\ overFor'[l] = IF overFor[l] = -1 THEN -1 ELSE Older(overFor[l], For)
        /\ underFor'[l] = IF underFor[l] = -1 THEN -1 ELSE Older(underFor[l], RecoverFor)
    BY <1>4 DEF Tick, Aged
  <2>3. t \in Timer
    BY <1>d
  <2>4. /\ t.since \in Int /\ t.since <= For /\ t.recSince \in Int /\ t.recSince <= RecoverFor
        /\ overFor[l] \in -1..For /\ underFor[l] \in -1..RecoverFor
    BY <1>a, <2>3, Periods, TimerType DEF Since, RecSince
  <2>5. /\ t.breach => overFor[l] >= 0 /\ t.since <= overFor[l]
        /\ t.recovering => l \in open /\ underFor[l] >= 0 /\ t.recSince <= underFor[l]
    BY <1>d DEF TimerTrue
  <2>6. t.breach => overFor'[l] >= 0 /\ s <= overFor'[l]
    BY <2>2, <2>4, <2>5, Periods DEF Older
  <2>7. t.recovering => underFor'[l] >= 0 /\ r <= underFor'[l]
    BY <2>2, <2>4, <2>5, Periods DEF Older
  <2> HIDE DEF s, r, t
  <2>8. /\ states'[l].breach = t.breach /\ states'[l].since = s
        /\ states'[l].recovering = t.recovering /\ states'[l].recSince = r
    BY <2>1, <2>3, TimerType
  <2> QED BY <2>1, <2>5, <2>6, <2>7, <2>8 DEF TimerTrue
<1>5. ASSUME UNCHANGED <<states, overFor, underFor>>, l \in open' <=> l \in open
      PROVE  TimerTrue(states'[l], overFor'[l], underFor'[l], l \in open')
  BY <1>5, <1>d DEF TimerTrue
<1>6. ASSUME \/ IngestDuplicate \/ CheckHeartbeat \/ LoseHeartbeat \/ LoseHeartbeatFails
             \/ (\E k \in Toggled : RulesPut(k)) \/ UNCHANGED vars
      PROVE  UNCHANGED <<states, overFor, underFor>>
  BY <1>6 DEF IngestDuplicate, CheckHeartbeat, LoseHeartbeat, LoseHeartbeatFails, RulesPut,
              vars, histVars
<1>7. ~Ingest => (l \in open' <=> l \in open)
  BY OnlySamples
<1> QED BY <1>1, <1>2, <1>3, <1>4, <1>5, <1>6, <1>7 DEF Next

LEMMA InitWindow == Init => WindowInv
<1> SUFFICES ASSUME Init PROVE WindowInv
  OBVIOUS
<1>1. \A l \in Labels : states[l] = NoTimer
  BY DEF Init
<1>2. \A l \in Labels : TimerTrue(states[l], overFor[l], underFor[l], l \in open)
  BY <1>1, NoTimerOK DEF TimerTrue
<1> QED BY <1>2, InitTypes, InitOn DEF WindowInv, RuleKinds

\* The two ways a sample changes the fault of a label, with what the history then says.
LEMMA WindowFilled ==
  ASSUME WindowInv, [Next]_vars, NEW l \in Labels
  PROVE  /\ l \in open' \ open => overFor'[l] >= For - MaxAhead
         /\ l \in open \ open' => underFor'[l] >= RecoverFor - MaxAhead
<1>1. CASE ~Ingest
  BY <1>1, OnlySamples
<1>2. CASE Ingest
  <2>1. PICK s \in Reports, ahead \in 0..MaxAhead : IngestMetrics(s, ahead)
    BY <1>2 DEF Ingest
  <2> DEFINE v == s.value[l]
  <2>2. TypeOK /\ TypeOK' /\ "threshold" \in on
    BY StepTypes DEF WindowInv, StaysOn
  <2>3. /\ overFor \in [Labels -> -1..For] /\ underFor \in [Labels -> -1..RecoverFor]
        /\ overFor' \in [Labels -> -1..For] /\ underFor' \in [Labels -> -1..RecoverFor]
        /\ states[l] \in Timer
    BY <2>2 DEF TypeOK
  <2>4. overFor[l] \in Int /\ underFor[l] \in Int /\ overFor'[l] \in Int /\ underFor'[l] \in Int
    BY <2>3, Periods
  <2>5. Continues(v, "over", overFor[l], overFor'[l]) /\ Continues(v, "under", underFor[l], underFor'[l])
    BY <2>1, <2>3, AppliedContinues DEF IngestMetrics
  <2>6. l \in open' <=> \/ Opens(states[l], v, l \in open, ahead)
                        \/ l \in open /\ ~Resolves(states[l], v, TRUE, ahead)
    BY <2>1, <2>2, LabelKey DEF IngestMetrics
  <2>7. /\ states[l].breach => overFor[l] >= 0 /\ states[l].since <= overFor[l]
        /\ states[l].recovering => underFor[l] >= 0 /\ states[l].recSince <= underFor[l]
    BY DEF WindowInv, TimerTrue
  <2> HIDE DEF v
  <2>8. CASE l \in open' \ open
    <3>1. (l \in open) = FALSE
      BY <2>8
    <3>2. Opens(states[l], v, FALSE, ahead)
      BY <2>6, <2>8, <3>1
    <3> QED BY <2>3, <2>4, <2>5, <2>7, <2>8, <3>2, OpensTrue
  <2>9. CASE l \in open \ open'
    <3>1. Resolves(states[l], v, TRUE, ahead)
      BY <2>6, <2>9
    <3> QED BY <2>3, <2>4, <2>5, <2>7, <2>9, <3>1, ResolvesTrue
  <2> QED BY <2>8, <2>9
<1> QED BY <1>1, <1>2

\* A threshold fault opens only after its value was over the limit in every sample for
\* forSeconds, less the error of the source's clock, across rollbacks, restarts and
\* pauses; for a rule that is never switched off, whose timers would stay (evalThreshold).
THEOREM OpensInTime ==
  ASSUME "threshold" \notin Toggled
  PROVE  Spec => OpensAfterWindow
<1>1. WindowInv /\ [Next]_vars => WindowInv'
  BY StepWindow
<1>2. WindowInv /\ [Next]_vars =>
        [\A l \in Labels : l \in open' \ open => overFor'[l] >= For - MaxAhead]_open
  BY WindowFilled
<1> QED BY <1>1, <1>2, InitWindow, PTL DEF Spec, OpensAfterWindow

\* It resolves only after the value was under the recovery limit in every sample for
\* recoverForSeconds, less that error (evalThreshold).
THEOREM ResolvesInTime ==
  ASSUME "threshold" \notin Toggled
  PROVE  Spec => ResolvesAfterWindow
<1>1. WindowInv /\ [Next]_vars => WindowInv'
  BY StepWindow
<1>2. WindowInv /\ [Next]_vars =>
        [\A l \in Labels : l \in open \ open' => underFor'[l] >= RecoverFor - MaxAhead]_open
  BY WindowFilled
<1> QED BY <1>1, <1>2, InitWindow, PTL DEF Spec, ResolvesAfterWindow
=============================================================================
