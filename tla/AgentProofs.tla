---------------------------- MODULE AgentProofs -----------------------------
(***************************************************************************)
(* Proofs about AgentReporter, for any capacity of the queue, any backlog  *)
(* and any number of crashes, lost answers and refusals: no batch is lost  *)
(* unseen, none is taken for an old one, and no loss is reported twice.    *)
(***************************************************************************)
EXTENDS AgentReporter, FiniteSetTheorems, WellFoundedInduction, NaturalsInduction, TLAPS

Places == {"dead", "idle", "wait", "flush", "take", "report", "metrics", "events", "probe",
           "delete", "delete1", "complain"}
HandRow == [kind : {"none", "metrics", "events", "badMetrics", "badEvents"}, n : Nat,
            rows : SUBSET Nat]
EventRow == [seq : 1..eseq, kind : {"started", "overflow", "custom"}, n : Nat]

QueueOK ==
  /\ mseq \in Nat /\ mq \subseteq enq /\ enq \subseteq 1..mseq
  /\ ovf \in [metrics : Nat, events : Nat]

EventsOK == eseq \in Nat /\ eq \subseteq EventRow /\ IsFiniteSet(eq)

LoopOK ==
  /\ pc \in Places /\ part \in {"metrics", "events"} /\ hand \in HandRow
  /\ pc \in {"delete", "delete1"} => hand.kind # "none"
  /\ unauth \in BOOLEAN /\ stopping \in BOOLEAN /\ crashes \in Nat /\ fails \in Nat

HubOK == hub \in {"up", "down", "unauth"} /\ hubSeq \in 0..mseq /\ hubHas \subseteq 1..mseq

\* What was cut is no longer queued.
HistOK ==
  /\ dropped \subseteq enq /\ poisoned \subseteq enq /\ reported \in Nat
  /\ mq \cap dropped = {}

\* The rows the drain loop is about to delete were applied, or refused for good.
HandOK ==
  /\ ~OfEvents /\ ~Refused => hand.rows \subseteq hubHas
  /\ hand.kind = "badMetrics" => hand.rows \subseteq enq

\* The record read is still part of the record that will be deleted.
TakenOK == pc = "take" /\ part = "metrics" => hand.n <= ovf.metrics

AgentInv ==
  /\ QueueOK /\ EventsOK /\ LoopOK /\ HubOK /\ HistOK /\ HandOK /\ TakenOK
  /\ FreshIsNew /\ Accounted /\ OverflowNotInflated

-----------------------------------------------------------------------------
(* Sets of numbers.                                                        *)

\* ORDER BY id ASC LIMIT 1 finds the smallest.
LEMMA MinFacts ==
  ASSUME NEW S, S \subseteq Nat, S # {}
  PROVE  Min(S) \in S /\ \A y \in S : Min(S) <= y
<1> DEFINE R == OpToRel(<, Nat)
<1>1. IsWellFoundedOn(R, Nat)
  BY NatLessThanWellFounded
<1>2. \A x, y \in Nat : y < x => <<y, x>> \in R
  BY DEF OpToRel
<1> HIDE DEF R
<1>3. \E x \in S : \A y \in S : ~(<<y, x>> \in R)
  BY <1>1, WFMin
<1>4. \E x \in S : \A y \in S : x <= y
  <2>1. PICK x \in S : \A y \in S : ~(<<y, x>> \in R)
    BY <1>3
  <2>2. \A y \in S : ~(y < x)
    BY <1>2, <2>1
  <2>3. \A y \in S : x <= y
    BY <2>2
  <2> QED BY <2>3
<1> QED BY <1>4 DEF Min

LEMMA NumbersFinite ==
  ASSUME NEW S, NEW k \in Nat, S \subseteq 1..k
  PROVE  IsFiniteSet(S) /\ Cardinality(S) \in Nat
<1>1. IsFiniteSet(1..k)
  BY FS_Interval
<1>2. IsFiniteSet(S)
  BY <1>1, FS_Subset
<1> QED BY <1>2, FS_CardinalityType

\* What is counted once when it is cut adds up.
LEMMA CutCounted ==
  ASSUME NEW S, NEW T, NEW k \in Nat, S \subseteq 1..k, T \subseteq 1..k, S \cap T = {}
  PROVE  Cardinality(S \cup T) = Cardinality(S) + Cardinality(T)
<1>1. IsFiniteSet(S) /\ Cardinality(S) \in Nat /\ IsFiniteSet(T) /\ Cardinality(T) \in Nat
  BY NumbersFinite
<1>2. Cardinality(S \cup T) = Cardinality(S) + Cardinality(T) - Cardinality(S \cap T)
  BY <1>1, FS_Union
<1>3. Cardinality(S \cap T) = 0
  BY FS_EmptySet
<1> QED BY <1>1, <1>2, <1>3

-----------------------------------------------------------------------------
(* The steps.                                                              *)

LEMMA InitAgent == Init => AgentInv
<1> SUFFICES ASSUME Init PROVE AgentInv
  OBVIOUS
<1> USE DEF Init
<1>1. QueueOK /\ HubOK /\ HistOK
  BY DEF QueueOK, HubOK, HistOK
<1>2. EventsOK
  BY FS_EmptySet DEF EventsOK
<1>3. LoopOK
  BY DEF LoopOK, Places, HandRow, Nothing
<1>4. HandOK /\ TakenOK /\ FreshIsNew /\ Accounted
  BY DEF HandOK, TakenOK, FreshIsNew, Accounted, Nothing
<1>5. OverflowNotInflated
  BY FS_EmptySet DEF OverflowNotInflated
<1> QED BY <1>1, <1>2, <1>3, <1>4, <1>5 DEF AgentInv

\* Batches that leave the queue for the overflow record, and a new one that joins it.
LEMMA CutStep ==
  ASSUME AgentInv, NEW gone, NEW new, gone \subseteq mq \cup new,
         (new = {} /\ mseq' = mseq) \/ (new = {mseq + 1} /\ mseq' = mseq + 1),
         mq' = (mq \cup new) \ gone, enq' = enq \cup new, dropped' = dropped \cup gone,
         ovf' = [ovf EXCEPT !.metrics = @ + Cardinality(gone)],
         UNCHANGED <<poisoned, reported, hubSeq, hubHas, hub>>
  PROVE  /\ QueueOK' /\ HubOK' /\ HistOK' /\ FreshIsNew' /\ Accounted'
         /\ Cardinality(gone) \in Nat
         /\ ovf'.metrics = ovf.metrics + Cardinality(gone)
         /\ Cardinality(dropped') = Cardinality(dropped) + Cardinality(gone)
<1>1. /\ mseq \in Nat /\ mq \subseteq enq /\ enq \subseteq 1..mseq
      /\ ovf \in [metrics : Nat, events : Nat] /\ dropped \subseteq enq /\ poisoned \subseteq enq
      /\ mq \cap dropped = {} /\ hubSeq \in 0..mseq /\ hubHas \subseteq 1..mseq
  BY DEF AgentInv, QueueOK, HistOK, HubOK
<1>2. mseq' \in Nat /\ 1..mseq \subseteq 1..mseq' /\ 0..mseq \subseteq 0..mseq'
      /\ new \subseteq 1..mseq' /\ new \cap 1..mseq = {} /\ \A x \in new : x > hubSeq
  BY <1>1
<1>3. mq' \subseteq enq' /\ enq' \subseteq 1..mseq' /\ gone \subseteq enq' /\ dropped' \subseteq enq'
  BY <1>1, <1>2
<1>4. gone \cap dropped = {} /\ mq' \cap dropped' = {}
  BY <1>1, <1>2
<1>5. gone \subseteq 1..mseq' /\ dropped \subseteq 1..mseq'
  BY <1>1, <1>2, <1>3
<1>6. Cardinality(gone) \in Nat
  BY <1>2, <1>5, NumbersFinite
<1>7. Cardinality(dropped') = Cardinality(dropped) + Cardinality(gone)
  BY <1>2, <1>4, <1>5, CutCounted
<1>8. ovf' \in [metrics : Nat, events : Nat] /\ ovf'.metrics = ovf.metrics + Cardinality(gone)
  BY <1>1, <1>6
<1>9. QueueOK'
  BY <1>2, <1>3, <1>8 DEF QueueOK
<1>10. HubOK'
  BY <1>1, <1>2 DEF AgentInv, HubOK
<1>11. HistOK'
  BY <1>1, <1>3, <1>4 DEF AgentInv, HistOK
<1>12. FreshIsNew'
  BY <1>2 DEF AgentInv, FreshIsNew
<1>13. Accounted'
  BY DEF AgentInv, Accounted
<1> QED BY <1>6, <1>7, <1>8, <1>9, <1>10, <1>11, <1>12, <1>13

LEMMA CollectStep == ASSUME AgentInv, Collect PROVE AgentInv'
<1> DEFINE new == {mseq + 1}
           gone == Oldest(mq \cup new, Excess(mq \cup new, MaxBatch))
<1>1. /\ mseq' = mseq + 1 /\ mq' = (mq \cup new) \ gone /\ enq' = enq \cup new
      /\ ovf' = [ovf EXCEPT !.metrics = @ + Cardinality(gone)] /\ dropped' = dropped \cup gone
      /\ UNCHANGED <<eseq, eq, pc, part, hand, unauth, stopping, hub, hubSeq, hubHas, crashes,
                     fails, poisoned, reported>>
  BY DEF Collect, EnqueueMetrics, hubVars, countVars
<1>2. gone \subseteq mq \cup new
  BY DEF Oldest
<1> HIDE DEF gone
<1>3. /\ QueueOK' /\ HubOK' /\ HistOK' /\ FreshIsNew' /\ Accounted'
      /\ Cardinality(gone) \in Nat
      /\ ovf'.metrics = ovf.metrics + Cardinality(gone)
      /\ Cardinality(dropped') = Cardinality(dropped) + Cardinality(gone)
  BY <1>1, <1>2, CutStep
<1>4. EventsOK' /\ LoopOK'
  BY <1>1 DEF AgentInv, EventsOK, EventRow, LoopOK
<1>5. HandOK'
  BY <1>1 DEF AgentInv, HandOK, OfEvents, Refused
<1>6. ovf.metrics \in Nat /\ reported \in Nat /\ hand.n \in Nat /\ Cardinality(dropped) \in Nat
  <2>1. dropped \subseteq 1..mseq /\ mseq \in Nat
    BY DEF AgentInv, HistOK, QueueOK
  <2> QED BY <2>1, NumbersFinite DEF AgentInv, QueueOK, HistOK, LoopOK, HandRow
<1>7. TakenOK' /\ OverflowNotInflated'
  BY <1>1, <1>3, <1>6 DEF AgentInv, TakenOK, OverflowNotInflated
<1> QED BY <1>3, <1>4, <1>5, <1>7 DEF AgentInv

LEMMA CollectFailsStep == ASSUME AgentInv, CollectFails PROVE AgentInv'
<1>1. /\ mseq' = mseq + 1
      /\ UNCHANGED <<eseq, mq, eq, ovf, pc, part, hand, unauth, stopping, hub, hubSeq, hubHas,
                     crashes, fails, enq, dropped, poisoned, reported>>
  BY DEF CollectFails, hubVars, countVars, histVars
<1>2. mseq \in Nat /\ 1..mseq \subseteq 1..mseq' /\ 0..mseq \subseteq 0..mseq' /\ mseq' \in Nat
  BY <1>1 DEF AgentInv, QueueOK
<1>3. QueueOK' /\ HubOK' /\ HistOK'
  BY <1>1, <1>2 DEF AgentInv, QueueOK, HubOK, HistOK
<1>4. EventsOK' /\ LoopOK'
  BY <1>1 DEF AgentInv, EventsOK, EventRow, LoopOK
<1>5. HandOK' /\ TakenOK' /\ FreshIsNew' /\ Accounted' /\ OverflowNotInflated'
  BY <1>1 DEF AgentInv, HandOK, OfEvents, Refused, TakenOK, FreshIsNew, Accounted,
              OverflowNotInflated
<1> QED BY <1>3, <1>4, <1>5 DEF AgentInv

\* Steps that leave the tables and the hub's record alone, and end what was under way.
LEMMA QuietStep ==
  ASSUME AgentInv,
         UNCHANGED <<mseq, eseq, mq, eq, ovf, hubSeq, hubHas, enq, dropped, poisoned, reported>>,
         hub' \in {"up", "down", "unauth"}, hand' \in {hand, Nothing},
         \/ pc' \in Places \ {"take", "report", "delete", "delete1"}
         \/ pc' = pc /\ part' = part /\ hand' = hand,
         part' \in {"metrics", "events"}, unauth' \in BOOLEAN, stopping' \in BOOLEAN,
         crashes' \in Nat, fails' \in Nat
  PROVE  AgentInv'
<1>1. QueueOK' /\ HubOK' /\ HistOK' /\ FreshIsNew' /\ Accounted'
  BY DEF AgentInv, QueueOK, HubOK, HistOK, FreshIsNew, Accounted
<1>2. EventsOK'
  BY DEF AgentInv, EventsOK, EventRow
<1>3. hand' \in HandRow
  BY DEF AgentInv, LoopOK, HandRow, Nothing
<1>4. LoopOK'
  BY <1>3 DEF AgentInv, LoopOK, Places
<1>5. HandOK'
  BY DEF AgentInv, HandOK, OfEvents, Refused, Nothing
<1>6. TakenOK'
  BY DEF AgentInv, TakenOK
<1>7. OverflowNotInflated'
  <2>1. ovf.metrics \in Nat /\ reported \in Nat /\ hand.n \in Nat /\ Cardinality(dropped) \in Nat
    <3>1. dropped \subseteq 1..mseq /\ mseq \in Nat
      BY DEF AgentInv, HistOK, QueueOK
    <3> QED BY <3>1, NumbersFinite DEF AgentInv, QueueOK, HistOK, LoopOK, HandRow
  <2>2. CASE pc' = "report"
    BY <2>2 DEF AgentInv, OverflowNotInflated
  <2>3. CASE pc' # "report"
    BY <2>1, <2>3 DEF AgentInv, OverflowNotInflated
  <2> QED BY <2>2, <2>3
<1> QED BY <1>1, <1>2, <1>4, <1>5, <1>6, <1>7 DEF AgentInv

\* The quantities of the overflow record are numbers.
LEMMA Amounts ==
  ASSUME AgentInv
  PROVE  /\ ovf.metrics \in Nat /\ ovf.events \in Nat /\ reported \in Nat /\ hand.n \in Nat
         /\ Cardinality(dropped) \in Nat
<1>1. dropped \subseteq 1..mseq /\ mseq \in Nat
  BY DEF AgentInv, HistOK, QueueOK
<1> QED BY <1>1, NumbersFinite DEF AgentInv, QueueOK, HistOK, LoopOK, HandRow

LEMMA TakeOverflowReadStep == ASSUME AgentInv, TakeOverflowRead PROVE AgentInv'
<1>1. /\ pc = "flush" /\ part \in {"metrics", "events"}
      /\ UNCHANGED <<mseq, eseq, mq, eq, ovf, unauth, stopping, hub, hubSeq, hubHas, crashes,
                     fails, enq, dropped, poisoned, reported>>
  BY DEF TakeOverflowRead, queueVars, hubVars, countVars, histVars, AgentInv, LoopOK
<1>2. unauth' \in BOOLEAN /\ stopping' \in BOOLEAN /\ crashes' \in Nat /\ fails' \in Nat
      /\ hub' \in {"up", "down", "unauth"}
  BY <1>1 DEF AgentInv, LoopOK, HubOK
<1>3. CASE ovf[part] = 0
  <2>1. pc' = NextPart[1] /\ part' = NextPart[2] /\ hand' = hand
    BY <1>3 DEF TakeOverflowRead
  <2>2. pc' \in {"flush", "metrics"} /\ part' \in {"metrics", "events"}
    BY <2>1 DEF NextPart
  <2>3. pc' \in Places \ {"take", "report", "delete", "delete1"}
    BY <2>2 DEF Places
  <2> QED BY <1>1, <1>2, <2>1, <2>2, <2>3, QuietStep
<1>4. CASE ovf[part] # 0
  <2>1. pc' = "take" /\ part' = part /\ hand' = [kind |-> part, n |-> ovf[part], rows |-> {}]
    BY <1>4 DEF TakeOverflowRead
  <2>2. ovf[part] \in Nat /\ (part = "metrics" => ovf[part] = ovf.metrics)
    BY <1>1, Amounts
  <2>3. hand'.kind = part /\ hand'.n = ovf[part] /\ hand'.rows = {}
    BY <2>1
  <2>4. hand' \in HandRow
    BY <1>1, <2>1, <2>2 DEF HandRow
  <2>5. QueueOK' /\ HubOK' /\ HistOK' /\ FreshIsNew' /\ Accounted'
    BY <1>1 DEF AgentInv, QueueOK, HubOK, HistOK, FreshIsNew, Accounted
  <2>6. EventsOK'
    BY <1>1 DEF AgentInv, EventsOK, EventRow
  <2>7. LoopOK'
    BY <1>1, <1>2, <2>1, <2>4 DEF LoopOK, Places
  <2>8. HandOK'
    BY <1>1, <2>3 DEF HandOK
  <2>9. TakenOK'
    BY <1>1, <2>1, <2>2, <2>3, Amounts DEF TakenOK
  <2>10. OverflowNotInflated'
    BY <1>1, <2>1 DEF AgentInv, OverflowNotInflated
  <2> QED BY <2>5, <2>6, <2>7, <2>8, <2>9, <2>10 DEF AgentInv
<1> QED BY <1>3, <1>4

\* What is deleted is at least what is held, which was read before.
LEMMA TakeOverflowDeleteStep == ASSUME AgentInv, TakeOverflowDelete PROVE AgentInv'
<1>1. /\ pc = "take" /\ ovf' = [ovf EXCEPT ![part] = 0] /\ pc' = "report"
      /\ UNCHANGED <<mseq, eseq, mq, eq, part, hand, unauth, stopping, hub, hubSeq, hubHas,
                     crashes, fails, enq, dropped, poisoned, reported>>
  BY DEF TakeOverflowDelete, hubVars, countVars, histVars
<1>2. part \in {"metrics", "events"} /\ ovf \in [metrics : Nat, events : Nat]
  BY DEF AgentInv, LoopOK, QueueOK
<1>3. /\ ovf' \in [metrics : Nat, events : Nat]
      /\ ovf'.metrics = IF part = "metrics" THEN 0 ELSE ovf.metrics
  <2>1. CASE part = "metrics"
    BY <1>1, <1>2, <2>1
  <2>2. CASE part = "events"
    BY <1>1, <1>2, <2>2
  <2> QED BY <1>2, <2>1, <2>2
<1>4. QueueOK' /\ HubOK' /\ HistOK' /\ FreshIsNew' /\ Accounted'
  BY <1>1, <1>3 DEF AgentInv, QueueOK, HubOK, HistOK, FreshIsNew, Accounted
<1>5. EventsOK' /\ LoopOK' /\ TakenOK'
  BY <1>1 DEF AgentInv, EventsOK, EventRow, LoopOK, Places, TakenOK
<1>6. HandOK'
  BY <1>1 DEF AgentInv, HandOK, OfEvents, Refused
<1>7. OverflowNotInflated'
  BY <1>1, <1>3, Amounts DEF AgentInv, TakenOK, OverflowNotInflated
<1> QED BY <1>4, <1>5, <1>6, <1>7 DEF AgentInv

\* A row that joins the events.
LEMMA EventAdded ==
  ASSUME AgentInv, NEW kind \in {"started", "overflow", "custom"}, NEW k \in Nat,
         eseq' = eseq + 1, NEW gone,
         eq' = (eq \cup {[seq |-> eseq + 1, kind |-> kind, n |-> k]}) \ gone
  PROVE  EventsOK' /\ IsFiniteSet(eq \cup {[seq |-> eseq + 1, kind |-> kind, n |-> k]})
<1> DEFINE r == [seq |-> eseq + 1, kind |-> kind, n |-> k]
<1>1. eseq \in Nat /\ eq \subseteq EventRow /\ IsFiniteSet(eq)
  BY DEF AgentInv, EventsOK
<1>2. eseq' \in Nat /\ eseq + 1 \in 1..eseq' /\ 1..eseq \subseteq 1..eseq'
  BY <1>1
<1>3. r \in EventRow'
  BY <1>2 DEF EventRow
<1>4. EventRow \subseteq EventRow'
  BY <1>2 DEF EventRow
<1> HIDE DEF r
<1>5. IsFiniteSet(eq \cup {r})
  BY <1>1, FS_AddElement
<1>6. eq' \subseteq eq \cup {r}
  BY DEF r
<1>7. IsFiniteSet(eq')
  BY <1>5, <1>6, FS_Subset
<1>8. eq' \subseteq EventRow'
  BY <1>1, <1>3, <1>4, <1>6
<1> QED BY <1>2, <1>5, <1>7, <1>8 DEF EventsOK, r

LEMMA ReportOverflowStep == ASSUME AgentInv, ReportOverflow PROVE AgentInv'
<1>1. /\ pc = "report" /\ eseq' = eseq + 1
      /\ eq' = eq \cup {[seq |-> eseq + 1, kind |-> "overflow", n |-> hand.n]}
      /\ reported' = (IF part = "metrics" THEN reported + hand.n ELSE reported)
      /\ hand' = Nothing /\ pc' = NextPart[1] /\ part' = NextPart[2]
      /\ UNCHANGED <<mseq, mq, ovf, unauth, stopping, hub, hubSeq, hubHas, crashes, fails, enq,
                     dropped, poisoned>>
  BY DEF ReportOverflow, EnqueueEventNoTrim, hubVars, countVars
<1>2. pc' \in {"flush", "metrics"} /\ part' \in {"metrics", "events"}
  BY <1>1 DEF NextPart
<1>3. EventsOK'
  <2>1. eq' = (eq \cup {[seq |-> eseq + 1, kind |-> "overflow", n |-> hand.n]}) \ {}
    BY <1>1
  <2> QED BY <1>1, <2>1, Amounts, EventAdded
<1>4. QueueOK' /\ HubOK' /\ FreshIsNew' /\ Accounted'
  BY <1>1 DEF AgentInv, QueueOK, HubOK, FreshIsNew, Accounted
<1>5. HistOK'
  BY <1>1, Amounts DEF AgentInv, HistOK
<1>6. LoopOK' /\ TakenOK'
  <2>1. Nothing \in HandRow
    BY DEF Nothing, HandRow
  <2> QED BY <1>1, <1>2, <2>1 DEF AgentInv, LoopOK, Places, TakenOK
<1>7. HandOK'
  BY <1>1 DEF HandOK, Nothing
<1>8. OverflowNotInflated'
  BY <1>1, <1>2, Amounts DEF AgentInv, OverflowNotInflated
<1> QED BY <1>3, <1>4, <1>5, <1>6, <1>7, <1>8 DEF AgentInv

LEMMA TrimBacklogStep == ASSUME AgentInv, TrimBacklog PROVE AgentInv'
<1> DEFINE gone == Oldest(mq, Excess(mq, MaxReplay))
           new == {}
<1>1. /\ pc = "metrics" /\ mq' = mq \ gone
      /\ ovf' = [ovf EXCEPT !.metrics = @ + Cardinality(gone)] /\ dropped' = dropped \cup gone
      /\ pc' = "flush" /\ part' = "metrics"
      /\ UNCHANGED <<mseq, eseq, eq, hand, unauth, stopping, hub, hubSeq, hubHas, crashes,
                     fails, enq, poisoned, reported>>
  BY DEF TrimBacklog, hubVars, countVars
<1>2. gone \subseteq mq \cup new
  BY DEF Oldest
<1> HIDE DEF gone
<1>3. mq' = (mq \cup new) \ gone /\ enq' = enq \cup new /\ new = {} /\ mseq' = mseq
  BY <1>1
<1> HIDE DEF new
<1>4. /\ (new = {} /\ mseq' = mseq) \/ (new = {mseq + 1} /\ mseq' = mseq + 1)
      /\ UNCHANGED <<poisoned, reported, hubSeq, hubHas, hub>>
  BY <1>1, <1>3
<1>5. /\ QueueOK' /\ HubOK' /\ HistOK' /\ FreshIsNew' /\ Accounted'
      /\ Cardinality(gone) \in Nat
      /\ ovf'.metrics = ovf.metrics + Cardinality(gone)
      /\ Cardinality(dropped') = Cardinality(dropped) + Cardinality(gone)
  BY <1>1, <1>2, <1>3, <1>4, CutStep
<1>6. EventsOK' /\ LoopOK' /\ TakenOK'
  BY <1>1 DEF AgentInv, EventsOK, EventRow, LoopOK, Places, TakenOK
<1>7. HandOK'
  BY <1>1 DEF AgentInv, HandOK, OfEvents, Refused
<1>8. OverflowNotInflated'
  BY <1>1, <1>5, Amounts DEF AgentInv, OverflowNotInflated
<1> QED BY <1>5, <1>6, <1>7, <1>8 DEF AgentInv

\* The hub takes the oldest batch of the queue: an older one than it knows it has.
LEMMA TakesStep ==
  ASSUME AgentInv, mq # {}, HubTakes(Min(mq)),
         UNCHANGED <<mseq, mq, ovf, hub, enq, dropped, poisoned, reported>>
  PROVE  /\ QueueOK' /\ HubOK' /\ HistOK' /\ FreshIsNew' /\ Accounted'
         /\ hubHas \subseteq hubHas' /\ Min(mq) \in hubHas' /\ Min(mq) \in mq /\ Min(mq) \in Nat
<1> DEFINE m == Min(mq)
<1>1. /\ mseq \in Nat /\ mq \subseteq 1..mseq /\ hubSeq \in 0..mseq /\ hubHas \subseteq 1..mseq
      /\ hub \in {"up", "down", "unauth"}
  BY DEF AgentInv, QueueOK, HubOK
<1>2. m \in mq /\ \A y \in mq : m <= y
  <2>1. mq \subseteq Nat
    BY <1>1
  <2> QED BY <2>1, MinFacts
<1>3. /\ hubSeq' = IF m > hubSeq THEN m ELSE hubSeq
      /\ hubHas' = IF m > hubSeq THEN hubHas \cup {m} ELSE hubHas
  BY DEF HubTakes
<1> HIDE DEF m
<1>4. m \in 1..mseq /\ m \in Nat
  BY <1>1, <1>2
<1>5. m \in hubHas \/ m > hubSeq
  BY <1>2 DEF AgentInv, FreshIsNew
<1>6. hubHas \subseteq hubHas' /\ m \in hubHas'
  BY <1>1, <1>3, <1>4, <1>5
<1>7. HubOK'
  BY <1>1, <1>3, <1>4 DEF HubOK
<1>8. FreshIsNew'
  <2> SUFFICES ASSUME NEW s \in mq, s \notin hubHas' PROVE s > hubSeq'
    BY DEF FreshIsNew
  <2>1. s \in Nat /\ s # m /\ m <= s /\ s > hubSeq
    BY <1>1, <1>2, <1>6 DEF AgentInv, FreshIsNew
  <2> QED BY <1>1, <1>3, <1>4, <2>1
<1>9. QueueOK' /\ HistOK'
  BY DEF AgentInv, QueueOK, HistOK
<1>10. Accounted'
  BY <1>6 DEF AgentInv, Accounted
<1> QED BY <1>2, <1>4, <1>6, <1>7, <1>8, <1>9, <1>10 DEF m

LEMMA PostMetricsStep == ASSUME AgentInv, PostMetrics PROVE AgentInv'
<1>1. /\ mq # {} /\ HubTakes(Min(mq)) /\ unauth' = FALSE
      /\ hand' = [kind |-> "metrics", n |-> 1, rows |-> {Min(mq)}]
      /\ pc' \in {"delete", "delete1"}
      /\ UNCHANGED <<mseq, eseq, mq, eq, ovf, part, stopping, hub, crashes, fails, enq, dropped,
                     poisoned, reported>>
  BY DEF PostMetrics, SendingMetrics, queueVars, countVars, histVars
<1>2. /\ QueueOK' /\ HubOK' /\ HistOK' /\ FreshIsNew' /\ Accounted'
      /\ Min(mq) \in hubHas' /\ Min(mq) \in Nat
  BY <1>1, TakesStep
<1>3. hand'.kind = "metrics" /\ hand'.rows = {Min(mq)}
  BY <1>1
<1>4. hand' \in HandRow
  BY <1>1, <1>2 DEF HandRow
<1>5. EventsOK'
  BY <1>1 DEF AgentInv, EventsOK, EventRow
<1>6. LoopOK'
  BY <1>1, <1>3, <1>4 DEF AgentInv, LoopOK, Places
<1>7. HandOK'
  BY <1>2, <1>3 DEF HandOK
<1>8. TakenOK' /\ OverflowNotInflated'
  BY <1>1, Amounts DEF AgentInv, TakenOK, OverflowNotInflated
<1> QED BY <1>2, <1>5, <1>6, <1>7, <1>8 DEF AgentInv

LEMMA PostMetricsUnansweredStep == ASSUME AgentInv, PostMetricsUnanswered PROVE AgentInv'
<1>1. /\ mq # {} /\ HubTakes(Min(mq)) /\ unauth' = FALSE /\ fails' = fails + 1
      /\ pc' \in {"dead", "wait"}
      /\ UNCHANGED <<mseq, eseq, mq, eq, ovf, part, hand, stopping, hub, crashes, enq, dropped,
                     poisoned, reported>>
  BY DEF PostMetricsUnanswered, SendingMetrics, queueVars, histVars, Return
<1>2. /\ QueueOK' /\ HubOK' /\ HistOK' /\ FreshIsNew' /\ Accounted' /\ hubHas \subseteq hubHas'
  BY <1>1, TakesStep
<1>3. EventsOK'
  BY <1>1 DEF AgentInv, EventsOK, EventRow
<1>4. LoopOK'
  <2>1. fails' \in Nat
    BY <1>1 DEF AgentInv, LoopOK
  <2> QED BY <1>1, <2>1 DEF AgentInv, LoopOK, Places
<1>5. HandOK'
  BY <1>1, <1>2 DEF AgentInv, HandOK, OfEvents, Refused
<1>6. TakenOK' /\ OverflowNotInflated'
  BY <1>1, Amounts DEF AgentInv, TakenOK, OverflowNotInflated
<1> QED BY <1>2, <1>3, <1>4, <1>5, <1>6 DEF AgentInv

\* A request that leaves the tables and the hub's record alone and is followed by a deletion.
LEMMA AskedStep ==
  ASSUME AgentInv, pc' = "delete" \/ pc' = "delete1", unauth' = FALSE, fails' \in Nat,
         hand' \in HandRow, hand'.kind \in {"events", "badMetrics", "badEvents"},
         hand'.kind = "badMetrics" => hand'.rows \subseteq enq,
         UNCHANGED <<mseq, eseq, mq, eq, ovf, part, stopping, hub, hubSeq, hubHas, crashes, enq,
                     dropped, poisoned, reported>>
  PROVE  AgentInv'
<1>1. QueueOK' /\ HubOK' /\ HistOK' /\ FreshIsNew' /\ Accounted'
  BY DEF AgentInv, QueueOK, HubOK, HistOK, FreshIsNew, Accounted
<1>2. EventsOK'
  BY DEF AgentInv, EventsOK, EventRow
<1>3. LoopOK'
  BY DEF AgentInv, LoopOK, Places
<1>4. HandOK'
  BY DEF HandOK, OfEvents, Refused
<1>5. TakenOK' /\ OverflowNotInflated'
  BY Amounts DEF AgentInv, TakenOK, OverflowNotInflated
<1> QED BY <1>1, <1>2, <1>3, <1>4, <1>5 DEF AgentInv

LEMMA PostMetricsPoisonStep == ASSUME AgentInv, PostMetricsPoison PROVE AgentInv'
<1>1. /\ mq # {} /\ unauth' = FALSE
      /\ UNCHANGED <<mseq, eseq, mq, eq, ovf, part, stopping, hub, hubSeq, hubHas, crashes,
                     fails, enq, dropped, poisoned, reported>>
  BY DEF PostMetricsPoison, SendingMetrics, queueVars, hubVars, countVars, histVars
<1>2. /\ part' \in {"metrics", "events"} /\ unauth' \in BOOLEAN /\ stopping' \in BOOLEAN
      /\ crashes' \in Nat /\ fails' \in Nat /\ hub' \in {"up", "down", "unauth"}
  BY <1>1 DEF AgentInv, LoopOK, HubOK
<1>3. CASE Probing
  <2>1. hand' = hand /\ pc' \in Places \ {"take", "report", "delete", "delete1"}
    BY <1>3 DEF PostMetricsPoison, Places
  <2> QED BY <1>1, <1>2, <2>1, QuietStep
<1>4. CASE ~Probing
  <2>1. hand' = [kind |-> "badMetrics", n |-> 1, rows |-> {Min(mq)}] /\ pc' = "delete"
    BY <1>4 DEF PostMetricsPoison
  <2>2. mq \subseteq Nat /\ mq \subseteq enq
    BY DEF AgentInv, QueueOK
  <2>3. Min(mq) \in Nat /\ Min(mq) \in enq
    BY <1>1, <2>2, MinFacts
  <2>4. hand'.kind = "badMetrics" /\ hand'.rows = {Min(mq)}
    BY <2>1
  <2>5. hand' \in HandRow
    BY <2>1, <2>3 DEF HandRow
  <2> QED BY <1>1, <1>2, <2>1, <2>3, <2>4, <2>5, AskedStep
<1> QED BY <1>3, <1>4

\* The numbers of event rows.
LEMMA EventNumbers ==
  ASSUME AgentInv, NEW k
  PROVE  LET rows == {r.seq : r \in OldestRows(eq, k)}
         IN  rows \in SUBSET Nat /\ Cardinality(rows) \in Nat
<1> DEFINE rows == {r.seq : r \in OldestRows(eq, k)}
<1>1. eseq \in Nat /\ \A r \in eq : r.seq \in 1..eseq
  BY DEF AgentInv, EventsOK, EventRow
<1>2. rows \subseteq 1..eseq
  BY <1>1 DEF OldestRows
<1> HIDE DEF rows
<1>3. rows \in SUBSET Nat
  BY <1>2
<1>4. Cardinality(rows) \in Nat
  BY <1>1, <1>2, NumbersFinite
<1> QED BY <1>3, <1>4 DEF rows

LEMMA PostEventsStep == ASSUME AgentInv, PostEvents PROVE AgentInv'
<1> DEFINE k == IF Probing THEN 1 ELSE MaxSend
           rows == {r.seq : r \in OldestRows(eq, k)}
<1>1. /\ hand' = [kind |-> "events", n |-> 1, rows |-> rows] /\ unauth' = FALSE
      /\ pc' = "delete" \/ pc' = "delete1"
      /\ UNCHANGED <<mseq, eseq, mq, eq, ovf, part, stopping, hub, hubSeq, hubHas, crashes,
                     fails, enq, dropped, poisoned, reported>>
  BY DEF PostEvents, queueVars, hubVars, countVars, histVars
<1> HIDE DEF k
<1>2. rows \in SUBSET Nat
  BY EventNumbers
<1> HIDE DEF rows
<1>3. hand' \in HandRow /\ hand'.kind = "events" /\ fails' \in Nat
  BY <1>1, <1>2 DEF HandRow, AgentInv, LoopOK
<1> QED BY <1>1, <1>3, AskedStep

LEMMA PostEventsPoisonStep == ASSUME AgentInv, PostEventsPoison PROVE AgentInv'
<1> DEFINE rows == {r.seq : r \in OldestRows(eq, MaxSend)}
<1>1. /\ fails' = fails + 1 /\ unauth' = FALSE
      /\ hand' = (IF Probing THEN hand
                  ELSE [kind |-> "badEvents", n |-> Cardinality(rows), rows |-> rows])
      /\ pc' = (IF Probing THEN "wait" ELSE "delete")
      /\ UNCHANGED <<mseq, eseq, mq, eq, ovf, part, stopping, hub, hubSeq, hubHas, crashes,
                     enq, dropped, poisoned, reported>>
  BY DEF PostEventsPoison, queueVars, hubVars, histVars
<1>2. rows \in SUBSET Nat /\ Cardinality(rows) \in Nat
  BY EventNumbers
<1> HIDE DEF rows
<1>3. /\ part' \in {"metrics", "events"} /\ unauth' \in BOOLEAN /\ stopping' \in BOOLEAN
      /\ crashes' \in Nat /\ fails' \in Nat /\ hub' \in {"up", "down", "unauth"}
  <2>1. fails' \in Nat
    BY <1>1 DEF AgentInv, LoopOK
  <2> QED BY <1>1, <2>1 DEF AgentInv, LoopOK, HubOK
<1>4. CASE Probing
  <2>1. hand' = hand /\ pc' \in Places \ {"take", "report", "delete", "delete1"}
    BY <1>1, <1>4 DEF Places
  <2> QED BY <1>1, <1>3, <2>1, QuietStep
<1>5. CASE ~Probing
  <2>1. hand' \in HandRow /\ hand'.kind = "badEvents" /\ pc' = "delete"
    BY <1>1, <1>2, <1>5 DEF HandRow
  <2> QED BY <1>1, <1>3, <2>1, AskedStep
<1> QED BY <1>4, <1>5

\* Only applied and refused rows go.
LEMMA DeleteRowsStep == ASSUME AgentInv, DeleteRows PROVE AgentInv'
<1>1. /\ pc \in {"delete", "delete1"}
      /\ mq' = (IF OfEvents THEN mq ELSE mq \ hand.rows)
      /\ eq' = (IF OfEvents THEN {r \in eq : r.seq \notin hand.rows} ELSE eq)
      /\ poisoned' = (IF hand.kind = "badMetrics" THEN poisoned \cup hand.rows ELSE poisoned)
      /\ hand' = (IF Refused THEN hand ELSE Nothing)
      /\ UNCHANGED <<mseq, eseq, ovf, part, unauth, stopping, hub, hubSeq, hubHas, crashes,
                     fails, enq, dropped, reported>>
  BY DEF DeleteRows, hubVars, countVars
<1>2. hand \in HandRow /\ hand.kind # "none"
  BY <1>1 DEF AgentInv, LoopOK
<1>3. pc' \in {"idle", "complain", "metrics", "events"}
  <2>1. CASE pc = "delete1"
    BY <2>1 DEF DeleteRows
  <2>2. CASE pc = "delete" /\ Refused
    BY <2>2 DEF DeleteRows
  <2>3. CASE pc = "delete" /\ ~Refused
    <3>1. pc' = hand.kind
      BY <2>3 DEF DeleteRows
    <3>2. hand.kind \in {"metrics", "events"}
      BY <1>2, <2>3 DEF Refused, HandRow
    <3> QED BY <3>1, <3>2
  <2> QED BY <1>1, <2>1, <2>2, <2>3
<1>4. mq' \subseteq mq /\ \A x \in mq : x \in mq' \/ x \in hubHas \/ x \in poisoned'
  BY <1>1, <1>2 DEF AgentInv, HandOK, OfEvents, Refused, HandRow
<1>5. poisoned \subseteq poisoned' /\ poisoned' \subseteq enq
  BY <1>1 DEF AgentInv, HandOK, HistOK
<1>6. QueueOK' /\ HubOK' /\ HistOK' /\ FreshIsNew'
  BY <1>1, <1>4, <1>5 DEF AgentInv, QueueOK, HubOK, HistOK, FreshIsNew
<1>7. Accounted'
  BY <1>1, <1>4, <1>5 DEF AgentInv, Accounted
<1>8. EventsOK'
  <2>1. eq' \subseteq eq /\ IsFiniteSet(eq)
    BY <1>1 DEF AgentInv, EventsOK
  <2>2. IsFiniteSet(eq')
    BY <2>1, FS_Subset
  <2> QED BY <1>1, <2>1, <2>2 DEF AgentInv, EventsOK, EventRow
<1>9. LoopOK' /\ TakenOK'
  <2>1. Nothing \in HandRow
    BY DEF Nothing, HandRow
  <2> QED BY <1>1, <1>3, <2>1 DEF AgentInv, LoopOK, Places, TakenOK
<1>10. HandOK'
  <2>1. CASE Refused
    BY <1>1, <2>1 DEF AgentInv, HandOK, OfEvents, Refused
  <2>2. CASE ~Refused
    BY <1>1, <2>2 DEF HandOK, Nothing
  <2> QED BY <2>1, <2>2
<1>11. OverflowNotInflated'
  BY <1>1, <1>3, Amounts DEF AgentInv, OverflowNotInflated
<1> QED BY <1>6, <1>7, <1>8, <1>9, <1>10, <1>11 DEF AgentInv

LEMMA ReportPoisonStep == ASSUME AgentInv, ReportPoison PROVE AgentInv'
<1>1. /\ pc = "complain" /\ eseq' = eseq + 1
      /\ eq' = eq \cup {[seq |-> eseq + 1, kind |-> "custom", n |-> hand.n]}
      /\ hand' = Nothing /\ pc' \in {"events", "metrics"}
      /\ UNCHANGED <<mseq, mq, ovf, part, unauth, stopping, hub, hubSeq, hubHas, crashes, fails,
                     enq, dropped, poisoned, reported>>
  BY DEF ReportPoison, EnqueueEventNoTrim, hubVars, countVars, histVars
<1>2. EventsOK'
  <2>1. eq' = (eq \cup {[seq |-> eseq + 1, kind |-> "custom", n |-> hand.n]}) \ {}
    BY <1>1
  <2> QED BY <1>1, <2>1, Amounts, EventAdded
<1>3. QueueOK' /\ HubOK' /\ HistOK' /\ FreshIsNew' /\ Accounted'
  BY <1>1 DEF AgentInv, QueueOK, HubOK, HistOK, FreshIsNew, Accounted
<1>4. LoopOK' /\ TakenOK'
  <2>1. Nothing \in HandRow
    BY DEF Nothing, HandRow
  <2> QED BY <1>1, <2>1 DEF AgentInv, LoopOK, Places, TakenOK
<1>5. HandOK'
  BY <1>1 DEF HandOK, Nothing
<1>6. OverflowNotInflated'
  BY <1>1, Amounts DEF AgentInv, OverflowNotInflated
<1> QED BY <1>2, <1>3, <1>4, <1>5, <1>6 DEF AgentInv

LEMMA StartStep == ASSUME AgentInv, Start PROVE AgentInv'
<1> DEFINE r == [seq |-> eseq + 1, kind |-> "started", n |-> 0]
           gone == OldestRows(eq \cup {r}, Excess(eq \cup {r}, MaxEvents))
<1>1. /\ eseq' = eseq + 1 /\ eq' = (eq \cup {r}) \ gone
      /\ ovf' = [ovf EXCEPT !.events = @ + Cardinality(gone)]
      /\ pc' = "idle" /\ part' = "metrics" /\ hand' = Nothing
      /\ unauth' = FALSE /\ stopping' = FALSE
      /\ UNCHANGED <<mseq, mq, hub, hubSeq, hubHas, crashes, fails, enq, dropped, poisoned,
                     reported>>
  BY DEF Start, EnqueueEvent, hubVars, countVars, histVars
<1>2. gone \subseteq eq \cup {r}
  BY DEF OldestRows
<1> HIDE DEF gone
<1>3. EventsOK' /\ IsFiniteSet(eq \cup {r})
  BY <1>1, EventAdded
<1> HIDE DEF r
<1>4. Cardinality(gone) \in Nat
  <2>1. IsFiniteSet(gone)
    BY <1>2, <1>3, FS_Subset
  <2> QED BY <2>1, FS_CardinalityType
<1>5. ovf' \in [metrics : Nat, events : Nat] /\ ovf'.metrics = ovf.metrics
  BY <1>1, <1>4 DEF AgentInv, QueueOK
<1>6. QueueOK' /\ HubOK' /\ HistOK' /\ FreshIsNew' /\ Accounted'
  BY <1>1, <1>5 DEF AgentInv, QueueOK, HubOK, HistOK, FreshIsNew, Accounted
<1>7. LoopOK' /\ TakenOK'
  <2>1. Nothing \in HandRow
    BY DEF Nothing, HandRow
  <2> QED BY <1>1, <2>1 DEF AgentInv, LoopOK, Places, TakenOK
<1>8. HandOK'
  BY <1>1 DEF HandOK, Nothing
<1>9. OverflowNotInflated'
  BY <1>1, <1>5, Amounts DEF AgentInv, OverflowNotInflated
<1> QED BY <1>3, <1>6, <1>7, <1>8, <1>9 DEF AgentInv

LEMMA NextAgent == AgentInv /\ [Next]_vars => AgentInv'
<1> SUFFICES ASSUME AgentInv, [Next]_vars PROVE AgentInv'
  OBVIOUS
<1>1. CASE Collect \/ CollectFails
  BY <1>1, CollectStep, CollectFailsStep
<1>2. CASE TakeOverflowRead \/ TakeOverflowDelete \/ ReportOverflow \/ TrimBacklog
  BY <1>2, TakeOverflowReadStep, TakeOverflowDeleteStep, ReportOverflowStep, TrimBacklogStep
<1>3. CASE PostMetrics \/ PostMetricsUnanswered \/ PostMetricsPoison
  BY <1>3, PostMetricsStep, PostMetricsUnansweredStep, PostMetricsPoisonStep
<1>4. CASE PostEvents \/ PostEventsPoison \/ DeleteRows \/ ReportPoison \/ Start
  BY <1>4, PostEventsStep, PostEventsPoisonStep, DeleteRowsStep, ReportPoisonStep, StartStep
<1>5. /\ hub \in {"up", "down", "unauth"} /\ part \in {"metrics", "events"} /\ pc \in Places
      /\ unauth \in BOOLEAN /\ stopping \in BOOLEAN
      /\ crashes \in Nat /\ fails \in Nat /\ crashes + 1 \in Nat /\ fails + 1 \in Nat
  <2>1. crashes \in Nat /\ fails \in Nat
    BY DEF AgentInv, LoopOK
  <2>2. crashes + 1 \in Nat /\ fails + 1 \in Nat
    BY <2>1
  <2> QED BY <2>1, <2>2 DEF AgentInv, LoopOK, HubOK
<1> DEFINE Loop == /\ pc' \in {"dead", "idle", "wait", "flush", "events", "probe"}
                   /\ part' \in {"metrics", "events"}
                   /\ hand' \in {hand, Nothing}
           Rest == UNCHANGED <<mseq, eseq, mq, eq, ovf, hubSeq, hubHas, enq, dropped, poisoned,
                               reported>>
           Flags == /\ unauth' \in BOOLEAN /\ stopping' \in BOOLEAN /\ crashes' \in Nat
                    /\ fails' \in Nat /\ hub' \in {"up", "down", "unauth"}
<1>6. ASSUME Loop, Rest, Flags PROVE AgentInv'
  <2>1. pc' \in Places \ {"take", "report", "delete", "delete1"}
    BY <1>6 DEF Places
  <2> QED BY <1>6, <2>1, QuietStep
<1>7. CASE Turn \/ Retry \/ MetricsDone \/ EventsDone
  <2>1. Loop /\ Rest /\ Flags
    BY <1>5, <1>7 DEF Turn, Retry, MetricsDone, EventsDone, Return, queueVars, hubVars,
                      countVars, histVars
  <2> QED BY <1>6, <2>1
<1>8. CASE PostFails \/ PostEventsUnanswered
  <2>1. Loop /\ Rest /\ Flags
    BY <1>5, <1>8 DEF PostFails, PostEventsUnanswered, Return, queueVars, hubVars, countVars,
                      histVars
  <2> QED BY <1>6, <2>1
<1>9. CASE Stop \/ Crash
  <2>1. Loop /\ Rest /\ Flags
    BY <1>5, <1>9 DEF Stop, Crash, queueVars, hubVars, histVars
  <2> QED BY <1>6, <2>1
<1>10. CASE HubChange \/ HubBack \/ UNCHANGED vars
  <2>1. pc' = pc /\ part' = part /\ hand' = hand /\ Rest
    BY <1>10 DEF HubChange, HubBack, queueVars, histVars, vars
  <2>2. Flags
    BY <1>5, <1>10 DEF HubChange, HubBack, countVars, vars
  <2> QED BY <1>5, <2>1, <2>2, QuietStep
<1> QED BY <1>1, <1>2, <1>3, <1>4, <1>7, <1>8, <1>9, <1>10 DEF Next, Drain

-----------------------------------------------------------------------------
(* The theorems.                                                           *)

\* The tables, the drain loop and the hub keep their types (queue.go, reporter.go).
THEOREM AgentTypeCorrect == Spec => []TypeOK
<1>1. AgentInv => TypeOK
  <2> SUFFICES ASSUME AgentInv PROVE TypeOK
    OBVIOUS
  <2>1. mseq \in Nat /\ mq \subseteq 1..mseq /\ enq \subseteq 1..mseq
        /\ ovf \in [metrics : Nat, events : Nat]
    BY DEF AgentInv, QueueOK
  <2>2. eseq \in Nat
        /\ eq \subseteq [seq : 1..eseq, kind : {"started", "overflow", "custom"}, n : Nat]
    BY DEF AgentInv, EventsOK, EventRow
  <2> QED BY <2>1, <2>2 DEF TypeOK, AgentInv, LoopOK, HubOK, HistOK, Places, HandRow
<1> QED BY <1>1, InitAgent, NextAgent, PTL DEF Spec

\* Whatever the capacity, the crashes and the answers that are lost, a batch that was queued
\* is still there, with the hub, cut by an overflow, or refused for good (queue.go,
\* reporter.go).
THEOREM BatchesAccounted == Spec => []Accounted
<1>1. AgentInv => Accounted
  BY DEF AgentInv
<1> QED BY <1>1, InitAgent, NextAgent, PTL DEF Spec

\* The hub's test of the sequence number never takes a batch it does not have for an old
\* one (nextSeq, PeekMetrics; handleIngestMetrics).
THEOREM QueuedIsNew == Spec => []FreshIsNew
<1>1. AgentInv => FreshIsNew
  BY DEF AgentInv
<1> QED BY <1>1, InitAgent, NextAgent, PTL DEF Spec

\* No loss is reported twice, whatever comes between the steps of a report (TakeOverflow,
\* flushOverflowEvents).
THEOREM LossesReportedOnce == Spec => []OverflowNotInflated
<1>1. AgentInv => OverflowNotInflated
  BY DEF AgentInv
<1> QED BY <1>1, InitAgent, NextAgent, PTL DEF Spec

=============================================================================
