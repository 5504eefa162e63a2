---------------------------- MODULE SourceProofs ----------------------------
(***************************************************************************)
(* The versioned documents, the source's row in the change log, and the    *)
(* feedback proxy: for any number of administrators, reports under way and *)
(* proxied requests, beside everything else that happens to a source.      *)
(***************************************************************************)
EXTENDS FeedbackProxy, TLAPS

\* The document and the copies the administrators hold.
DocTypeOK ==
  /\ doc \in [version : Nat \ {0}, text : SUBSET Nat]
  /\ edit \in [Admins -> [at : {"idle", "editing"}, version : Nat, text : SUBSET Nat]]
  /\ taken \subseteq Nat

\* A copy is not newer than the document, and one of its version has its text.
CopiesTrue ==
  \A a \in Admins : /\ edit[a].version <= doc.version
                    /\ edit[a].version = doc.version => edit[a].text = doc.text

DocInv == DocTypeOK /\ CopiesTrue /\ NoEditLost

LEMMA DocInit == AdminInit => DocInv
BY DEF AdminInit, NoCopy, DocInv, DocTypeOK, CopiesTrue, NoEditLost

\* An administrator who loads the document holds a true copy.
LEMMA ReadKeeps ==
  ASSUME DocInv, NEW a \in Admins, ReadDoc(a)
  PROVE  DocInv'
<1> USE DEF DocInv, DocTypeOK, CopiesTrue, NoEditLost
<1>1. doc' = doc /\ taken' = taken
  BY DEF ReadDoc
<1>2. edit' = [edit EXCEPT ![a] = [at |-> "editing", version |-> doc.version, text |-> doc.text]]
  BY DEF ReadDoc
<1>3. DocTypeOK'
  BY <1>1, <1>2
<1>4. CopiesTrue'
  <2> TAKE b \in Admins
  <2>1. CASE b = a
    BY <1>1, <1>2, <2>1
  <2>2. CASE b # a
    BY <1>1, <1>2, <2>2
  <2>3. QED
    BY <2>1, <2>2
<1>5. QED
  BY <1>1, <1>3, <1>4

\* A save whose version matches is based on every edit taken so far; all other copies
\* are older than the new version.
LEMMA WriteKeeps ==
  ASSUME DocInv, NEW a \in Admins, WriteDoc(a)
  PROVE  DocInv'
<1> USE DEF NoCopy, DocInv, DocTypeOK, CopiesTrue, NoEditLost
<1>1. edit' = [edit EXCEPT ![a] = NoCopy]
  BY DEF WriteDoc
<1>2. CASE doc' = doc /\ taken' = taken
  <2>1. DocTypeOK'
    BY <1>1, <1>2
  <2>2. CopiesTrue'
    <3> TAKE b \in Admins
    <3>1. CASE b = a
      BY <1>1, <1>2, <3>1
    <3>2. CASE b # a
      BY <1>1, <1>2, <3>2
    <3>3. QED
      BY <3>1, <3>2
  <2>3. QED
    BY <1>2, <2>1, <2>2
<1>3. CASE /\ Matches(a)
           /\ doc' = [version |-> doc.version + 1, text |-> edit[a].text \union {doc.version}]
           /\ taken' = taken \union {doc.version}
  <2>1. edit[a].text = doc.text
    BY <1>3 DEF Matches
  <2>2. DocTypeOK'
    <3>1. edit[a].text \union {doc.version} \in SUBSET Nat /\ doc.version + 1 \in Nat \ {0}
      BY <2>1
    <3>2. doc' \in [version : Nat \ {0}, text : SUBSET Nat]
      BY <1>3, <3>1
    <3>3. edit' \in [Admins -> [at : {"idle", "editing"}, version : Nat, text : SUBSET Nat]]
      BY <1>1
    <3>4. taken' \subseteq Nat
      BY <1>3, <3>1
    <3>5. QED
      BY <3>2, <3>3, <3>4
  <2>3. CopiesTrue'
    <3> TAKE b \in Admins
    <3>1. CASE b = a
      BY <1>1, <1>3, <3>1
    <3>2. CASE b # a
      BY <1>1, <1>3, <3>2
    <3>3. QED
      BY <3>1, <3>2
  <2>4. NoEditLost'
    BY <1>3, <2>1
  <2>5. QED
    BY <2>2, <2>3, <2>4
<1>4. QED
  BY <1>2, <1>3 DEF WriteDoc

\* The requests of the proxy and the handlers of sources leave the documents alone.
LEMMA OthersKeep ==
  ASSUME DocInv, UNCHANGED document
  PROVE  DocInv'
BY DEF DocInv, DocTypeOK, CopiesTrue, NoEditLost, document

LEMMA AdminKeeps ==
  ASSUME DocInv, AdminNext
  PROVE  DocInv'
<1>1. ASSUME NEW a \in Admins, ReadDoc(a) PROVE DocInv'
  BY <1>1, ReadKeeps
<1>2. ASSUME NEW a \in Admins, WriteDoc(a) PROVE DocInv'
  BY <1>2, WriteKeeps
<1>3. CASE Create \/ Patch \/ RotateKey \/ RotateMgmtKey \/ Delete
  BY <1>3, OthersKeep DEF Create, Patch, RotateKey, RotateMgmtKey, Delete
<1>4. ASSUME NEW i \in Ingests, Report(i) \/ Authenticate(i) \/ Apply(i) PROVE DocInv'
  BY <1>4, OthersKeep DEF Report, Authenticate, Apply
<1>5. QED
  BY <1>1, <1>2, <1>3, <1>4 DEF AdminNext

\* A step of the specification is one of the administration, or leaves all of it alone.
LEMMA StepSplit == [Next]_vars => AdminNext \/ UNCHANGED adminVars
<1> SUFFICES ASSUME [Next]_vars PROVE AdminNext \/ UNCHANGED adminVars
  OBVIOUS
<1>1. ASSUME NEW p \in Proxies,
             \/ Begin(p) \/ Respond(p) \/ Run(p) \/ Reply(p) \/ Timeout(p)
             \/ Answer(p) \/ Probe(p) \/ Probed(p) \/ Finish(p)
      PROVE  UNCHANGED adminVars
  BY <1>1 DEF Begin, Respond, Run, Reply, Timeout, Answer, Probe, Probed, Finish
<1>2. (\E id \in Ids : Complete(id)) \/ Operate => UNCHANGED adminVars
  BY DEF Complete, Operate
<1> QED BY <1>1, <1>2 DEF Next, vars

LEMMA DocStep == DocInv /\ [Next]_vars => DocInv'
BY StepSplit, AdminKeeps, OthersKeep DEF adminVars

\* No edit the hub accepted is ever lost, however many administrators save documents
\* they loaded at whatever time (handleRulesPut, handleSettingsPatch).
THEOREM EditsKept == Spec => []NoEditLost
<1>1. Init => DocInv
  BY DocInit DEF Init
<1>2. DocInv => NoEditLost
  BY DEF DocInv
<1> QED BY <1>1, <1>2, DocStep, PTL DEF Spec

-----------------------------------------------------------------------------
(* The source's row and what the change log says of it.                    *)

SourceRow == [kind : Kinds \union {"none"}, deleted : BOOLEAN, enabled : BOOLEAN, key : Gens,
              mgmt : Gens, base : Gens, seen : 0 .. MaxSeen]

RowTypeOK ==
  /\ row \in SourceRow
  /\ gen \in Gens
  /\ ingest \in [Ingests -> [at : {"idle", "sent", "authed"}, key : Gens]]
  /\ late \in BOOLEAN

\* A deleted source has an authenticated report under way only if it had one when it
\* was deleted: nothing is authenticated against a deleted row.
NoneLate == row.deleted /\ ~late => \A i \in Ingests : ingest[i].at # "authed"

LogInv == RowTypeOK /\ NoneLate /\ LogTellsRow

LEMMA LogInit == AdminInit => LogInv
<1> SUFFICES ASSUME AdminInit PROVE LogInv
  OBVIOUS
<1>1. 0 \in Gens /\ 0 \in 0 .. MaxSeen
  BY BoundsOK DEF Gens
<1>2. NoRow \in SourceRow /\ ~NoRow.deleted /\ NoRow.kind = "none"
  BY <1>1, Zenon DEF NoRow, SourceRow, Kinds
<1> QED BY <1>1, <1>2 DEF AdminInit, LogInv, RowTypeOK, NoneLate, LogTellsRow, Live

\* A step that announces the row it commits and neither authenticates nor undeletes.
LEMMA Announced ==
  ASSUME LogInv, NEW r \in SourceRow, Commit(r), gen' \in Gens,
         ~r.deleted, UNCHANGED <<ingest, late>>
  PROVE  LogInv'
BY DEF LogInv, RowTypeOK, NoneLate, LogTellsRow, Live, Commit

LEMMA CreateTells == LogInv /\ Create => LogInv'
<1> SUFFICES ASSUME LogInv, Create PROVE LogInv'
  OBVIOUS
<1>1. PICK kind \in Kinds, base \in {0, gen + 2}, mgmt \in {0, gen + 2} :
        Commit([NoRow EXCEPT !.kind = kind, !.enabled = TRUE, !.key = gen + 1,
                             !.mgmt = mgmt, !.base = base])
  BY DEF Create
<1> DEFINE r == [NoRow EXCEPT !.kind = kind, !.enabled = TRUE, !.key = gen + 1,
                              !.mgmt = mgmt, !.base = base]
<1>2. 0 \in Gens /\ gen + 1 \in Gens /\ gen + 2 \in Gens /\ 0 \in 0 .. MaxSeen
  BY BoundsOK DEF Create, Gens, LogInv, RowTypeOK
<1>3. NoRow \in SourceRow /\ ~NoRow.deleted
  BY <1>2, Zenon DEF NoRow, SourceRow, Kinds
<1>4. r \in SourceRow /\ ~r.deleted
  <2>1. kind \in Kinds \union {"none"} /\ mgmt \in Gens /\ base \in Gens
    BY <1>2
  <2>2. r \in SourceRow
    BY <1>2, <1>3, <2>1, Zenon DEF SourceRow
  <2>3. r.deleted = NoRow.deleted
    BY <1>3 DEF SourceRow
  <2> QED BY <1>3, <2>2, <2>3
<1>5. gen' \in Gens /\ UNCHANGED <<ingest, late>>
  BY <1>2 DEF Create
<1> QED BY <1>1, <1>4, <1>5, Announced DEF r

\* The three handlers that change a live row in place.
LEMMA UpdateTells == LogInv /\ (Patch \/ RotateKey \/ RotateMgmtKey) => LogInv'
<1> SUFFICES ASSUME LogInv, Patch \/ RotateKey \/ RotateMgmtKey PROVE LogInv'
  OBVIOUS
<1>1. /\ row \in SourceRow /\ ~row.deleted /\ gen' = gen + 1 /\ UNCHANGED <<ingest, late>>
  BY DEF LogInv, RowTypeOK, Live, Patch, RotateKey, RotateMgmtKey
<1>2. 0 \in Gens /\ gen + 1 \in Gens
  <2>1. gen < MaxGen /\ gen \in Gens
    BY DEF Patch, RotateKey, RotateMgmtKey, LogInv, RowTypeOK
  <2> QED BY <2>1, BoundsOK DEF Gens
<1>3. row.mgmt \in Gens /\ row.base \in Gens
  BY <1>1 DEF SourceRow
<1>4. CASE Patch
  <2>1. PICK enabled \in BOOLEAN, base \in {row.base, 0, gen + 1}, mgmt \in {row.mgmt, 0, gen + 1} :
          Commit([row EXCEPT !.enabled = enabled, !.base = base, !.mgmt = mgmt])
    BY <1>4 DEF Patch
  <2> DEFINE r == [row EXCEPT !.enabled = enabled, !.base = base, !.mgmt = mgmt]
  <2>2. base \in Gens /\ mgmt \in Gens
    BY <1>2, <1>3
  <2>3. r \in SourceRow
    BY <1>1, <2>2, Zenon DEF SourceRow
  <2>4. ~r.deleted
    BY <1>1 DEF SourceRow
  <2> QED BY <1>1, <1>2, <2>1, <2>3, <2>4, Announced
<1>5. CASE RotateKey
  <2> DEFINE r == [row EXCEPT !.key = gen + 1]
  <2>1. r \in SourceRow
    BY <1>1, <1>2, Zenon DEF SourceRow
  <2>2. ~r.deleted
    BY <1>1 DEF SourceRow
  <2>3. Commit(r)
    BY <1>1, <1>5 DEF RotateKey
  <2> QED BY <1>1, <1>2, <2>1, <2>2, <2>3, Announced
<1>6. CASE RotateMgmtKey
  <2> DEFINE r == [row EXCEPT !.mgmt = gen + 1]
  <2>1. r \in SourceRow
    BY <1>1, <1>2, Zenon DEF SourceRow
  <2>2. ~r.deleted
    BY <1>1 DEF SourceRow
  <2>3. Commit(r)
    BY <1>1, <1>6 DEF RotateMgmtKey
  <2> QED BY <1>1, <1>2, <2>1, <2>2, <2>3, Announced
<1> QED BY <1>4, <1>5, <1>6

LEMMA DeleteTells == LogInv /\ Delete => LogInv'
<1> SUFFICES ASSUME LogInv, Delete PROVE LogInv'
  OBVIOUS
<1> DEFINE r == [row EXCEPT !.deleted = TRUE, !.key = 0, !.mgmt = 0]
<1>1. /\ row \in SourceRow /\ row' = r /\ shown' = Tombstone /\ UNCHANGED <<gen, ingest>>
      /\ late' = (\E i \in Ingests : ingest[i].at = "authed")
  BY DEF LogInv, RowTypeOK, Delete
<1>2. 0 \in Gens
  BY BoundsOK DEF Gens
<1>3. r \in SourceRow
  BY <1>1, <1>2, Zenon DEF SourceRow
<1>4. r.deleted = TRUE
  BY <1>1 DEF SourceRow
<1> HIDE DEF r
<1>5. RowTypeOK'
  BY <1>1, <1>3 DEF LogInv, RowTypeOK
<1>6. NoneLate'
  BY <1>1 DEF NoneLate
<1>7. LogTellsRow'
  BY <1>1, <1>4 DEF LogTellsRow, Live
<1> QED BY <1>5, <1>6, <1>7 DEF LogInv

LEMMA ReportsTell ==
  ASSUME LogInv, NEW i \in Ingests, Report(i) \/ Authenticate(i) \/ Apply(i)
  PROVE  LogInv'
<1> DEFINE Handler == [at : {"idle", "sent", "authed"}, key : Gens]
<1>1. /\ row \in SourceRow /\ gen \in Gens /\ ingest \in [Ingests -> Handler] /\ late \in BOOLEAN
      /\ NoneLate /\ LogTellsRow
  BY DEF LogInv, RowTypeOK
<1>2. CASE Report(i)
  <2>1. PICK key \in 1 .. gen : ingest' = [ingest EXCEPT ![i] = [at |-> "sent", key |-> key]]
    BY <1>2 DEF Report
  <2>2. key \in Gens
    BY <1>1, BoundsOK DEF Gens
  <2>3. UNCHANGED <<row, gen, shown, late>>
    BY <1>2 DEF Report, source
  <2>4. [at |-> "sent", key |-> key] \in Handler
    BY <2>2
  <2>5. RowTypeOK'
    BY <1>1, <2>1, <2>3, <2>4 DEF RowTypeOK
  <2>6. \A j \in Ingests : ingest'[j].at = "authed" => ingest[j].at = "authed"
    BY <1>1, <2>1
  <2>7. NoneLate'
    BY <1>1, <2>3, <2>6 DEF NoneLate
  <2> QED BY <1>1, <2>3, <2>5, <2>7 DEF LogInv, LogTellsRow, Live
<1>3. CASE Authenticate(i)
  <2> DEFINE at == IF KeyKnown(ingest[i].key) /\ row.enabled THEN "authed" ELSE "idle"
             h == [ingest[i] EXCEPT !.at = at]
  <2>1. ingest' = [ingest EXCEPT ![i] = h]
    BY <1>3 DEF Authenticate
  <2>2. UNCHANGED <<row, gen, shown, late>>
    BY <1>3 DEF Authenticate, source
  <2>3. ingest[i] \in Handler /\ at \in {"idle", "authed"} /\ (at = "authed" => ~row.deleted)
    BY <1>1 DEF KeyKnown, Live
  <2> HIDE DEF at
  <2>4. h \in Handler /\ h.at = at
    BY <2>3
  <2> HIDE DEF h
  <2>5. RowTypeOK'
    BY <1>1, <2>1, <2>2, <2>4 DEF RowTypeOK
  <2>6. \A j \in Ingests : ingest'[j].at = "authed" => ingest[j].at = "authed" \/ ~row.deleted
    BY <1>1, <2>1, <2>3, <2>4
  <2>7. NoneLate'
    BY <1>1, <2>2, <2>6 DEF NoneLate
  <2> QED BY <1>1, <2>2, <2>5, <2>7 DEF LogInv, LogTellsRow, Live
<1>4. CASE Apply(i)
  <2> DEFINE r == [row EXCEPT !.seen = @ + 1]
  <2>1. /\ row' = r /\ shown' = r /\ UNCHANGED <<gen, late>> /\ ingest[i].at = "authed"
        /\ ingest' = [ingest EXCEPT ![i] = [at |-> "idle", key |-> 0]]
    BY <1>4 DEF Apply, Commit
  <2>2. row.seen + 1 \in 0 .. MaxSeen
    BY <1>1, <1>4, BoundsOK DEF Apply, SourceRow
  <2>3. r \in SourceRow
    BY <1>1, <2>2, Zenon DEF SourceRow
  <2>4. r.deleted = row.deleted
    BY <1>1 DEF SourceRow
  <2> HIDE DEF r
  <2>5. [at |-> "idle", key |-> 0] \in Handler
    BY BoundsOK DEF Gens
  <2>6. RowTypeOK'
    BY <1>1, <2>1, <2>3, <2>5 DEF RowTypeOK
  <2>7. ~(row.deleted /\ ~late)
    BY <1>1, <2>1 DEF NoneLate
  <2>8. NoneLate' /\ LogTellsRow'
    BY <2>1, <2>4, <2>7 DEF NoneLate, LogTellsRow, Live
  <2> QED BY <2>6, <2>8 DEF LogInv
<1> QED BY <1>2, <1>3, <1>4

\* Nothing else touches the row, the log or the handlers.
LEMMA LogKept ==
  ASSUME LogInv, UNCHANGED <<source, ingest, late>>
  PROVE  LogInv'
BY DEF LogInv, RowTypeOK, NoneLate, LogTellsRow, Live, source

LEMMA AdminTells == LogInv /\ AdminNext => LogInv'
<1> SUFFICES ASSUME LogInv, AdminNext PROVE LogInv'
  OBVIOUS
<1>1. ASSUME NEW a \in Admins, ReadDoc(a) \/ WriteDoc(a) PROVE LogInv'
  BY <1>1, LogKept DEF ReadDoc, WriteDoc
<1> QED BY <1>1, CreateTells, UpdateTells, DeleteTells, ReportsTell DEF AdminNext

LEMMA LogStep == LogInv /\ [Next]_vars => LogInv'
BY StepSplit, AdminTells, LogKept DEF adminVars

\* No handler changes a source behind the clients' backs: the last thing the change log
\* says of a live source is its row, and a deleted one comes back at the clients only
\* through a report that was authenticated before the deletion (emitSourceChangeTx).
THEOREM ChangesAnnounced == Spec => []LogTellsRow
<1>1. Init => LogInv
  BY LogInit DEF Init
<1>2. LogInv => LogTellsRow
  BY DEF LogInv
<1> QED BY <1>1, <1>2, LogStep, PTL DEF Spec

-----------------------------------------------------------------------------
(* The feedback proxy, beside the administration of the source.            *)

Stages == {"idle", "sent", "running", "answered", "probing", "done"}
Names == Ids \union {None}
Statuses == {0, 200, 401, 404, 409, 429, 500}
Request == [at : Stages, route : Routes, id : Names, key : Gens, base : Gens, read : Gens,
            ran : BOOLEAN, status : Statuses, code : Codes]

Service == [read : Gens, mgmt : Gens, manages : BOOLEAN, item : BOOLEAN,
            run : [Ids -> {"new", "running", "done"}]]

\* What a request under way holds was loaded from one row, the key a probe will send
\* included.
Loaded(q, rows) ==
  q.at \in {"sent", "running", "answered", "probing"} =>
    \E r \in rows : /\ q.base = r.base
                    /\ q.read = r.key
                    /\ q.key = IF Managed(q.route) /\ q.at # "probing" THEN r.mgmt ELSE r.key

\* What is known of an action before the client is told: a request that started it gets
\* no answer but 200 or 500, and a 200 says that the action has been run.
Truthful(q, run) ==
  /\ q.route = "action" => q.id \in Ids
  /\ q.ran => q.route = "action" /\ q.at \in {"running", "answered", "done"}
  /\ q.at = "answered" /\ q.ran => q.status \in {200, 500}
  /\ q.at = "answered" /\ q.route = "action" /\ q.status = 200 => run[q.id] = "done"
  /\ q.at = "done" /\ q.route = "action" =>
       /\ q.code = "ok" => run[q.id] = "done"
       /\ q.ran => q.code \in {"ok", "unavailable"}

ProxyInv ==
  /\ LogInv
  /\ fb \in [Proxies -> Request]
  /\ upstream \in Service
  /\ Live => Holds(row) \in given
  /\ \A p \in Proxies : Loaded(fb[p], given) /\ Truthful(fb[p], upstream.run)

\* The stages a request goes through.
LEMMA StagesIn == \A x \in {"sent", "running", "answered", "probing", "done"} : x \in Stages
BY DEF Stages

LEMMA FreeRequest == Free \in Request /\ Loaded(Free, given) /\ Truthful(Free, upstream.run)
<1>1. 0 \in Gens
  BY BoundsOK DEF Gens
<1>2. Free \in Request
  BY <1>1, Zenon DEF Free, Request, Stages, Names, Statuses, Routes, Codes, None
<1> QED BY <1>2 DEF Free, Loaded, Truthful

LEMMA ProxyInit == Init => ProxyInv
<1> SUFFICES ASSUME Init PROVE ProxyInv
  OBVIOUS
<1>1. 0 \in Gens /\ LogInv
  BY BoundsOK, LogInit DEF Gens, Init
<1>2. upstream \in Service
  <2>1. /\ upstream \in [read : {0}, mgmt : {0}, manages : BOOLEAN, item : {TRUE}, run : [Ids -> {"new"}]]
        /\ [Ids -> {"new"}] \subseteq [Ids -> {"new", "running", "done"}]
    BY DEF Init
  <2> QED BY <1>1, <2>1 DEF Service
<1>3. ~Live
  BY DEF Init, AdminInit, NoRow, Live
<1>4. \A p \in Proxies : fb[p] = Free
  BY DEF Init
<1>5. fb \in [Proxies -> Request]
  BY FreeRequest DEF Init
<1> QED BY <1>1, <1>2, <1>3, <1>4, <1>5, FreeRequest DEF ProxyInv

\* One request moves on; an action that is done stays done.
LEMMA OneRequest ==
  ASSUME ProxyInv, NEW p \in Proxies, NEW n \in Request, fb' = [fb EXCEPT ![p] = n],
         UNCHANGED <<adminVars, given>>, upstream' \in Service,
         \A id \in Ids : upstream.run[id] = "done" => upstream'.run[id] = "done",
         Loaded(n, given), Truthful(n, upstream'.run)
  PROVE  ProxyInv'
<1>1. LogInv'
  BY LogKept DEF ProxyInv, adminVars
<1>2. UNCHANGED <<row, given>>
  BY DEF adminVars, source
<1>3. \A q \in Proxies : fb'[q] = IF q = p THEN n ELSE fb[q]
  BY DEF ProxyInv
<1>4. \A q \in Proxies : Loaded(fb[q], given) /\ Truthful(fb[q], upstream.run)
  BY DEF ProxyInv
<1>5. \A q \in Proxies : Truthful(fb[q], upstream'.run)
  BY <1>4 DEF Truthful
<1>6. \A q \in Proxies : Loaded(fb'[q], given') /\ Truthful(fb'[q], upstream'.run)
  BY <1>2, <1>3, <1>4, <1>5
<1>7. (Live => Holds(row) \in given)'
  BY <1>2 DEF ProxyInv, Live, Holds
<1>8. fb' \in [Proxies -> Request]
  BY DEF ProxyInv
<1> QED BY <1>1, <1>6, <1>7, <1>8 DEF ProxyInv

LEMMA BeginKeeps ==
  ASSUME ProxyInv, NEW p \in Proxies, Begin(p)
  PROVE  ProxyInv'
<1>1. PICK route \in Routes, id \in Ids \union {None} :
        /\ route = "action" => id \in Ids
        /\ fb' = [fb EXCEPT ![p] =
          IF Precond(route) # None
          THEN [Free EXCEPT !.at = "done", !.route = route, !.id = id, !.code = Precond(route)]
          ELSE [Free EXCEPT !.at = "sent", !.route = route, !.id = id, !.base = row.base,
                            !.read = row.key,
                            !.key = IF Managed(route) THEN row.mgmt ELSE row.key]]
  <2>1. PICK route \in Routes : \E id \in IF route = "action" THEN Ids ELSE {None} :
          fb' = [fb EXCEPT ![p] =
            IF Precond(route) # None
            THEN [Free EXCEPT !.at = "done", !.route = route, !.id = id, !.code = Precond(route)]
            ELSE [Free EXCEPT !.at = "sent", !.route = route, !.id = id, !.base = row.base,
                              !.read = row.key,
                              !.key = IF Managed(route) THEN row.mgmt ELSE row.key]]
    BY DEF Begin
  <2> QED BY <2>1
<1>2. UNCHANGED <<adminVars, given>> /\ upstream' = upstream /\ upstream \in Service
  BY DEF Begin, ProxyInv
<1>3. Free \in Request /\ Free.ran = FALSE
  BY FreeRequest DEF Free
<1>4. id \in Ids \union {None} /\ (route = "action" => id \in Ids)
  BY <1>1
<1>5. row.base \in Gens /\ row.key \in Gens /\ row.mgmt \in Gens
  BY DEF ProxyInv, LogInv, RowTypeOK, SourceRow
<1>6. CASE Precond(route) # None
  <2> DEFINE n == [Free EXCEPT !.at = "done", !.route = route, !.id = id, !.code = Precond(route)]
  <2>1. Precond(route) \in Codes /\ Precond(route) # "ok"
    BY DEF Precond, Codes
  <2>2. n \in Request
    <3>1. "done" \in Stages /\ id \in Names
      BY StagesIn, <1>4 DEF Names
    <3> QED BY <1>3, <2>1, <3>1, Zenon DEF Request
  <2>3. n.at = "done" /\ n.route = route /\ n.id = id /\ n.code = Precond(route) /\ n.ran = FALSE
    BY <1>3 DEF Request
  <2>4. fb' = [fb EXCEPT ![p] = n]
    BY <1>1, <1>6
  <2> HIDE DEF n
  <2>5. Loaded(n, given) /\ Truthful(n, upstream'.run)
    BY <1>4, <2>1, <2>3 DEF Loaded, Truthful
  <2> QED BY <1>2, <2>2, <2>4, <2>5, OneRequest
<1>7. CASE Precond(route) = None
  <2> DEFINE k == IF Managed(route) THEN row.mgmt ELSE row.key
             n == [Free EXCEPT !.at = "sent", !.route = route, !.id = id, !.base = row.base,
                               !.read = row.key, !.key = k]
  <2>1. fb' = [fb EXCEPT ![p] = n]
    BY <1>1, <1>7
  <2>2. k \in Gens
    BY <1>5
  <2>3. Live
    BY <1>7 DEF Precond, None
  <2>4. Holds(row) \in given
    BY <2>3 DEF ProxyInv
  <2>5. Holds(row).base = row.base /\ Holds(row).key = row.key /\ Holds(row).mgmt = row.mgmt
    BY DEF Holds
  <2>6. k = IF Managed(route) THEN Holds(row).mgmt ELSE Holds(row).key
    BY <2>5
  <2> HIDE DEF k
  <2>7. n \in Request
    <3>1. "sent" \in Stages /\ id \in Names
      BY StagesIn, <1>4 DEF Names
    <3> QED BY <1>3, <1>5, <2>2, <3>1, Zenon DEF Request
  <2>8. /\ n.at = "sent" /\ n.route = route /\ n.id = id /\ n.base = row.base
        /\ n.read = row.key /\ n.key = k /\ n.ran = FALSE
    BY <1>3 DEF Request
  <2> HIDE DEF n
  <2>9. Loaded(n, given) /\ Truthful(n, upstream'.run)
    BY <1>4, <2>4, <2>5, <2>6, <2>8 DEF Loaded, Truthful
  <2> QED BY <1>2, <2>1, <2>7, <2>9, OneRequest
<1> QED BY <1>6, <1>7

\* The service answers at once, or after it has run the action.
LEMMA AnsweredKeeps ==
  ASSUME ProxyInv, NEW p \in Proxies, Respond(p) \/ Reply(p)
  PROVE  ProxyInv'
<1> DEFINE q == fb[p]
<1>1. q \in Request /\ Loaded(q, given) /\ Truthful(q, upstream.run) /\ upstream \in Service
  BY DEF ProxyInv
<1>2. UNCHANGED <<adminVars, given>> /\ upstream' = upstream /\ q.at \in {"sent", "running"}
  BY DEF Respond, Reply
<1>3. PICK status \in Statuses :
        /\ fb' = [fb EXCEPT ![p] = [q EXCEPT !.at = "answered", !.status = status]]
        /\ q.ran => status \in {200, 500}
        /\ q.route = "action" /\ status = 200 => upstream.run[q.id] = "done"
  <2>1. CASE Respond(p)
    <3>1. PICK status \in Answers(p) :
            fb' = [fb EXCEPT ![p] = [q EXCEPT !.at = "answered", !.status = status]]
      BY <2>1 DEF Respond
    <3>2. status \in Statuses
      BY DEF Answers, Statuses
    <3>3. ~q.ran
      BY <1>1, <2>1 DEF Respond, Truthful
    <3>4. q.route = "action" /\ status = 200 => upstream.run[q.id] = "done"
      BY DEF Answers
    <3> QED BY <3>1, <3>2, <3>3, <3>4, Zenon
  <2>2. CASE Reply(p)
    <3> DEFINE with(s) == [fb EXCEPT ![p] = [q EXCEPT !.at = "answered", !.status = s]]
    <3>1. PICK s \in {500} \union (IF upstream.run[q.id] = "done" THEN {200} ELSE {}) :
            fb' = with(s)
      BY <2>2 DEF Reply
    <3> HIDE DEF with
    <3>2. s \in Statuses /\ s \in {200, 500} /\ (s = 200 => upstream.run[q.id] = "done")
      BY DEF Statuses
    <3>3. \E status \in Statuses :
            /\ fb' = with(status)
            /\ q.ran => status \in {200, 500}
            /\ q.route = "action" /\ status = 200 => upstream.run[q.id] = "done"
      BY <3>1, <3>2
    <3> QED BY <3>3 DEF with
  <2> QED BY <2>1, <2>2
<1> DEFINE n == [q EXCEPT !.at = "answered", !.status = status]
<1>4. fb' = [fb EXCEPT ![p] = n]
  BY <1>3
<1> HIDE DEF q
<1>5. n \in Request
  BY <1>1, StagesIn, Zenon DEF Request
<1>6. /\ n.at = "answered" /\ n.status = status /\ n.route = q.route /\ n.id = q.id
      /\ n.base = q.base /\ n.read = q.read /\ n.key = q.key /\ n.ran = q.ran
  BY <1>1 DEF Request
<1> HIDE DEF n
<1>7. Loaded(n, given)
  BY <1>1, <1>2, <1>6 DEF Loaded
<1>8. Truthful(n, upstream'.run)
  BY <1>1, <1>2, <1>3, <1>6 DEF Truthful
<1> QED BY <1>1, <1>2, <1>4, <1>5, <1>7, <1>8, OneRequest

\* The service starts on an action.
LEMMA RunKeeps ==
  ASSUME ProxyInv, NEW p \in Proxies, Run(p)
  PROVE  ProxyInv'
<1> DEFINE q == fb[p]
           n == [q EXCEPT !.at = "running", !.ran = TRUE]
           runs == [upstream.run EXCEPT ![q.id] = "running"]
<1>1. q \in Request /\ Loaded(q, given) /\ Truthful(q, upstream.run) /\ upstream \in Service
  BY DEF ProxyInv
<1>2. /\ UNCHANGED <<adminVars, given>> /\ q.at = "sent" /\ q.route = "action"
      /\ upstream.run[q.id] = "new" /\ fb' = [fb EXCEPT ![p] = n]
      /\ upstream' = [upstream EXCEPT !.run = runs]
  BY DEF Run
<1> HIDE DEF q
<1>3. n \in Request
  BY <1>1, StagesIn, Zenon DEF Request
<1>4. /\ n.at = "running" /\ n.ran = TRUE /\ n.route = q.route /\ n.id = q.id
      /\ n.base = q.base /\ n.read = q.read /\ n.key = q.key
  BY <1>1 DEF Request
<1> HIDE DEF n
<1>5. /\ runs \in [Ids -> {"new", "running", "done"}]
      /\ \A id \in Ids : upstream.run[id] = "done" => runs[id] = "done"
  BY <1>1, <1>2 DEF Service
<1> HIDE DEF runs
<1>6. upstream' \in Service /\ upstream'.run = runs
  BY <1>1, <1>2, <1>5 DEF Service
<1>7. Loaded(n, given)
  BY <1>1, <1>2, <1>4 DEF Loaded
<1>8. Truthful(n, upstream'.run)
  BY <1>1, <1>2, <1>4 DEF Truthful
<1> QED BY <1>2, <1>3, <1>5, <1>6, <1>7, <1>8, OneRequest

\* The hub is done with a request: it gave up, or it tells the client what it was told.
LEMMA DoneKeeps ==
  ASSUME ProxyInv, NEW p \in Proxies, Timeout(p) \/ Answer(p) \/ Probed(p)
  PROVE  ProxyInv'
<1> DEFINE q == fb[p]
<1>1. q \in Request /\ Loaded(q, given) /\ Truthful(q, upstream.run) /\ upstream \in Service
  BY DEF ProxyInv
<1>2. UNCHANGED <<adminVars, given>> /\ upstream' = upstream
  BY DEF Timeout, Answer, Probed
<1>3. PICK code \in Codes :
        /\ fb' = [fb EXCEPT ![p] = [q EXCEPT !.at = "done", !.code = code]]
        /\ q.route = "action" /\ code = "ok" => upstream.run[q.id] = "done"
        /\ q.ran => code \in {"ok", "unavailable"}
  <2>1. CASE Timeout(p)
    <3>1. fb' = [fb EXCEPT ![p] = [q EXCEPT !.at = "done", !.code = "unavailable"]]
      BY <2>1 DEF Timeout
    <3>2. "unavailable" \in Codes /\ "unavailable" # "ok" /\ "unavailable" \in {"ok", "unavailable"}
      BY DEF Codes
    <3> QED BY <3>1, <3>2, Zenon
  <2>2. CASE Answer(p)
    <3>1. PICK code \in Verdicts(q.route, q.status) :
            fb' = [fb EXCEPT ![p] = [q EXCEPT !.at = "done", !.code = code]]
      BY <2>2 DEF Answer
    <3>2. code \in Codes
      BY DEF Verdicts, AttachmentVerdicts, Codes
    <3>3. q.at = "answered"
      BY <2>2 DEF Answer
    <3>4. q.route = "action" /\ code = "ok" => upstream.run[q.id] = "done"
      <4>1. q.route = "action" /\ code = "ok" => q.status = 200
        BY DEF Verdicts
      <4> QED BY <1>1, <3>3, <4>1 DEF Truthful
    <3>5. q.ran => code \in {"ok", "unavailable"}
      <4>1. q.ran => q.route = "action" /\ q.status \in {200, 500}
        BY <1>1, <3>3 DEF Truthful
      <4> QED BY <4>1 DEF Verdicts
    <3> QED BY <3>1, <3>2, <3>4, <3>5, Zenon
  <2>3. CASE Probed(p)
    <3>1. PICK code \in {"unavailable", "not_found", "unsupported"} :
            fb' = [fb EXCEPT ![p] = [q EXCEPT !.at = "done", !.code = code]]
      BY <2>3 DEF Probed
    <3>2. ~q.ran
      BY <1>1, <2>3 DEF Probed, Truthful
    <3>3. code \in Codes /\ code # "ok"
      BY DEF Codes
    <3> QED BY <3>1, <3>2, <3>3, Zenon
  <2> QED BY <2>1, <2>2, <2>3
<1> DEFINE n == [q EXCEPT !.at = "done", !.code = code]
<1>4. fb' = [fb EXCEPT ![p] = n]
  BY <1>3
<1> HIDE DEF q
<1>5. n \in Request
  BY <1>1, StagesIn, Zenon DEF Request
<1>6. n.at = "done" /\ n.code = code /\ n.route = q.route /\ n.id = q.id /\ n.ran = q.ran
  BY <1>1 DEF Request
<1> HIDE DEF n
<1>7. Loaded(n, given)
  BY <1>6 DEF Loaded
<1>8. Truthful(n, upstream'.run)
  BY <1>1, <1>2, <1>3, <1>6 DEF Truthful
<1> QED BY <1>1, <1>2, <1>4, <1>5, <1>7, <1>8, OneRequest

\* The probe goes out with the row that was loaded for the action.
LEMMA ProbeKeeps ==
  ASSUME ProxyInv, NEW p \in Proxies, Probe(p)
  PROVE  ProxyInv'
<1> DEFINE q == fb[p]
           n == [q EXCEPT !.at = "probing", !.read = q.read, !.key = q.read]
<1>1. q \in Request /\ Loaded(q, given) /\ Truthful(q, upstream.run) /\ upstream \in Service
  BY DEF ProxyInv
<1>2. /\ UNCHANGED <<adminVars, given>> /\ upstream' = upstream
      /\ q.at = "answered" /\ q.status = 404 /\ fb' = [fb EXCEPT ![p] = n]
  BY DEF Probe, ProbeKey
<1> HIDE DEF q
<1>3. n \in Request
  <2>1. q.read \in Gens
    BY <1>1 DEF Request
  <2> QED BY <1>1, <2>1, StagesIn, Zenon DEF Request
<1>4. /\ n.at = "probing" /\ n.route = q.route /\ n.id = q.id /\ n.ran = q.ran
      /\ n.base = q.base /\ n.read = q.read /\ n.key = q.read
  BY <1>1 DEF Request
<1> HIDE DEF n
<1>5. Loaded(n, given)
  BY <1>1, <1>2, <1>4 DEF Loaded
<1>6. Truthful(n, upstream'.run)
  BY <1>1, <1>2, <1>4 DEF Truthful
<1> QED BY <1>1, <1>2, <1>3, <1>5, <1>6, OneRequest

LEMMA FinishKeeps ==
  ASSUME ProxyInv, NEW p \in Proxies, Finish(p)
  PROVE  ProxyInv'
<1>1. /\ UNCHANGED <<adminVars, given>> /\ upstream' = upstream /\ upstream \in Service
      /\ fb' = [fb EXCEPT ![p] = Free]
  BY DEF Finish, ProxyInv
<1> QED BY <1>1, FreeRequest, OneRequest

\* The service changes on its own; an action that is done stays done.
LEMMA ServiceKeeps ==
  ASSUME ProxyInv, Operate \/ \E id \in Ids : Complete(id)
  PROVE  ProxyInv'
<1>1. UNCHANGED <<adminVars, fb, given>>
  BY DEF Operate, Complete
<1>2. upstream \in Service /\ row.key \in Gens /\ row.mgmt \in Gens
  BY DEF ProxyInv, LogInv, RowTypeOK, SourceRow
<1>3. /\ upstream' \in Service
      /\ \A id \in Ids : upstream.run[id] = "done" => upstream'.run[id] = "done"
  <2>1. CASE Operate
    BY <1>2, <2>1 DEF Operate, Service
  <2>2. ASSUME NEW id \in Ids, Complete(id)
        PROVE  /\ upstream' \in Service
               /\ \A i \in Ids : upstream.run[i] = "done" => upstream'.run[i] = "done"
    <3> DEFINE runs == [upstream.run EXCEPT ![id] = "done"]
    <3>1. upstream' = [upstream EXCEPT !.run = runs]
      BY <2>2 DEF Complete
    <3>2. /\ runs \in [Ids -> {"new", "running", "done"}]
          /\ \A i \in Ids : upstream.run[i] = "done" => runs[i] = "done"
      BY <1>2 DEF Service
    <3> HIDE DEF runs
    <3> QED BY <1>2, <3>1, <3>2 DEF Service
  <2> QED BY <2>1, <2>2
<1>4. LogInv'
  BY <1>1, LogKept DEF ProxyInv, adminVars
<1>5. UNCHANGED <<row, given>>
  BY <1>1 DEF adminVars, source
<1>6. \A p \in Proxies : Loaded(fb[p], given)' /\ Truthful(fb[p], upstream.run)'
  BY <1>1, <1>3 DEF ProxyInv, Loaded, Truthful
<1> QED BY <1>1, <1>3, <1>4, <1>5, <1>6 DEF ProxyInv, Live, Holds

\* Requests under way keep what they loaded, whatever the administrator does.
LEMMA AdminLeavesRequests ==
  ASSUME ProxyInv, AdminNext, given' = given \union {Holds(row')}, UNCHANGED <<fb, upstream>>
  PROVE  ProxyInv'
<1>1. LogInv'
  BY AdminTells DEF ProxyInv
<1>2. \A p \in Proxies : Loaded(fb[p], given)' /\ Truthful(fb[p], upstream.run)'
  BY DEF ProxyInv, Loaded, Truthful
<1>3. Holds(row)' \in given'
  BY DEF Holds
<1> QED BY <1>1, <1>2, <1>3 DEF ProxyInv

LEMMA ProxyStep == ProxyInv /\ [Next]_vars => ProxyInv'
<1> SUFFICES ASSUME ProxyInv, [Next]_vars PROVE ProxyInv'
  OBVIOUS
<1>1. ASSUME NEW p \in Proxies,
             \/ Begin(p) \/ Respond(p) \/ Run(p) \/ Reply(p) \/ Timeout(p)
             \/ Answer(p) \/ Probe(p) \/ Probed(p) \/ Finish(p)
      PROVE  ProxyInv'
  BY <1>1, BeginKeeps, AnsweredKeeps, RunKeeps, DoneKeeps, ProbeKeeps, FinishKeeps
<1>2. CASE AdminNext /\ given' = given \union {Holds(row')} /\ UNCHANGED <<fb, upstream, proxied>>
  BY <1>2, AdminLeavesRequests
<1>3. CASE UNCHANGED vars
  <2>1. UNCHANGED <<adminVars, fb, upstream, given>>
    BY <1>3 DEF vars, proxyVars
  <2>2. LogInv'
    BY <2>1, LogKept DEF ProxyInv, adminVars
  <2> QED BY <2>1, <2>2 DEF ProxyInv, Loaded, Truthful, Live, Holds, adminVars, source
<1> QED BY <1>1, <1>2, <1>3, ServiceKeeps DEF Next

\* A key goes only to the address it was stored with, for any number of proxied requests
\* and administrators' changes between a request and its probe (fbDo, fbActionProbe).
THEOREM KeysStayHome == Spec => []KeyMatchesAddress
<1>1. ProxyInv => KeyMatchesAddress
  BY DEF ProxyInv, Loaded, KeyMatchesAddress
<1> QED BY <1>1, ProxyInit, ProxyStep, PTL DEF Spec

\* What a client is told of an action is true, however late the service answers and
\* however often the action is sent (handleFeedbackAction, fbWriteUpstreamErr).
THEOREM ActionsToldTrue == Spec => []ToldTheTruth
<1>1. ProxyInv => ToldTheTruth
  BY DEF ProxyInv, Truthful, ToldTheTruth
<1> QED BY <1>1, ProxyInit, ProxyStep, PTL DEF Spec

\* Every reachable state of the proxy and of the source under it is well typed.
THEOREM ProxyTypeCorrect == Spec => []TypeOK
<1> DEFINE Inv == DocInv /\ ProxyInv /\ proxied \in 0 .. MaxProxy
<1>1. Init => Inv
  <2>1. Init => DocInv /\ proxied \in 0 .. MaxProxy
    BY DocInit, ProxyBoundOK DEF Init
  <2> QED BY <2>1, ProxyInit
<1>2. Inv /\ [Next]_vars => Inv'
  <2> SUFFICES ASSUME Inv, [Next]_vars PROVE proxied' \in 0 .. MaxProxy
    BY DocStep, ProxyStep
  <2>1. proxied' = proxied \/ (proxied < MaxProxy /\ proxied' = proxied + 1)
    BY DEF Next, vars, proxyVars, Begin, Respond, Run, Reply, Timeout, Answer, Probe, Probed,
           Finish, Complete, Operate
  <2> QED BY <2>1, ProxyBoundOK
<1>3. Inv => TypeOK
  <2> SUFFICES ASSUME Inv PROVE TypeOK
    OBVIOUS
  <2>1. AdminTypeOK
    BY DEF AdminTypeOK, DocInv, DocTypeOK, ProxyInv, LogInv, RowTypeOK, SourceRow
  <2>2. fb \in [Proxies -> Request] /\ upstream \in Service
    BY DEF ProxyInv
  <2> QED BY <2>1, <2>2 DEF TypeOK, Request, Service, Stages, Names, Statuses
<1> HIDE DEF Inv
<1> QED BY <1>1, <1>2, <1>3, PTL DEF Spec
=============================================================================
