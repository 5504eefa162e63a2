---------------------------- MODULE FeedbackProxy ---------------------------
(* The feedback proxy, over the sources that SourceAdmin changes under it:  *)
(* a request loads the source's row once, and sends the row's key to the    *)
(* row's address; an action answered 404 is probed with a second request.   *)
(* The Feedback service is external: it checks the key, may not know the    *)
(* management routes or the item, runs an action once per request id, and   *)
(* may finish it after the hub has given up.                                *)
EXTENDS SourceAdmin

CONSTANTS
  Proxies,   \* proxy handlers that may run at the same time
  Ids,       \* request ids of actions
  MaxProxy   \* bound: proxied requests

ASSUME ProxyBoundOK == MaxProxy \in Nat

VARIABLES
  fb,        \* each proxied request
  upstream,  \* the service: the keys it accepts, its routes, the item
  proxied,   \* requests so far
  given      \* history: rows committed so far, as the keys and address they hold

proxyVars == <<fb, upstream, proxied, given>>
vars == <<adminVars, proxyVars>>

Routes == {"list", "detail", "action", "attachment"}
Managed(route) == route \in {"list", "action"}
Codes == {"none", "ok", "not_found", "not_configured", "unsupported", "refused", "limited",
          "unavailable"}

None == "none"
Free == [at |-> "idle", route |-> "list", id |-> None, key |-> 0, base |-> 0, read |-> 0,
         ran |-> FALSE, status |-> 0, code |-> None]
Holds(r) == [key |-> r.key, mgmt |-> r.mgmt, base |-> r.base]

\* Type invariant: the proxied requests and the service.
TypeOK ==
  /\ AdminTypeOK
  /\ fb \in [Proxies -> [at : {"idle", "sent", "running", "answered", "probing", "done"},
                         route : Routes, id : Ids \union {None}, key : Gens, base : Gens, read : Gens, ran : BOOLEAN,
                         status : {0, 200, 401, 404, 409, 429, 500}, code : Codes]]
  /\ upstream \in [read : Gens, mgmt : Gens, manages : BOOLEAN, item : BOOLEAN,
                   run : [Ids -> {"new", "running", "done"}]]
  /\ proxied \in 0 .. MaxProxy

Init ==
  /\ AdminInit
  /\ fb = [p \in Proxies |-> Free]
  /\ upstream \in [read : {0}, mgmt : {0}, manages : BOOLEAN, item : {TRUE},
                   run : [Ids -> {"new"}]]
  /\ proxied = 0
  /\ given = {}

-----------------------------------------------------------------------------
\* fbPrecond, fbPrecondMgmt: the code a request is refused with before it is sent.
Precond(route) ==
  IF ~Live \/ row.kind # "feedback" THEN "not_found"
  ELSE IF row.base = 0 \/ (Managed(route) /\ row.mgmt = 0) THEN "not_configured"
  ELSE "none"

\* Every handler begins here and keeps what it loaded.
Begin(p) ==
  /\ fb[p].at = "idle"
  /\ proxied < MaxProxy
  /\ proxied' = proxied + 1
  /\ \E route \in Routes : \E id \in IF route = "action" THEN Ids ELSE {None} :
       fb' = [fb EXCEPT ![p] =
         IF Precond(route) # None
         THEN [Free EXCEPT !.at = "done", !.route = route, !.id = id, !.code = Precond(route)]
         ELSE [Free EXCEPT !.at = "sent", !.route = route, !.id = id, !.base = row.base,
                           !.read = row.key,
                           !.key = IF Managed(route) THEN row.mgmt ELSE row.key]]
  /\ UNCHANGED <<adminVars, upstream, given>>

\* The service's answers, in the order of its checks; a known id is not run again.
Answers(p) ==
  IF Managed(fb[p].route) /\ ~upstream.manages THEN {404}
  ELSE IF fb[p].key # (IF Managed(fb[p].route) THEN upstream.mgmt ELSE upstream.read) THEN {401}
  ELSE IF fb[p].route # "list" /\ ~upstream.item THEN {404}
  ELSE IF fb[p].route # "action" THEN {200, 429, 500}
  ELSE IF upstream.run[fb[p].id] = "done" THEN {200, 429, 500}
  ELSE {409, 429, 500}

Respond(p) ==
  /\ fb[p].at = "sent"
  /\ \E status \in Answers(p) :
       fb' = [fb EXCEPT ![p] = [@ EXCEPT !.at = "answered", !.status = status]]
  /\ UNCHANGED <<adminVars, upstream, proxied, given>>

\* The service starts on an action, and finishes it whether or not the hub waits.
Run(p) ==
  /\ fb[p].at = "sent"
  /\ fb[p].route = "action"
  /\ 409 \in Answers(p)
  /\ upstream.run[fb[p].id] = "new"
  /\ upstream' = [upstream EXCEPT !.run = [@ EXCEPT ![fb[p].id] = "running"]]
  /\ fb' = [fb EXCEPT ![p] = [@ EXCEPT !.at = "running", !.ran = TRUE]]
  /\ UNCHANGED <<adminVars, proxied, given>>

Complete(id) ==
  /\ upstream.run[id] = "running"
  /\ upstream' = [upstream EXCEPT !.run = [@ EXCEPT ![id] = "done"]]
  /\ UNCHANGED <<adminVars, fb, proxied, given>>

Reply(p) ==
  /\ fb[p].at = "running"
  /\ \E status \in {500} \union (IF upstream.run[fb[p].id] = "done" THEN {200} ELSE {}) :
       fb' = [fb EXCEPT ![p] = [@ EXCEPT !.at = "answered", !.status = status]]
  /\ UNCHANGED <<adminVars, upstream, proxied, given>>

\* fbDo gives up: the timeout passes or the connection breaks.
Timeout(p) ==
  /\ fb[p].at \in {"sent", "running", "probing"}
  /\ fb' = [fb EXCEPT ![p] = [@ EXCEPT !.at = "done", !.code = "unavailable"]]
  /\ UNCHANGED <<adminVars, upstream, proxied, given>>

-----------------------------------------------------------------------------
\* handleFeedbackAttachment has a mapping of its own.
AttachmentVerdicts(status) ==
  CASE status = 200 -> {"ok", "unavailable"}
    [] status = 404 -> {"not_found"}
    [] OTHER        -> {"unavailable"}

\* Mutant: a failure of the service is passed on as a refusal.
VerdictsTrusting(route, status) ==
  IF route = "attachment" THEN AttachmentVerdicts(status)
  ELSE CASE status = 200 -> {"ok"} \union (IF route = "action" THEN {} ELSE {"unavailable"})
         [] status = 404 -> IF route = "list" THEN {"unsupported"} ELSE {"not_found"}
         [] status = 429 -> {"limited"}
         [] status \in {409, 500} -> {"refused", "unavailable"}
         [] OTHER        -> {"unavailable"}

\* fbWriteUpstreamErr and the handlers' own 404: what the client may be told.
\* An action's 200 is passed on as it is, other bodies must be readable; of the
\* refusals only known codes are passed on.
Verdicts(route, status) ==
  IF route = "attachment" THEN AttachmentVerdicts(status)
  ELSE CASE status = 200 -> {"ok"} \union (IF route = "action" THEN {} ELSE {"unavailable"})
         [] status = 404 -> IF route = "list" THEN {"unsupported"} ELSE {"not_found"}
         [] status = 429 -> {"limited"}
         [] status = 409 -> {"refused", "unavailable"}
         [] OTHER        -> {"unavailable"}

Answer(p) ==
  /\ fb[p].at = "answered"
  /\ ~(fb[p].route = "action" /\ fb[p].status = 404)
  /\ \E code \in Verdicts(fb[p].route, fb[p].status) :
       fb' = [fb EXCEPT ![p] = [@ EXCEPT !.at = "done", !.code = code]]
  /\ UNCHANGED <<adminVars, upstream, proxied, given>>

\* Mutant: the probe takes the key the source has by now.
ProbeKeyNow(p) == row.key

\* fbActionProbe: the item itself is asked for, with the row that was loaded.
ProbeKey(p) == fb[p].read

Probe(p) ==
  /\ fb[p].at = "answered"
  /\ fb[p].route = "action" /\ fb[p].status = 404
  /\ fb' = [fb EXCEPT ![p] = [@ EXCEPT !.at = "probing", !.read = ProbeKey(p), !.key = ProbeKey(p)]]
  /\ UNCHANGED <<adminVars, upstream, proxied, given>>

\* An item that is there, at a service that does not manage, means the service is old.
Probed(p) ==
  /\ fb[p].at = "probing"
  /\ \E code \in IF fb[p].read # upstream.read THEN {"unavailable"}
                 ELSE IF ~upstream.item \/ upstream.manages THEN {"not_found", "unavailable"}
                 ELSE {"unsupported", "unavailable"} :
       fb' = [fb EXCEPT ![p] = [@ EXCEPT !.at = "done", !.code = code]]
  /\ UNCHANGED <<adminVars, upstream, proxied, given>>

Finish(p) ==
  /\ fb[p].at = "done"
  /\ fb' = [fb EXCEPT ![p] = Free]
  /\ UNCHANGED <<adminVars, upstream, proxied, given>>

\* The operator of the service gives it the keys the hub shows, or upgrades it;
\* the item is purged.
Operate ==
  /\ \/ upstream' = [upstream EXCEPT !.read = row.key, !.mgmt = row.mgmt]
     \/ upstream' = [upstream EXCEPT !.manages = TRUE]
     \/ upstream' = [upstream EXCEPT !.item = FALSE]
  /\ UNCHANGED <<adminVars, fb, proxied, given>>

Next ==
  \/ AdminNext /\ given' = given \union {Holds(row')} /\ UNCHANGED <<fb, upstream, proxied>>
  \/ \E p \in Proxies : \/ Begin(p) \/ Respond(p) \/ Run(p) \/ Reply(p) \/ Timeout(p)
                        \/ Answer(p) \/ Probe(p) \/ Probed(p) \/ Finish(p)
  \/ \E id \in Ids : Complete(id)
  \/ Operate

Spec == Init /\ [][Next]_vars

-----------------------------------------------------------------------------
\* A key is sent only to the address it was stored with: key and address of a
\* request, of the probe too, are those of one committed row, whatever the
\* administrator changes between the two requests (fbDo, fbActionProbe).
KeyMatchesAddress ==
  \A p \in Proxies : fb[p].at \in {"sent", "running", "probing"} =>
    \E r \in given : /\ fb[p].base = r.base
                     /\ fb[p].key = IF Managed(fb[p].route) /\ fb[p].at # "probing"
                                    THEN r.mgmt ELSE r.key

\* What the client is told of an action is true: "ok" means that the service
\* has run it, and of a request that made the service start on the action
\* nothing is said but "ok" or "unavailable", when the hub gave up too early.
ToldTheTruth ==
  \A p \in Proxies : fb[p].at = "done" /\ fb[p].route = "action" =>
    /\ fb[p].code = "ok" => upstream.run[fb[p].id] = "done"
    /\ fb[p].ran => fb[p].code \in {"ok", "unavailable"}
=============================================================================
