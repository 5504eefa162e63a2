------------------------------ MODULE Sessions ------------------------------
(* Sessions: the hub's rows, and the two parts of the app that share one    *)
(* credential.  Dart and the native service each keep a copy of the pair    *)
(* (access token, refresh token) and each exchanges it at the hub when a    *)
(* call is refused; a refresh token is good for one exchange, so the copies *)
(* are kept together by configure calls one way and session events the      *)
(* other.                                                                   *)
EXTENDS Integers, Sequences, SequencesExt, FiniteSets

CONSTANTS
  Labels,      \* whether a login names the device: a subset of BOOLEAN
  MaxHits,     \* login attempts admitted in a window
  Window,      \* ticks of the limiter's window
  MaxAttempt,  \* bound: login attempts, until the first session
  MaxClock,    \* bound: ticks, until the first session
  MaxLogin,    \* bound: sessions
  MaxPair,     \* bound: pairs
  MaxExpire,   \* bound: tokens that grow old
  MaxFault     \* bound: ends of the app, lost messages, changes of the settings

ASSUME SessionsAssumption ==
  /\ Labels \subseteq BOOLEAN
  /\ MaxHits \in Nat \ {0}
  /\ Window \in Nat \ {0}

VARIABLES
  rows,      \* sessions: current pair, device label given, revoked, age
  minted,    \* pairs issued so far; pair 0 is "no credential"
  hits,      \* the limiter's recorded attempts: number and time
  admitted,  \* history: all attempts the limiter let pass
  tried,     \* login attempts so far
  clock,
  dart,      \* pair of the Dart side (api client and session state)
  saved,     \* pair in the token store
  alive,     \* the Dart side runs
  cold,      \* a cold start has not configured the native side yet
  native,    \* pair in the native configuration
  running,   \* the native service runs
  req,       \* each client's call or refresh
  pull,      \* configure calls that still fetch the settings; TRUE: then start
  sent,      \* configure calls on their way to the native side
  events,    \* session events on their way to Dart
  signedIn,  \* history: the user has logged in and not logged out since
  causes,    \* history: what happened that can cost the user the session
  spent      \* counters for the bounds

hub == <<rows, minted>>
limiter == <<hits, admitted, tried, clock>>
app == <<dart, saved, alive, cold>>
bridge == <<pull, sent, events>>
vars == <<hub, limiter, app, native, running, req, bridge, signedIn, causes, spent>>

Clients == {"dart", "native"}
Held(x) == IF x = "dart" THEN dart ELSE native
Quiet == [at |-> "idle", pair |-> 0, row |-> 0]
Pairs == 0 .. minted
Ages == {"fresh", "old", "dead"}
Bounds == {"expire", "fault"}

\* Type invariant: the rows, the two copies of the pair and the calls under way.
TypeOK ==
  /\ rows \in Seq([pair : 1 .. minted, labelled : BOOLEAN, revoked : BOOLEAN, age : Ages])
  /\ minted \in Nat
  /\ dart \in Pairs /\ saved \in Pairs /\ native \in Pairs
  /\ {alive, cold, running, signedIn} \subseteq BOOLEAN
  /\ req \in [Clients -> [at : {"idle", "calling", "denied", "asked", "read", "granted",
                                "refused", "expired"},
                          pair : Pairs, row : Nat]]
  /\ pull \subseteq BOOLEAN
  /\ sent \subseteq [pair : Pairs, start : BOOLEAN]
  /\ events \in Seq(Pairs)
  /\ causes \subseteq {"overlap", "lost", "killed", "offline", "left"}

Init ==
  /\ rows = <<>> /\ minted = 0
  /\ hits = {} /\ admitted = {} /\ tried = 0 /\ clock = 0
  /\ dart = 0 /\ saved = 0 /\ alive = TRUE /\ cold = FALSE
  /\ native = 0 /\ running = FALSE
  /\ req = [x \in Clients |-> Quiet]
  /\ pull = {} /\ sent = {} /\ events = <<>>
  /\ signedIn = FALSE /\ causes = {}
  /\ spent = [b \in Bounds |-> 0]

\* No refresh is under way, and no pair is on its way from one side to the other.
Refreshing(x) == req[x].at \in {"asked", "read", "granted", "refused", "expired"}
Settled == sent = {} /\ events = <<>> /\ \A x \in Clients : ~Refreshing(x)

Spend(b, max) == spent[b] < max /\ spent' = [spent EXCEPT ![b] = @ + 1]
Blame(c) == causes' = causes \union c

-----------------------------------------------------------------------------
\* clientSession: the row whose access token was sent.
RowOf(p) == {i \in DOMAIN rows : rows[i].pair = p}
Accepted(p) == {i \in RowOf(p) : ~rows[i].revoked /\ rows[i].age = "fresh"}

\* handleRefresh, the SELECT.  A row without a device label cannot be scanned.
Refreshable(p) ==
  {i \in RowOf(p) : rows[i].labelled /\ ~rows[i].revoked /\ rows[i].age # "dead"}

\* Mutant: the UPDATE does not ask again whether the session was revoked.
RotatableAny(i) == i \in DOMAIN rows

\* handleRefresh, the UPDATE: the session may have been revoked since.
Rotatable(i) == ~rows[i].revoked

Tick ==
  /\ rows = <<>>
  /\ clock < MaxClock
  /\ clock' = clock + 1
  /\ UNCHANGED <<hub, hits, admitted, tried, app, native, running, req, bridge,
                 signedIn, causes, spent>>

\* Mutant: attempts leave the window one tick too early.
KeptEarly == {h \in hits : h.at > clock - Window + 1}

\* loginLimiter.allow: attempts that are still inside the window count.
Kept == {h \in hits : h.at > clock - Window}

\* handleLogin: the limiter first, then the password, then issueSession; the
\* app stores the pair and configures and starts the native service.  Bound:
\* the limiter's clock moves only in behaviours without a session.
Login ==
  /\ alive /\ dart = 0 /\ req["dart"].at = "idle"
  /\ tried < IF rows = <<>> THEN MaxAttempt ELSE MaxLogin
  /\ tried' = tried + 1
  /\ IF Cardinality(Kept) >= MaxHits
     THEN /\ hits' = Kept
          /\ UNCHANGED <<hub, admitted, dart, saved, pull, signedIn>>
     ELSE /\ hits' = Kept \union {[no |-> tried', at |-> clock]}
          /\ admitted' = admitted \union {[no |-> tried', at |-> clock]}
          /\ \/ UNCHANGED <<hub, dart, saved, pull, signedIn>>
             \/ /\ tried < MaxLogin /\ clock = 0
                /\ \E label \in Labels :
                     rows' = Append(rows, [pair |-> minted + 1, labelled |-> label,
                                           revoked |-> FALSE, age |-> "fresh"])
                /\ minted' = minted + 1
                /\ dart' = minted' /\ saved' = minted'
                /\ pull' = pull \union {TRUE}
                /\ signedIn' = TRUE
  /\ UNCHANGED <<clock, alive, cold, native, running, req, sent, events, causes, spent>>

\* A token grows old; a day passes only when nothing is under way.
Expire(i) ==
  /\ req = [x \in Clients |-> Quiet]
  /\ pull = {} /\ sent = {} /\ events = <<>> /\ ~cold
  /\ rows[i].age # "dead"
  /\ Spend("expire", MaxExpire)
  /\ rows' = [rows EXCEPT ![i].age = IF @ = "fresh" THEN "old" ELSE "dead"]
  /\ UNCHANGED <<minted, limiter, app, native, running, req, bridge, signedIn, causes>>

-----------------------------------------------------------------------------
\* Any authenticated call; on the native side, opening the event stream.
Call(x) ==
  /\ req[x].at = "idle"
  /\ Held(x) # 0
  /\ IF x = "dart" THEN alive ELSE running
  /\ req' = [req EXCEPT ![x] = [Quiet EXCEPT !.at = "calling", !.pair = Held(x)]]
  /\ UNCHANGED <<hub, limiter, app, native, running, bridge, signedIn, causes, spent>>

\* requireClient: the call is served, or answered 401.
Serve(x) ==
  /\ req[x].at = "calling"
  /\ req' = [req EXCEPT ![x] =
       IF Accepted(req[x].pair) # {} THEN Quiet ELSE [Quiet EXCEPT !.at = "denied"]]
  /\ UNCHANGED <<hub, limiter, app, native, running, bridge, signedIn, causes, spent>>

\* _tryRefresh and refreshAuth take the pair the client holds by now.
Refresh(x) ==
  /\ req[x].at = "denied"
  /\ minted < MaxPair
  /\ IF Held(x) = 0
     THEN /\ req' = [req EXCEPT ![x] = Quiet]
          /\ UNCHANGED causes
     ELSE /\ req' = [req EXCEPT ![x] = [Quiet EXCEPT !.at = "asked", !.pair = Held(x)]]
          /\ Blame(IF Settled THEN {} ELSE {"overlap"})
  /\ UNCHANGED <<hub, limiter, app, native, running, bridge, signedIn, spent>>

Lookup(x) ==
  /\ req[x].at = "asked"
  /\ \/ \E i \in Refreshable(req[x].pair) :
          req' = [req EXCEPT ![x].at = "read", ![x].row = i]
     \/ /\ Refreshable(req[x].pair) = {}
        /\ req' = [req EXCEPT ![x].at = "refused"]
  /\ UNCHANGED <<hub, limiter, app, native, running, bridge, signedIn, causes, spent>>

Rotate(x) ==
  LET i == req[x].row IN
  /\ req[x].at = "read"
  /\ \/ /\ Rotatable(i)
        /\ minted' = minted + 1
        /\ rows' = [rows EXCEPT ![i] = [@ EXCEPT !.pair = minted', !.age = "fresh"]]
        /\ req' = [req EXCEPT ![x].at = "granted", ![x].pair = minted']
     \/ /\ ~Rotatable(i)
        /\ req' = [req EXCEPT ![x].at = "refused"]
        /\ UNCHANGED hub
  /\ UNCHANGED <<limiter, app, native, running, bridge, signedIn, causes, spent>>

-----------------------------------------------------------------------------
\* onSessionRefreshed: keep, save and hand the new pair to the native side.
DartRefreshed ==
  /\ req["dart"].at = "granted"
  /\ req' = [req EXCEPT !["dart"] = Quiet]
  /\ IF dart = 0
     THEN UNCHANGED <<dart, saved, pull>>
     ELSE /\ dart' = req["dart"].pair
          /\ saved' = req["dart"].pair
          /\ pull' = pull \union {FALSE}
  /\ UNCHANGED <<hub, limiter, alive, cold, native, running, sent, events, signedIn, causes, spent>>

\* refreshAuth: keep the new pair and tell Dart, when there is someone to tell.
NativeRefreshed ==
  /\ req["native"].at = "granted"
  /\ req' = [req EXCEPT !["native"] = Quiet]
  /\ native' = req["native"].pair
  /\ events' = IF alive THEN Append(events, native') ELSE events
  /\ UNCHANGED <<hub, limiter, app, running, pull, sent, signedIn, causes, spent>>

\* The native side waits for a configure call and tries again.
NativeRefused ==
  /\ req["native"].at = "refused"
  /\ req' = [req EXCEPT !["native"] = Quiet]
  /\ UNCHANGED <<hub, limiter, app, native, running, bridge, signedIn, causes, spent>>

DartRefused ==
  /\ req["dart"].at = "refused"
  /\ req' = [req EXCEPT !["dart"] = [Quiet EXCEPT !.at = "expired", !.pair = dart]]
  /\ UNCHANGED <<hub, limiter, app, native, running, bridge, signedIn, causes, spent>>

\* onNativeSession
Adopt(p) ==
  IF dart # 0 /\ p # 0 THEN dart' = p /\ saved' = p ELSE UNCHANGED <<dart, saved>>

ClearLocal ==
  /\ dart' = 0
  /\ saved' = 0
  /\ running' = FALSE

\* Mutant: the native side is not asked.
DiffersNever(s) == FALSE

\* handleExpired: the native side may have a newer pair; otherwise log out.
Differs(s) == s # 0 /\ native # 0 /\ native # s

HandleExpired ==
  /\ req["dart"].at = "expired"
  /\ req' = [req EXCEPT !["dart"] = Quiet]
  /\ IF Differs(req["dart"].pair)
     THEN Adopt(native) /\ UNCHANGED running
     ELSE ClearLocal
  /\ UNCHANGED <<hub, limiter, alive, cold, native, bridge, signedIn, causes, spent>>

\* A refresh or its answer is lost: to Dart the same as a refusal, to the
\* native side a reason to try again.
Lose(x) ==
  /\ req[x].at \in {"asked", "granted"}
  /\ Spend("fault", MaxFault)
  /\ req' = [req EXCEPT ![x] =
       IF x = "dart" THEN [Quiet EXCEPT !.at = "expired", !.pair = dart] ELSE Quiet]
  /\ Blame({"lost"})
  /\ UNCHANGED <<hub, limiter, app, native, running, bridge, signedIn>>

-----------------------------------------------------------------------------
\* _pushConfigToNative: the settings are fetched, then the pair is read.
PushRead(start) ==
  /\ start \in pull
  /\ alive
  /\ pull' = pull \ {start}
  /\ IF dart # 0
     THEN sent' = sent \union {[pair |-> dart, start |-> start]} /\ UNCHANGED running
     ELSE running' = (running \/ start) /\ UNCHANGED sent
  /\ UNCHANGED <<hub, limiter, app, native, req, events, signedIn, causes, spent>>

\* pushNativeConfig, when the hub has taken a change of the settings.
PushSettings ==
  /\ alive /\ dart # 0
  /\ Accepted(dart) # {}
  /\ Spend("fault", MaxFault)
  /\ sent' = sent \union {[pair |-> dart, start |-> FALSE]}
  /\ UNCHANGED <<hub, limiter, app, native, running, req, pull, events, signedIn, causes>>

Configure(m) ==
  /\ m \in sent
  /\ sent' = sent \ {m}
  /\ native' = m.pair
  /\ running' = (running \/ m.start)
  /\ UNCHANGED <<hub, limiter, app, req, pull, events, signedIn, causes, spent>>

SessionEvent ==
  /\ alive
  /\ events # <<>>
  /\ Adopt(Head(events))
  /\ events' = Tail(events)
  /\ UNCHANGED <<hub, limiter, alive, cold, native, running, req, pull, sent, signedIn, causes, spent>>

-----------------------------------------------------------------------------
\* The Flutter side ends; the native service stays.
Kill ==
  /\ alive
  /\ Spend("fault", MaxFault)
  /\ alive' = FALSE /\ cold' = FALSE /\ dart' = 0
  /\ req' = [req EXCEPT !["dart"] = Quiet]
  /\ pull' = {} /\ events' = <<>>
  /\ Blame(IF Settled THEN {} ELSE {"killed"})
  /\ UNCHANGED <<hub, limiter, saved, native, running, sent, signedIn>>

\* reconcileColdStart: the restored pair is tried by a call before it is passed on.
ColdStart ==
  /\ ~alive
  /\ alive' = TRUE
  /\ dart' = saved
  /\ cold' = (saved # 0)
  /\ req' = IF saved = 0 THEN req
            ELSE [req EXCEPT !["dart"] = [Quiet EXCEPT !.at = "calling", !.pair = saved]]
  /\ UNCHANGED <<hub, limiter, saved, native, running, bridge, signedIn, causes, spent>>

AfterAuth ==
  /\ cold
  /\ req["dart"].at = "idle"
  /\ cold' = FALSE
  /\ pull' = IF dart = 0 THEN pull ELSE pull \union {TRUE}
  /\ UNCHANGED <<hub, limiter, dart, saved, alive, native, running, req, sent, events,
                 signedIn, causes, spent>>

\* The hub cannot be reached: the restored pair is passed on untried.
OfflineStart ==
  /\ cold
  /\ req["dart"].at = "calling"
  /\ req' = [req EXCEPT !["dart"] = Quiet]
  /\ Blame({"offline"})
  /\ UNCHANGED <<hub, limiter, app, native, running, bridge, signedIn, spent>>

\* handleLogout revokes the session of the access token; the app forgets its
\* pair whether or not the call arrives, and leaves the native copy alone.
Logout ==
  /\ alive /\ dart # 0
  /\ signedIn' = FALSE
  /\ ClearLocal
  /\ \/ rows' = [i \in DOMAIN rows |->
                   [rows[i] EXCEPT !.revoked = @ \/ i \in Accepted(dart)]]
     \/ UNCHANGED rows
  /\ Blame(IF \E i \in DOMAIN rows : ~rows'[i].revoked THEN {"left"} ELSE {})
  /\ UNCHANGED <<minted, limiter, alive, cold, native, req, bridge, spent>>

Next ==
  \/ Tick \/ Login \/ Logout
  \/ \E i \in DOMAIN rows : Expire(i)
  \/ \E x \in Clients : Call(x) \/ Serve(x) \/ Refresh(x) \/ Lookup(x) \/ Rotate(x) \/ Lose(x)
  \/ DartRefreshed \/ DartRefused \/ HandleExpired
  \/ NativeRefreshed \/ NativeRefused
  \/ \E start \in BOOLEAN : PushRead(start)
  \/ \E m \in sent : Configure(m)
  \/ PushSettings \/ SessionEvent
  \/ Kill \/ ColdStart \/ AfterAuth \/ OfflineStart

Spec == Init /\ [][Next]_vars

-----------------------------------------------------------------------------
\* A logout is final: a refresh that looked the session up before the logout
\* does not give it a new pair after it (handleRefresh against handleLogout).
RevokedNeverGranted ==
  [][\A i \in DOMAIN rows : rows[i].revoked => rows'[i].revoked /\ rows'[i].pair = rows[i].pair]_vars

\* While the user's session is good at the hub, the app still has the pair that
\* opens it, unless two refreshes overlapped, one was lost or cut off, or a
\* cold start could not reach the hub: copies that are exchanged by events and
\* configure calls in any order, and restarts, never lose it.
Usable(i) == ~rows[i].revoked /\ rows[i].age # "dead" /\ rows[i].labelled
Keeps(p) ==
  \/ p \in {dart, saved} \union {m.pair : m \in sent} \union Range(events)
  \/ \E x \in Clients : req[x].at = "granted" /\ req[x].pair = p
  \/ native = p /\ saved # 0
SignedOutForCause ==
  signedIn /\ Usable(Len(rows)) /\ causes = {} => Keeps(rows[Len(rows)].pair)

\* The admitted attempts of the window that ends at t.
InWindow(t) == {a \in admitted : a.at > t - Window /\ a.at <= t}

\* However attempts and rejections follow each other, no window of time holds
\* more admitted login attempts than the limit (loginLimiter.allow).
AttemptsBounded == \A t \in 0 .. MaxClock : Cardinality(InWindow(t)) <= MaxHits

\* A refresh token is refused only when it expired, was exchanged or revoked,
\* or was never issued.
RefusedForCause ==
  [][\A x \in Clients : req[x].at = "asked" /\ req'[x].at = "refused" =>
       \A i \in RowOf(req[x].pair) : rows[i].revoked \/ rows[i].age = "dead"]_vars
=============================================================================
