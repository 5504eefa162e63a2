---------------------------- MODULE SessionProofs ---------------------------
(***************************************************************************)
(* A logout is final, for any number of sessions, refreshes and failures,  *)
(* and the login limiter holds for any limit and window.  The user is      *)
(* signed out only for a cause, and a refresh is refused only for one.     *)
(***************************************************************************)
EXTENDS Sessions, FiniteSetTheorems, TLAPS

Row == [pair : Nat, labelled : BOOLEAN, revoked : BOOLEAN, age : Ages]

\* The hub's table holds sessions; nothing is assumed of the rest of the state.
RowsOK == rows \in Seq(Row) /\ minted \in Nat

\* What a step leaves of a session that was revoked.
Final == \A i \in DOMAIN rows :
           rows[i].revoked => rows'[i].revoked /\ rows'[i].pair = rows[i].pair

\* A session with another pair and another age is a session.
LEMMA SameRow ==
  ASSUME NEW r \in Row, NEW p \in Nat, NEW age \in Ages
  PROVE  [r EXCEPT !.pair = p, !.age = age] \in Row
<1> DEFINE s == [r EXCEPT !.pair = p]
<1>1. s \in Row
  BY DEF Row
<1>2. [s EXCEPT !.age = age] \in Row
  <2> HIDE DEF s
  <2>1. QED
    BY <1>1 DEF Row
<1>3. [r EXCEPT !.pair = p, !.age = age] = [s EXCEPT !.age = age]
  OBVIOUS
<1>4. QED
  BY <1>2, <1>3

\* A table of the same length whose rows are sessions is a table of sessions.
LEMMA SameTable ==
  ASSUME RowsOK, minted' \in Nat,
         rows' = [j \in DOMAIN rows |-> rows'[j]],
         \A j \in DOMAIN rows : rows'[j] \in Row
  PROVE  RowsOK'
<1>1. PICK n \in Nat : DOMAIN rows = 1 .. n
  BY DEF RowsOK
<1>2. QED
  BY <1>1 DEF RowsOK

\* handleLogin appends a row.
LEMMA LoginFinal == ASSUME RowsOK, Login PROVE RowsOK' /\ Final
<1>1. CASE UNCHANGED hub
  BY <1>1 DEF hub, RowsOK, Final
<1>2. ASSUME NEW label \in Labels,
             rows' = Append(rows, [pair |-> minted + 1, labelled |-> label,
                                   revoked |-> FALSE, age |-> "fresh"]),
             minted' = minted + 1
      PROVE  RowsOK' /\ Final
  <2>1. label \in BOOLEAN
    BY SessionsAssumption
  <2>2. [pair |-> minted + 1, labelled |-> label, revoked |-> FALSE, age |-> "fresh"] \in Row
    BY <2>1 DEF RowsOK, Row, Ages
  <2>3. RowsOK'
    BY <1>2, <2>2 DEF RowsOK
  <2>4. \A i \in DOMAIN rows : rows'[i] = rows[i]
    BY <1>2, <2>2 DEF RowsOK
  <2>5. QED
    BY <2>3, <2>4 DEF Final
<1>3. QED
  BY <1>1, <1>2 DEF Login

\* An expiry changes the age alone.
LEMMA ExpireFinal == ASSUME RowsOK, NEW i \in DOMAIN rows, Expire(i) PROVE RowsOK' /\ Final
<1>1. /\ rows' = [rows EXCEPT ![i].age = IF @ = "fresh" THEN "old" ELSE "dead"]
      /\ minted' = minted
  BY DEF Expire
<1>2. \A j \in DOMAIN rows : rows[j] \in Row
  BY DEF RowsOK
<1>3. RowsOK'
  <2>1. rows' = [j \in DOMAIN rows |-> rows'[j]]
    BY <1>1 DEF RowsOK
  <2>2. \A j \in DOMAIN rows : rows'[j] \in Row
    BY <1>1, <1>2 DEF Row, Ages
  <2>3. QED
    BY <1>1, <2>1, <2>2, SameTable DEF RowsOK
<1>4. Final
  BY <1>1, <1>2 DEF RowsOK, Row, Final
<1>5. QED
  BY <1>3, <1>4

\* The UPDATE of handleRefresh asks again whether the session was revoked.
LEMMA RotateFinal == ASSUME RowsOK, NEW x \in Clients, Rotate(x) PROVE RowsOK' /\ Final
<1> DEFINE i == req[x].row
<1>1. CASE UNCHANGED hub
  BY <1>1 DEF hub, RowsOK, Final
<1>2. CASE /\ ~rows[i].revoked
           /\ minted' = minted + 1
           /\ rows' = [rows EXCEPT ![i] = [@ EXCEPT !.pair = minted', !.age = "fresh"]]
  <2> HIDE DEF i
  <2>1. \A j \in DOMAIN rows : rows[j] \in Row
    BY DEF RowsOK
  <2>2. RowsOK'
    <3>1. rows' = [j \in DOMAIN rows |-> rows'[j]]
      BY <1>2 DEF RowsOK
    <3>2. ASSUME NEW j \in DOMAIN rows PROVE rows'[j] \in Row
      <4>1. CASE j = i
        <5>1. rows'[j] = [rows[j] EXCEPT !.pair = minted', !.age = "fresh"]
          BY <1>2, <4>1
        <5>2. QED
          <6>1. minted' \in Nat /\ "fresh" \in Ages /\ rows[j] \in Row
            BY <1>2, <2>1 DEF RowsOK, Ages
          <6>2. [rows[j] EXCEPT !.pair = minted', !.age = "fresh"] \in Row
            BY <6>1, SameRow, Zenon
          <6>3. QED
            BY <5>1, <6>2, Zenon
      <4>2. CASE j # i
        BY <1>2, <2>1, <4>2
      <4>3. QED
        BY <4>1, <4>2
    <3>3. QED
      BY <1>2, <3>1, <3>2, SameTable DEF RowsOK
  <2>3. \A j \in DOMAIN rows : j # i => rows'[j] = rows[j]
    BY <1>2 DEF RowsOK
  <2>4. Final
    BY <1>2, <2>3 DEF Final
  <2>5. QED
    BY <2>2, <2>4
<1>3. QED
  BY <1>1, <1>2 DEF Rotate, Rotatable

\* handleLogout revokes and gives nothing back.
LEMMA LogoutFinal == ASSUME RowsOK, Logout PROVE RowsOK' /\ Final
<1>1. CASE UNCHANGED rows
  BY <1>1 DEF Logout, RowsOK, Final
<1>2. CASE rows' = [i \in DOMAIN rows |->
                      [rows[i] EXCEPT !.revoked = @ \/ i \in Accepted(dart)]]
  <2>1. \A j \in DOMAIN rows : rows[j] \in Row
    BY DEF RowsOK
  <2>2. minted' = minted
    BY DEF Logout
  <2>3. ASSUME NEW j \in DOMAIN rows
        PROVE  rows'[j] \in Row /\ rows'[j].pair = rows[j].pair
    BY <1>2, <2>1 DEF Row
  <2>4. ASSUME NEW j \in DOMAIN rows, rows[j].revoked PROVE rows'[j].revoked
    BY <1>2, <2>1, <2>4 DEF Row
  <2>5. RowsOK'
    BY <1>2, <2>2, <2>3, SameTable DEF RowsOK
  <2>6. QED
    BY <2>3, <2>4, <2>5 DEF Final
<1>3. QED
  BY <1>1, <1>2 DEF Logout

\* No other step touches the table.
LEMMA NextFinal == RowsOK /\ [Next]_vars => RowsOK' /\ Final
<1> SUFFICES ASSUME RowsOK, [Next]_vars PROVE RowsOK' /\ Final
  OBVIOUS
<1>1. CASE UNCHANGED hub
  BY <1>1 DEF hub, RowsOK, Final
<1>2. CASE Login \/ Logout
  BY <1>2, LoginFinal, LogoutFinal
<1>3. ASSUME NEW i \in DOMAIN rows, Expire(i) PROVE RowsOK' /\ Final
  BY <1>3, ExpireFinal
<1>4. ASSUME NEW x \in Clients, Rotate(x) PROVE RowsOK' /\ Final
  BY <1>4, RotateFinal
<1>5. ASSUME NEW x \in Clients, Call(x) \/ Serve(x) \/ Refresh(x) \/ Lookup(x) \/ Lose(x)
      PROVE  UNCHANGED hub
  BY <1>5 DEF Call, Serve, Refresh, Lookup, Lose
<1>6. CASE Tick \/ DartRefreshed \/ DartRefused \/ HandleExpired \/ NativeRefreshed \/ NativeRefused
  BY <1>1, <1>6
    DEF Tick, DartRefreshed, DartRefused, HandleExpired, NativeRefreshed, NativeRefused
<1>7. ASSUME NEW start \in BOOLEAN, PushRead(start) PROVE UNCHANGED hub
  BY <1>7 DEF PushRead
<1>8. ASSUME NEW m \in sent, Configure(m) PROVE UNCHANGED hub
  BY <1>8 DEF Configure
<1>9. CASE PushSettings \/ SessionEvent \/ Kill \/ ColdStart \/ AfterAuth \/ OfflineStart
  BY <1>1, <1>9 DEF PushSettings, SessionEvent, Kill, ColdStart, AfterAuth, OfflineStart
<1>10. CASE UNCHANGED vars
  BY <1>1, <1>10 DEF vars
<1>11. QED
  BY <1>1, <1>2, <1>3, <1>4, <1>5, <1>6, <1>7, <1>8, <1>9, <1>10 DEF Next

\* A logout is final: whatever refreshes were under way when the session was revoked,
\* it stays revoked and is never given another pair (handleRefresh, handleLogout).
THEOREM LogoutIsFinal == Spec => RevokedNeverGranted
<1>1. Init => RowsOK
  BY DEF Init, RowsOK
<1>2. RowsOK /\ [Next]_vars =>
        [\A i \in DOMAIN rows : rows[i].revoked => rows'[i].revoked /\ rows'[i].pair = rows[i].pair]_vars
  BY NextFinal DEF Final
<1>3. QED
  BY <1>1, <1>2, NextFinal, PTL DEF Spec, RevokedNeverGranted

-----------------------------------------------------------------------------
(* The login limiter.                                                      *)

\* The record holds every admitted attempt that is still inside the window, so the
\* test against its size is a test against the window; windows that have passed
\* are not touched any more.
LimiterInv ==
  /\ clock \in Nat /\ tried \in Nat
  /\ hits \subseteq [no : Nat, at : Nat] /\ admitted \subseteq [no : Nat, at : Nat]
  /\ IsFiniteSet(hits) /\ Cardinality(hits) <= MaxHits
  /\ \A a \in admitted : a.at <= clock /\ (a.at > clock - Window => a \in hits)
  /\ \A t \in 0 .. MaxClock : t < clock => Cardinality(InWindow(t)) <= MaxHits

\* A window that has not passed yet holds no more than the record.
LEMMA OpenWindow ==
  ASSUME LimiterInv, NEW t \in Nat, clock <= t
  PROVE  Cardinality(InWindow(t)) <= MaxHits
<1>1. InWindow(t) \subseteq hits
  <2> SUFFICES ASSUME NEW a \in admitted, a.at > t - Window PROVE a \in hits
    BY DEF InWindow
  <2>1. a.at \in Nat /\ clock \in Nat /\ Window \in Nat
    BY SessionsAssumption DEF LimiterInv
  <2>2. a.at > clock - Window
    BY <2>1
  <2> QED BY <2>2 DEF LimiterInv
<1>2. IsFiniteSet(hits) /\ Cardinality(hits) <= MaxHits /\ MaxHits \in Nat
  BY SessionsAssumption DEF LimiterInv
<1>3. Cardinality(InWindow(t)) <= Cardinality(hits)
  BY <1>1, <1>2, FS_Subset
<1>4. Cardinality(InWindow(t)) \in Nat /\ Cardinality(hits) \in Nat
  BY <1>1, <1>2, FS_Subset, FS_CardinalityType
<1> QED BY <1>2, <1>3, <1>4

LEMMA TickBounded == ASSUME LimiterInv, Tick PROVE LimiterInv'
<1>1. clock' = clock + 1 /\ UNCHANGED <<hits, admitted, tried>>
  BY DEF Tick
<1>2. clock \in Nat /\ clock' \in Nat /\ Window \in Nat
  BY <1>1, SessionsAssumption DEF LimiterInv
<1>3. ASSUME NEW a \in admitted
      PROVE  a.at <= clock' /\ (a.at > clock' - Window => a \in hits)
  <2>1. a.at \in Nat /\ a.at <= clock
    BY DEF LimiterInv
  <2>2. a.at > clock' - Window => a.at > clock - Window
    BY <1>1, <1>2, <2>1
  <2> QED BY <1>1, <1>2, <2>1, <2>2 DEF LimiterInv
<1>4. ASSUME NEW t \in 0 .. MaxClock, t < clock' PROVE Cardinality(InWindow(t)) <= MaxHits
  <2>1. CASE t < clock
    BY <2>1 DEF LimiterInv
  <2>2. CASE t = clock
    BY <1>2, <2>2, OpenWindow
  <2> QED BY <1>1, <1>2, <1>4, <2>1, <2>2
<1>5. \A t : InWindow(t)' = InWindow(t)
  BY <1>1 DEF InWindow
<1> QED BY <1>1, <1>2, <1>3, <1>4, <1>5 DEF LimiterInv

LEMMA LoginBounded == ASSUME LimiterInv, Login PROVE LimiterInv'
<1>1. clock' = clock /\ tried' = tried + 1
  BY DEF Login
<1>2. /\ clock \in Nat /\ tried' \in Nat /\ Window \in Nat /\ MaxHits \in Nat
      /\ hits \subseteq [no : Nat, at : Nat] /\ IsFiniteSet(hits)
  BY <1>1, SessionsAssumption DEF LimiterInv
<1>3. Kept \subseteq hits
  BY DEF Kept
<1>4. IsFiniteSet(Kept) /\ Cardinality(Kept) \in Nat /\ Cardinality(Kept) <= MaxHits
  <2>1. IsFiniteSet(Kept) /\ Cardinality(Kept) <= Cardinality(hits)
    BY <1>2, <1>3, FS_Subset
  <2>2. Cardinality(Kept) \in Nat /\ Cardinality(hits) \in Nat
    BY <1>2, <2>1, FS_CardinalityType
  <2> QED BY <1>2, <2>1, <2>2 DEF LimiterInv
<1>5. \A a \in admitted : a.at <= clock /\ (a.at > clock - Window => a \in Kept)
  BY DEF LimiterInv, Kept
<1>6. CASE Cardinality(Kept) >= MaxHits
  <2>1. hits' = Kept /\ admitted' = admitted
    BY <1>6 DEF Login
  <2>2. \A t : InWindow(t)' = InWindow(t)
    BY <2>1 DEF InWindow
  <2> QED BY <1>1, <1>2, <1>3, <1>4, <1>5, <2>1, <2>2 DEF LimiterInv
<1>7. CASE ~(Cardinality(Kept) >= MaxHits)
  <2> DEFINE new == [no |-> tried', at |-> clock]
  <2>1. hits' = Kept \union {new} /\ admitted' = admitted \union {new}
    BY <1>7 DEF Login
  <2>2. new \in [no : Nat, at : Nat] /\ new.at = clock
    BY <1>2
  <2> HIDE DEF new
  <2>3. IsFiniteSet(hits') /\ Cardinality(hits') <= Cardinality(Kept) + 1
        /\ Cardinality(hits') \in Nat
    <3>1. IsFiniteSet(hits') /\ Cardinality(hits') \in {Cardinality(Kept), Cardinality(Kept) + 1}
      BY <1>4, <2>1, FS_AddElement
    <3> QED BY <1>4, <3>1
  <2>4. Cardinality(hits') <= MaxHits
    BY <1>2, <1>4, <1>7, <2>3
  <2>5. \A a \in admitted' : a.at <= clock' /\ (a.at > clock' - Window => a \in hits')
    BY <1>1, <1>2, <1>5, <2>1, <2>2
  <2>6. ASSUME NEW t \in 0 .. MaxClock, t < clock PROVE Cardinality(InWindow(t)') <= MaxHits
    <3>1. ~(new.at <= t)
      BY <1>2, <2>2, <2>6
    <3>2. InWindow(t)' = InWindow(t)
      BY <2>1, <3>1 DEF InWindow
    <3> QED BY <2>6, <3>2 DEF LimiterInv
  <2>7. hits' \subseteq [no : Nat, at : Nat] /\ admitted' \subseteq [no : Nat, at : Nat]
    BY <1>2, <1>3, <2>1, <2>2 DEF LimiterInv
  <2> QED BY <1>1, <1>2, <2>3, <2>4, <2>5, <2>6, <2>7 DEF LimiterInv
<1> QED BY <1>6, <1>7

LEMMA NextBounded == LimiterInv /\ [Next]_vars => LimiterInv'
<1> SUFFICES ASSUME LimiterInv, [Next]_vars PROVE LimiterInv'
  OBVIOUS
<1>1. CASE UNCHANGED limiter
  BY <1>1 DEF limiter, LimiterInv, InWindow
<1>2. CASE Tick \/ Login
  BY <1>2, TickBounded, LoginBounded
<1>3. CASE Logout
  BY <1>1, <1>3 DEF Logout
<1>4. ASSUME NEW i \in DOMAIN rows, Expire(i) PROVE UNCHANGED limiter
  BY <1>4 DEF Expire
<1>5. ASSUME NEW x \in Clients,
             Call(x) \/ Serve(x) \/ Refresh(x) \/ Lookup(x) \/ Rotate(x) \/ Lose(x)
      PROVE  UNCHANGED limiter
  BY <1>5 DEF Call, Serve, Refresh, Lookup, Rotate, Lose
<1>6. CASE DartRefreshed \/ DartRefused \/ HandleExpired \/ NativeRefreshed \/ NativeRefused
  BY <1>1, <1>6
    DEF DartRefreshed, DartRefused, HandleExpired, NativeRefreshed, NativeRefused
<1>7. ASSUME NEW start \in BOOLEAN, PushRead(start) PROVE UNCHANGED limiter
  BY <1>7 DEF PushRead
<1>8. ASSUME NEW m \in sent, Configure(m) PROVE UNCHANGED limiter
  BY <1>8 DEF Configure
<1>9. CASE PushSettings \/ SessionEvent \/ Kill \/ ColdStart \/ AfterAuth \/ OfflineStart
  BY <1>1, <1>9 DEF PushSettings, SessionEvent, Kill, ColdStart, AfterAuth, OfflineStart
<1>10. CASE UNCHANGED vars
  BY <1>1, <1>10 DEF vars
<1> QED BY <1>1, <1>2, <1>3, <1>4, <1>5, <1>6, <1>7, <1>8, <1>9, <1>10 DEF Next

\* Whatever the limit and the window, no window of time holds more admitted attempts than
\* the limit (loginLimiter.allow).
THEOREM LimiterHolds == Spec => []AttemptsBounded
<1>1. Init => LimiterInv
  <2> SUFFICES ASSUME Init PROVE LimiterInv
    OBVIOUS
  <2>1. Cardinality(hits) = 0 /\ IsFiniteSet(hits) /\ MaxHits \in Nat
    BY FS_EmptySet, SessionsAssumption DEF Init
  <2>2. \A t \in 0 .. MaxClock : ~(t < clock)
    BY DEF Init
  <2> QED BY <2>1, <2>2 DEF Init, LimiterInv
<1>2. LimiterInv => AttemptsBounded
  <2> SUFFICES ASSUME LimiterInv, NEW t \in 0 .. MaxClock
               PROVE  Cardinality(InWindow(t)) <= MaxHits
    BY DEF AttemptsBounded
  <2>1. t \in Nat /\ clock \in Nat
    BY DEF LimiterInv
  <2>2. CASE t < clock
    BY <2>2 DEF LimiterInv
  <2>3. CASE clock <= t
    BY <2>1, <2>3, OpenWindow
  <2> QED BY <2>1, <2>2, <2>3
<1> QED BY <1>1, <1>2, NextBounded, PTL DEF Spec

-----------------------------------------------------------------------------
\* The shapes of the state, with m for the number of pairs issued.
Steps == {"idle", "calling", "denied", "asked", "read", "granted", "refused", "expired"}
Reqs(m) == [at : Steps, pair : 0..m, row : Nat]
SessionRows(m) == [pair : 1..m, labelled : BOOLEAN, revoked : BOOLEAN, age : Ages]
Messages(m) == [pair : 0..m, start : BOOLEAN]
Causes == {"overlap", "lost", "killed", "offline", "left"}

\* The type invariant, with m for the number of pairs.
Types(m) ==
  /\ rows \in Seq(SessionRows(m))
  /\ dart \in 0..m /\ saved \in 0..m /\ native \in 0..m
  /\ alive \in BOOLEAN /\ cold \in BOOLEAN /\ running \in BOOLEAN /\ signedIn \in BOOLEAN
  /\ req \in [Clients -> Reqs(m)]
  /\ pull \subseteq BOOLEAN
  /\ sent \subseteq Messages(m)
  /\ events \in Seq(0..m)
  /\ causes \subseteq Causes

\* The type invariant, split by variable.
LEMMA TypeParts == TypeOK <=> minted \in Nat /\ Types(minted)
BY DEF TypeOK, Types, SessionRows, Reqs, Steps, Messages, Causes, Pairs

\* The same of the next state.
LEMMA TypePartsNext == TypeOK' <=> minted' \in Nat /\ Types(minted)'
BY DEF TypeOK, Types, SessionRows, Reqs, Steps, Messages, Causes, Pairs

\* A request that rests, and its two variations.
LEMMA QuietFits ==
  /\ \A m \in Nat : Quiet \in Reqs(m)
  /\ Quiet.at = "idle" /\ Quiet.pair = 0 /\ Quiet.row = 0
  /\ \A a : [Quiet EXCEPT !.at = a] = [at |-> a, pair |-> 0, row |-> 0]
  /\ \A a, p : [Quiet EXCEPT !.at = a, !.pair = p] = [at |-> a, pair |-> p, row |-> 0]
<1>1. \A m \in Nat : Quiet \in Reqs(m)
  BY DEF Quiet, Reqs, Steps
<1>2. \A a : [Quiet EXCEPT !.at = a] = [at |-> a, pair |-> 0, row |-> 0]
  BY DEF Quiet
<1>3. \A a, p : [Quiet EXCEPT !.at = a, !.pair = p] = [at |-> a, pair |-> p, row |-> 0]
  <2> SUFFICES ASSUME NEW a, NEW p
               PROVE  [Quiet EXCEPT !.at = a, !.pair = p] = [at |-> a, pair |-> p, row |-> 0]
    OBVIOUS
  <2>1. [Quiet EXCEPT !.at = a, !.pair = p] = [[Quiet EXCEPT !.at = a] EXCEPT !.pair = p]
    OBVIOUS
  <2>2. [[at |-> a, pair |-> 0, row |-> 0] EXCEPT !.pair = p] = [at |-> a, pair |-> p, row |-> 0]
    OBVIOUS
  <2> QED BY <1>2, <2>1, <2>2
<1> QED BY <1>1, <1>2, <1>3 DEF Quiet

\* One client's request is replaced.
LEMMA SetReq ==
  ASSUME NEW m, req \in [Clients -> Reqs(m)], NEW x \in Clients,
         NEW v \in Reqs(m), req' = [req EXCEPT ![x] = v]
  PROVE  /\ req' \in [Clients -> Reqs(m)] /\ req'[x] = v
         /\ \A y \in Clients : y # x => req'[y] = req[y]
OBVIOUS

\* What fits the pairs issued so far fits when more are issued.
LEMMA Wider ==
  ASSUME NEW m \in Nat, NEW k \in Nat, m <= k
  PROVE  /\ 0..m \subseteq 0..k /\ SessionRows(m) \subseteq SessionRows(k)
         /\ Reqs(m) \subseteq Reqs(k) /\ Messages(m) \subseteq Messages(k)
<1>1. 0..m \subseteq 0..k /\ 1..m \subseteq 1..k
  OBVIOUS
<1> QED BY <1>1, Zenon DEF SessionRows, Reqs, Messages

\* A request, by its fields.
LEMMA RecordFits ==
  ASSUME NEW m \in Nat, NEW a \in Steps, NEW p \in 0..m, NEW r \in Nat
  PROVE  [at |-> a, pair |-> p, row |-> r] \in Reqs(m)
BY DEF Reqs

\* The fields of a request.
LEMMA ReqFields ==
  ASSUME NEW m \in Nat, req \in [Clients -> Reqs(m)], NEW x \in Clients
  PROVE  /\ req[x] = [at |-> req[x].at, pair |-> req[x].pair, row |-> req[x].row]
         /\ req[x].at \in Steps /\ req[x].pair \in 0..m /\ req[x].row \in Nat
BY DEF Reqs

\* A request that moves on and remembers its row is replaced as a whole.
LEMMA AtRow ==
  ASSUME NEW m \in Nat, req \in [Clients -> Reqs(m)], NEW x \in Clients, NEW a, NEW r,
         req' = [req EXCEPT ![x].at = a, ![x].row = r]
  PROVE  req' = [req EXCEPT ![x] = [at |-> a, pair |-> req[x].pair, row |-> r]]
<1>1. req[x] \in Reqs(m)
  OBVIOUS
<1>2. PICK p, q, o : req[x] = [at |-> q, pair |-> p, row |-> o]
  BY <1>1 DEF Reqs
<1>3. [[at |-> q, pair |-> p, row |-> o] EXCEPT !.at = a] = [at |-> a, pair |-> p, row |-> o]
  OBVIOUS
<1>4. [[at |-> a, pair |-> p, row |-> o] EXCEPT !.row = r] = [at |-> a, pair |-> p, row |-> r]
  OBVIOUS
<1>5. req' = [[req EXCEPT ![x] = [req[x] EXCEPT !.at = a]]
                 EXCEPT ![x] = [[req[x] EXCEPT !.at = a] EXCEPT !.row = r]]
  OBVIOUS
<1> QED BY <1>2, <1>3, <1>4, <1>5

\* A request that only moves on.
LEMMA AtOnly ==
  ASSUME NEW m \in Nat, req \in [Clients -> Reqs(m)], NEW x \in Clients, NEW a,
         req' = [req EXCEPT ![x].at = a]
  PROVE  req' = [req EXCEPT ![x] = [at |-> a, pair |-> req[x].pair, row |-> req[x].row]]
<1>1. req[x] \in Reqs(m)
  OBVIOUS
<1>2. PICK p, q, o : req[x] = [at |-> q, pair |-> p, row |-> o]
  BY <1>1 DEF Reqs
<1>3. [[at |-> q, pair |-> p, row |-> o] EXCEPT !.at = a] = [at |-> a, pair |-> p, row |-> o]
  OBVIOUS
<1> QED BY <1>2, <1>3

-----------------------------------------------------------------------------
\* The request of x becomes this, the other one stays.
Turn(x, a, p, r) ==
  /\ req'[x] = [at |-> a, pair |-> p, row |-> r]
  /\ \A y \in Clients : y # x => req'[y] = req[y]

\* Types after a step that sets one request and leaves the pairs that are issued.
LEMMA TurnFits ==
  ASSUME TypeOK, NEW x \in Clients, NEW a \in Steps, NEW p \in 0..minted, NEW r \in Nat,
         req' = [req EXCEPT ![x] = [at |-> a, pair |-> p, row |-> r]]
  PROVE  req' \in [Clients -> Reqs(minted)] /\ Turn(x, a, p, r)
<1>1. minted \in Nat /\ req \in [Clients -> Reqs(minted)]
  BY TypeParts DEF Types
<1>2. [at |-> a, pair |-> p, row |-> r] \in Reqs(minted)
  BY <1>1, RecordFits
<1> QED BY <1>1, <1>2, SetReq DEF Turn

\* A step that changes only requests and causes keeps the types.
LEMMA OnlyReq ==
  ASSUME TypeOK, req' \in [Clients -> Reqs(minted)], causes' \subseteq Causes,
         UNCHANGED <<rows, minted, dart, saved, alive, cold, native, running, pull, sent,
                     events, signedIn>>
  PROVE  TypeOK'
<1>1. minted \in Nat /\ Types(minted)
  BY TypeParts
<1>2. Types(minted)'
  BY <1>1 DEF Types
<1> QED BY <1>1, <1>2, TypePartsNext

\* What each client holds is a pair.
LEMMA HeldFits == ASSUME TypeOK, NEW x \in Clients PROVE Held(x) \in 0..minted
BY TypeParts DEF Types, Held

\* What Call does to the state.
LEMMA CallTurn ==
  ASSUME TypeOK, NEW x \in Clients, Call(x)
  PROVE  TypeOK' /\ Turn(x, "calling", Held(x), 0)
<1>1. req' = [req EXCEPT ![x] = [at |-> "calling", pair |-> Held(x), row |-> 0]]
  BY QuietFits DEF Call
<1>2. req' \in [Clients -> Reqs(minted)] /\ Turn(x, "calling", Held(x), 0)
  BY <1>1, HeldFits, TurnFits DEF Steps
<1>3. UNCHANGED <<rows, minted, dart, saved, alive, cold, native, running, pull, sent,
                  events, signedIn, causes>>
  BY DEF Call, hub, app, bridge
<1>4. causes \subseteq Causes
  BY TypeParts DEF Types
<1> QED BY <1>2, <1>3, <1>4, OnlyReq

\* What Serve does to the state.
LEMMA ServeTurn ==
  ASSUME TypeOK, NEW x \in Clients, Serve(x)
  PROVE  /\ TypeOK'
         /\ IF Accepted(req[x].pair) # {} THEN Turn(x, "idle", 0, 0) ELSE Turn(x, "denied", 0, 0)
<1>1. PICK a \in {"idle", "denied"} :
        /\ a = (IF Accepted(req[x].pair) # {} THEN "idle" ELSE "denied")
        /\ req' = [req EXCEPT ![x] = [at |-> a, pair |-> 0, row |-> 0]]
  <2>1. Quiet = [at |-> "idle", pair |-> 0, row |-> 0]
    BY DEF Quiet
  <2> QED BY <2>1, QuietFits DEF Serve
<1>2. req' \in [Clients -> Reqs(minted)] /\ Turn(x, a, 0, 0)
  <2>1. 0 \in 0..minted
    BY TypeParts
  <2> QED BY <1>1, <2>1, TurnFits DEF Steps
<1>3. UNCHANGED <<rows, minted, dart, saved, alive, cold, native, running, pull, sent,
                  events, signedIn, causes>>
  BY DEF Serve, hub, app, bridge
<1>4. causes \subseteq Causes
  BY TypeParts DEF Types
<1> QED BY <1>1, <1>2, <1>3, <1>4, OnlyReq

\* "No credential" is a pair.
LEMMA ZeroFits == ASSUME TypeOK PROVE minted \in Nat /\ 0 \in 0..minted /\ causes \subseteq Causes
BY TypeParts DEF Types

\* A request comes to rest.
LEMMA QuietTurn ==
  ASSUME TypeOK, NEW x \in Clients, req' = [req EXCEPT ![x] = Quiet]
  PROVE  req' \in [Clients -> Reqs(minted)] /\ Turn(x, "idle", 0, 0)
<1>1. Quiet = [at |-> "idle", pair |-> 0, row |-> 0]
  BY DEF Quiet
<1> QED BY <1>1, ZeroFits, TurnFits DEF Steps

\* What Refresh does to the state.
LEMMA RefreshTurn ==
  ASSUME TypeOK, NEW x \in Clients, Refresh(x)
  PROVE  /\ TypeOK'
         /\ \/ Held(x) = 0 /\ Turn(x, "idle", 0, 0) /\ UNCHANGED causes
            \/ /\ Held(x) # 0 /\ Turn(x, "asked", Held(x), 0)
               /\ causes' = IF Settled THEN causes ELSE causes \union {"overlap"}
<1>1. UNCHANGED <<rows, minted, dart, saved, alive, cold, native, running, pull, sent,
                  events, signedIn>>
  BY DEF Refresh, hub, app, bridge
<1>2. CASE Held(x) = 0
  BY <1>1, <1>2, QuietTurn, ZeroFits, OnlyReq DEF Refresh
<1>3. CASE Held(x) # 0
  <2>1. req' = [req EXCEPT ![x] = [at |-> "asked", pair |-> Held(x), row |-> 0]]
    BY <1>3, QuietFits DEF Refresh
  <2>2. req' \in [Clients -> Reqs(minted)] /\ Turn(x, "asked", Held(x), 0)
    BY <2>1, HeldFits, TurnFits DEF Steps
  <2>3. causes' = IF Settled THEN causes ELSE causes \union {"overlap"}
    BY <1>3 DEF Refresh, Blame
  <2>4. causes' \subseteq Causes
    BY <2>3, ZeroFits DEF Causes
  <2> QED BY <1>1, <1>3, <2>2, <2>3, <2>4, OnlyReq
<1> QED BY <1>2, <1>3

\* What Lookup does to the state.
LEMMA LookupTurn ==
  ASSUME TypeOK, NEW x \in Clients, Lookup(x)
  PROVE  /\ TypeOK' /\ req[x].at = "asked"
         /\ \/ \E i \in Refreshable(req[x].pair) : Turn(x, "read", req[x].pair, i)
            \/ Refreshable(req[x].pair) = {} /\ Turn(x, "refused", req[x].pair, req[x].row)
<1>1. /\ UNCHANGED <<rows, minted, dart, saved, alive, cold, native, running, pull, sent,
                     events, signedIn, causes>>
      /\ req[x].at = "asked"
  BY DEF Lookup, hub, app, bridge
<1>2. minted \in Nat /\ req \in [Clients -> Reqs(minted)] /\ rows \in Seq(SessionRows(minted))
  BY TypeParts DEF Types
<1>3. req[x].pair \in 0..minted /\ req[x].row \in Nat
  BY <1>2, ReqFields
<1>4. CASE \E i \in Refreshable(req[x].pair) : req' = [req EXCEPT ![x].at = "read", ![x].row = i]
  <2>1. PICK i \in Refreshable(req[x].pair) : req' = [req EXCEPT ![x].at = "read", ![x].row = i]
    BY <1>4
  <2>2. i \in Nat
    BY <1>2, <2>1 DEF Refreshable, RowOf
  <2>3. req' = [req EXCEPT ![x] = [at |-> "read", pair |-> req[x].pair, row |-> i]]
    BY <1>2, <2>1, AtRow
  <2>4. req' \in [Clients -> Reqs(minted)] /\ Turn(x, "read", req[x].pair, i)
    BY <1>3, <2>2, <2>3, TurnFits DEF Steps
  <2> QED BY <1>1, <2>1, <2>4, ZeroFits, OnlyReq
<1>5. CASE Refreshable(req[x].pair) = {} /\ req' = [req EXCEPT ![x].at = "refused"]
  <2>1. req' = [req EXCEPT ![x] = [at |-> "refused", pair |-> req[x].pair, row |-> req[x].row]]
    BY <1>2, <1>5, AtOnly
  <2>2. req' \in [Clients -> Reqs(minted)] /\ Turn(x, "refused", req[x].pair, req[x].row)
    BY <1>3, <2>1, TurnFits DEF Steps
  <2> QED BY <1>1, <1>5, <2>2, ZeroFits, OnlyReq
<1> QED BY <1>4, <1>5 DEF Lookup

\* Lose names its cause.
LEMMA LoseBlamed ==
  ASSUME TypeOK, NEW x \in Clients, Lose(x)
  PROVE  TypeOK' /\ causes' # {} /\ (x = "dart" => Turn(x, "expired", dart, 0))
         /\ (x # "dart" => Turn(x, "idle", 0, 0))
<1>1. UNCHANGED <<rows, minted, dart, saved, alive, cold, native, running, pull, sent,
                  events, signedIn>>
  BY DEF Lose, hub, app, bridge
<1>2. causes' \subseteq Causes /\ causes' # {}
  BY ZeroFits DEF Lose, Blame, Causes
<1>3. CASE x = "dart"
  <2>1. req' = [req EXCEPT ![x] = [at |-> "expired", pair |-> dart, row |-> 0]]
    BY <1>3, QuietFits DEF Lose
  <2>2. req' \in [Clients -> Reqs(minted)] /\ Turn(x, "expired", dart, 0)
    BY <1>3, <2>1, HeldFits, TurnFits DEF Steps, Held
  <2> QED BY <1>1, <1>2, <1>3, <2>2, OnlyReq
<1>4. CASE x # "dart"
  <2>1. req' = [req EXCEPT ![x] = Quiet]
    BY <1>4 DEF Lose
  <2> QED BY <1>1, <1>2, <1>4, <2>1, QuietTurn, OnlyReq
<1> QED BY <1>3, <1>4

\* What NativeRefused does to the state.
LEMMA NativeRefusedTurn ==
  ASSUME TypeOK, NativeRefused PROVE TypeOK' /\ Turn("native", "idle", 0, 0)
<1>1. UNCHANGED <<rows, minted, dart, saved, alive, cold, native, running, pull, sent,
                  events, signedIn, causes>>
  BY DEF NativeRefused, hub, app, bridge
<1>2. "native" \in Clients /\ req' = [req EXCEPT !["native"] = Quiet]
  BY DEF NativeRefused, Clients
<1> QED BY <1>1, <1>2, QuietTurn, ZeroFits, OnlyReq

\* What DartRefused does to the state.
LEMMA DartRefusedTurn ==
  ASSUME TypeOK, DartRefused PROVE TypeOK' /\ Turn("dart", "expired", dart, 0)
<1>1. UNCHANGED <<rows, minted, dart, saved, alive, cold, native, running, pull, sent,
                  events, signedIn, causes>>
  BY DEF DartRefused, hub, app, bridge
<1>2. "dart" \in Clients /\ req' = [req EXCEPT !["dart"] = [at |-> "expired", pair |-> dart, row |-> 0]]
  BY QuietFits DEF DartRefused, Clients
<1>3. req' \in [Clients -> Reqs(minted)] /\ Turn("dart", "expired", dart, 0)
  BY <1>2, HeldFits, TurnFits DEF Steps, Held
<1> QED BY <1>1, <1>3, ZeroFits, OnlyReq

\* OfflineStart names its cause.
LEMMA OfflineBlamed ==
  ASSUME TypeOK, OfflineStart PROVE TypeOK' /\ causes' # {} /\ Turn("dart", "idle", 0, 0)
<1>1. UNCHANGED <<rows, minted, dart, saved, alive, cold, native, running, pull, sent,
                  events, signedIn>>
  BY DEF OfflineStart, hub, app, bridge
<1>2. causes' \subseteq Causes /\ causes' # {}
  BY ZeroFits DEF OfflineStart, Blame, Causes
<1>3. "dart" \in Clients /\ req' = [req EXCEPT !["dart"] = Quiet]
  BY DEF OfflineStart, Clients
<1> QED BY <1>1, <1>2, <1>3, QuietTurn, OnlyReq

\* A sequence over a set is one over a larger set.
LEMMA WiderSeq ==
  ASSUME NEW S, NEW T, S \subseteq T, NEW q \in Seq(S)
  PROVE  q \in Seq(T)
<1>1. \A i \in 1..Len(q) : q[i] \in T
  OBVIOUS
<1> QED BY <1>1

\* Types of everything are kept when more pairs are issued.
LEMMA TypesGrow ==
  ASSUME TypeOK, NEW k \in Nat, minted <= k
  PROVE  Types(k)
<1>1. minted \in Nat /\ Types(minted)
  BY TypeParts
<1>2. /\ 0..minted \subseteq 0..k /\ SessionRows(minted) \subseteq SessionRows(k)
      /\ Reqs(minted) \subseteq Reqs(k) /\ Messages(minted) \subseteq Messages(k)
  BY <1>1, Wider
<1>3. rows \in Seq(SessionRows(k)) /\ events \in Seq(0..k)
  <2>1. rows \in Seq(SessionRows(minted)) /\ events \in Seq(0..minted)
    BY <1>1 DEF Types
  <2> QED BY <1>2, <2>1, WiderSeq
<1>4. req \in [Clients -> Reqs(k)] /\ sent \subseteq Messages(k)
  BY <1>1, <1>2 DEF Types
<1> QED BY <1>1, <1>2, <1>3, <1>4 DEF Types

\* The row i with a new pair.
Renewed(i) ==
  /\ DOMAIN rows' = DOMAIN rows /\ Len(rows') = Len(rows) /\ minted' = minted + 1
  /\ \A j \in DOMAIN rows : j # i => rows'[j] = rows[j]
  /\ rows'[i].pair = minted + 1 /\ rows'[i].age = "fresh"
  /\ rows'[i].labelled = rows[i].labelled /\ rows'[i].revoked = rows[i].revoked

\* Rotate gives the row a pair nobody has had, or is refused.
LEMMA RotateTurn ==
  ASSUME TypeOK, NEW x \in Clients, Rotate(x), req[x].row \in DOMAIN rows
  PROVE  /\ TypeOK' /\ req[x].at = "read"
         /\ \/ /\ Rotatable(req[x].row) /\ Renewed(req[x].row)
               /\ Turn(x, "granted", minted + 1, req[x].row)
            \/ /\ ~Rotatable(req[x].row) /\ Turn(x, "refused", req[x].pair, req[x].row)
               /\ UNCHANGED <<rows, minted>>
<1>1. /\ UNCHANGED <<dart, saved, alive, cold, native, running, pull, sent, events,
                     signedIn, causes>>
      /\ req[x].at = "read"
  BY DEF Rotate, hub, app, bridge
<1>2. /\ minted \in Nat /\ req \in [Clients -> Reqs(minted)] /\ rows \in Seq(SessionRows(minted))
      /\ minted + 1 \in Nat /\ minted <= minted + 1 /\ minted + 1 \in 0..minted + 1
  BY TypeParts DEF Types
<1>3. req[x].pair \in 0..minted /\ req[x].row \in Nat
  BY <1>2, ReqFields
<1>4. CASE /\ Rotatable(req[x].row) /\ minted' = minted + 1
           /\ rows' = [rows EXCEPT ![req[x].row] = [@ EXCEPT !.pair = minted', !.age = "fresh"]]
           /\ req' = [req EXCEPT ![x].at = "granted", ![x].pair = minted']
  <2> DEFINE i == req[x].row
             k == minted + 1
             new == [rows[i] EXCEPT !.pair = k, !.age = "fresh"]
  <2>1. Types(k)
    BY <1>2, TypesGrow
  <2>2. req' = [req EXCEPT ![x] = [at |-> "granted", pair |-> k, row |-> i]]
    <3>1. PICK c : c = minted + 1 /\ c = minted'
      BY <1>4
    <3>2. c = k
      BY <3>1
    <3>3. req' = [req EXCEPT ![x].at = "granted", ![x].pair = c]
      <4> HIDE DEF k
      <4> QED BY <1>4, <3>1
    <3>4. req' = [req EXCEPT ![x] = [at |-> "granted", pair |-> c, row |-> req[x].row]]
      <4>1. PICK p, q, o : req[x] = [at |-> q, pair |-> p, row |-> o]
        BY <1>2 DEF Reqs
      <4>2. [[at |-> q, pair |-> p, row |-> o] EXCEPT !.at = "granted"]
              = [at |-> "granted", pair |-> p, row |-> o]
        OBVIOUS
      <4>3. [[at |-> "granted", pair |-> p, row |-> o] EXCEPT !.pair = c]
              = [at |-> "granted", pair |-> c, row |-> o]
        OBVIOUS
      <4>4. req' = [[req EXCEPT ![x] = [req[x] EXCEPT !.at = "granted"]]
                      EXCEPT ![x] = [[req[x] EXCEPT !.at = "granted"] EXCEPT !.pair = c]]
        BY <1>2, <3>3
      <4> QED BY <4>1, <4>2, <4>3, <4>4
    <3> QED BY <3>2, <3>4
  <2>3. req' \in [Clients -> Reqs(k)] /\ Turn(x, "granted", k, i)
    <3>1. [at |-> "granted", pair |-> k, row |-> i] \in Reqs(k) /\ req \in [Clients -> Reqs(k)]
      BY <1>2, <1>3, <2>1, RecordFits DEF Steps, Types
    <3> QED BY <2>2, <3>1, SetReq DEF Turn
  <2>4. /\ new \in SessionRows(k) /\ new.pair = k /\ new.age = "fresh"
        /\ new.labelled = rows[i].labelled /\ new.revoked = rows[i].revoked
    <3>1. PICK p, l, v, a : rows[i] = [pair |-> p, labelled |-> l, revoked |-> v, age |-> a]
                            /\ l \in BOOLEAN /\ v \in BOOLEAN
      <4>1. rows[i] \in SessionRows(minted)
        BY <1>2
      <4> QED BY <4>1 DEF SessionRows
    <3>2. [[pair |-> p, labelled |-> l, revoked |-> v, age |-> a] EXCEPT !.pair = k]
            = [pair |-> k, labelled |-> l, revoked |-> v, age |-> a]
      OBVIOUS
    <3>3. [[pair |-> k, labelled |-> l, revoked |-> v, age |-> a] EXCEPT !.age = "fresh"]
            = [pair |-> k, labelled |-> l, revoked |-> v, age |-> "fresh"]
      OBVIOUS
    <3>4. new = [[rows[i] EXCEPT !.pair = k] EXCEPT !.age = "fresh"]
      OBVIOUS
    <3>5. new = [pair |-> k, labelled |-> l, revoked |-> v, age |-> "fresh"]
      BY <3>1, <3>2, <3>3, <3>4
    <3>6. k \in 1..k
      BY <1>2
    <3> HIDE DEF new, k
    <3>7. new \in SessionRows(k)
      BY <3>1, <3>5, <3>6, Zenon DEF SessionRows, Ages
    <3> QED BY <3>1, <3>5, <3>7
  <2>5. rows' = [rows EXCEPT ![i] = new]
    BY <1>4
  <2> HIDE DEF new
  <2>6. /\ rows' \in Seq(SessionRows(k)) /\ Len(rows') = Len(rows) /\ DOMAIN rows' = DOMAIN rows
        /\ rows'[i] = new /\ \A j \in DOMAIN rows : j # i => rows'[j] = rows[j]
    <3>1. rows \in Seq(SessionRows(k))
      BY <2>1 DEF Types
    <3>2. rows \in [1..Len(rows) -> SessionRows(k)] /\ Len(rows) \in Nat /\ i \in 1..Len(rows)
      BY <3>1
    <3> HIDE DEF k, i
    <3>3. /\ rows' \in [1..Len(rows) -> SessionRows(k)] /\ rows'[i] = new
          /\ \A j \in DOMAIN rows : j # i => rows'[j] = rows[j]
      BY <2>4, <2>5, <3>2
    <3> QED BY <3>2, <3>3
  <2>7. Types(minted)'
    BY <1>1, <1>4, <2>1, <2>3, <2>6 DEF Types
  <2>8. Renewed(i)
    BY <1>4, <2>4, <2>6 DEF Renewed
  <2> QED BY <1>1, <1>2, <1>4, <2>3, <2>7, <2>8, TypePartsNext
<1>5. CASE /\ ~Rotatable(req[x].row) /\ req' = [req EXCEPT ![x].at = "refused"] /\ UNCHANGED hub
  <2>1. req' = [req EXCEPT ![x] = [at |-> "refused", pair |-> req[x].pair, row |-> req[x].row]]
    BY <1>2, <1>5, AtOnly
  <2>2. req' \in [Clients -> Reqs(minted)] /\ Turn(x, "refused", req[x].pair, req[x].row)
    BY <1>3, <2>1, TurnFits DEF Steps
  <2>3. UNCHANGED <<rows, minted>>
    BY <1>5 DEF hub
  <2> QED BY <1>1, <1>5, <2>2, <2>3, ZeroFits, OnlyReq
<1> QED BY <1>4, <1>5 DEF Rotate

\* What the type invariant says of each variable.
LEMMA Known ==
  ASSUME TypeOK
  PROVE  /\ minted \in Nat /\ rows \in Seq(SessionRows(minted)) /\ req \in [Clients -> Reqs(minted)]
         /\ dart \in 0..minted /\ saved \in 0..minted /\ native \in 0..minted
         /\ alive \in BOOLEAN /\ cold \in BOOLEAN /\ running \in BOOLEAN /\ signedIn \in BOOLEAN
         /\ pull \subseteq BOOLEAN /\ sent \subseteq Messages(minted)
         /\ events \in Seq(0..minted) /\ causes \subseteq Causes
BY TypeParts DEF Types

\* A step that issues no pair keeps the types when each variable does.
LEMMA Refitted ==
  ASSUME TypeOK, minted' = minted, rows' \in Seq(SessionRows(minted)),
         req' \in [Clients -> Reqs(minted)],
         dart' \in 0..minted, saved' \in 0..minted, native' \in 0..minted,
         alive' \in BOOLEAN, cold' \in BOOLEAN, running' \in BOOLEAN, signedIn' \in BOOLEAN,
         pull' \subseteq BOOLEAN, sent' \subseteq Messages(minted),
         events' \in Seq(0..minted), causes' \subseteq Causes
  PROVE  TypeOK'
BY Known, TypePartsNext DEF Types

\* What DartRefreshed does to the state.
LEMMA DartRefreshedTurn ==
  ASSUME TypeOK, DartRefreshed
  PROVE  /\ TypeOK' /\ Turn("dart", "idle", 0, 0)
         /\ IF dart = 0 THEN UNCHANGED <<dart, saved, pull>>
            ELSE dart' = req["dart"].pair /\ saved' = req["dart"].pair
<1>1. UNCHANGED <<rows, minted, alive, cold, native, running, sent, events, signedIn,
                  causes>>
  BY DEF DartRefreshed, hub
<1>2. "dart" \in Clients /\ req' = [req EXCEPT !["dart"] = Quiet]
  BY DEF DartRefreshed, Clients
<1>3. req' \in [Clients -> Reqs(minted)] /\ Turn("dart", "idle", 0, 0)
  BY <1>2, QuietTurn
<1>4. req["dart"].pair \in 0..minted
  BY <1>2, Known, ReqFields
<1>5. pull' \subseteq BOOLEAN /\ dart' \in 0..minted /\ saved' \in 0..minted
  BY <1>4, Known DEF DartRefreshed
<1> QED BY <1>1, <1>3, <1>5, Known, Refitted DEF DartRefreshed

\* What NativeRefreshed does to the state.
LEMMA NativeRefreshedTurn ==
  ASSUME TypeOK, NativeRefreshed
  PROVE  /\ TypeOK' /\ Turn("native", "idle", 0, 0) /\ native' = req["native"].pair
         /\ events' = IF alive THEN Append(events, req["native"].pair) ELSE events
<1>1. /\ UNCHANGED <<rows, minted, dart, saved, alive, cold, running, pull, sent, signedIn,
                     causes>>
      /\ native' = req["native"].pair
      /\ events' = IF alive THEN Append(events, req["native"].pair) ELSE events
  BY DEF NativeRefreshed, hub, app
<1>2. "native" \in Clients /\ req' = [req EXCEPT !["native"] = Quiet]
  BY DEF NativeRefreshed, Clients
<1>3. req' \in [Clients -> Reqs(minted)] /\ Turn("native", "idle", 0, 0)
  BY <1>2, QuietTurn
<1>4. req["native"].pair \in 0..minted
  BY <1>2, Known, ReqFields
<1>5. events' \in Seq(0..minted)
  <2>1. events \in Seq(0..minted) /\ Append(events, req["native"].pair) \in Seq(0..minted)
    BY <1>4, Known
  <2> QED BY <1>1, <2>1, Zenon
<1> QED BY <1>1, <1>3, <1>4, <1>5, Known, Refitted

\* What HandleExpired does to the state.
LEMMA HandleExpiredTurn ==
  ASSUME TypeOK, HandleExpired
  PROVE  /\ TypeOK' /\ Turn("dart", "idle", 0, 0)
         /\ IF Differs(req["dart"].pair)
            THEN IF dart # 0 /\ native # 0 THEN dart' = native /\ saved' = native
                 ELSE UNCHANGED <<dart, saved>>
            ELSE dart' = 0 /\ saved' = 0
<1>1. UNCHANGED <<rows, minted, alive, cold, native, pull, sent, events, signedIn, causes>>
  BY DEF HandleExpired, hub, bridge
<1>2. "dart" \in Clients /\ req' = [req EXCEPT !["dart"] = Quiet]
  BY DEF HandleExpired, Clients
<1>3. req' \in [Clients -> Reqs(minted)] /\ Turn("dart", "idle", 0, 0)
  BY <1>2, QuietTurn
<1>4. IF Differs(req["dart"].pair)
      THEN /\ running' = running
           /\ IF dart # 0 /\ native # 0 THEN dart' = native /\ saved' = native
              ELSE UNCHANGED <<dart, saved>>
      ELSE dart' = 0 /\ saved' = 0 /\ running' = FALSE
  BY DEF HandleExpired, Adopt, ClearLocal
<1>5. running' \in BOOLEAN /\ dart' \in 0..minted /\ saved' \in 0..minted
  BY <1>4, Known, ZeroFits
<1> QED BY <1>1, <1>3, <1>4, <1>5, Known, Refitted

\* What PushRead does to the state.
LEMMA PushReadEffect ==
  ASSUME TypeOK, NEW start \in BOOLEAN, PushRead(start)
  PROVE  TypeOK' /\ pull # {} /\ pull' \subseteq pull /\ alive
<1>1. /\ UNCHANGED <<rows, minted, dart, saved, alive, cold, native, req, events, signedIn,
                     causes>>
      /\ pull # {} /\ pull' \subseteq pull /\ alive
  BY DEF PushRead, hub, app
<1>2. running' \in BOOLEAN
  BY Known DEF PushRead
<1>3. sent' \subseteq Messages(minted)
  <2>1. [pair |-> dart, start |-> start] \in Messages(minted)
    BY Known DEF Messages
  <2> QED BY <2>1, Known DEF PushRead
<1> QED BY <1>1, <1>2, <1>3, Known, Refitted

\* What PushSettings does to the state.
LEMMA PushSettingsEffect ==
  ASSUME TypeOK, PushSettings PROVE TypeOK'
<1>1. UNCHANGED <<rows, minted, dart, saved, alive, cold, native, running, pull, req,
                  events, signedIn, causes>>
  BY DEF PushSettings, hub, app
<1>3. sent' \subseteq Messages(minted)
  <2>1. [pair |-> dart, start |-> FALSE] \in Messages(minted)
    BY Known DEF Messages
  <2> QED BY <2>1, Known DEF PushSettings
<1> QED BY <1>1, <1>3, Known, Refitted

\* What Configure does to the state.
LEMMA ConfigureEffect ==
  ASSUME TypeOK, NEW m \in sent, Configure(m) PROVE TypeOK' /\ sent' \subseteq sent
<1>1. /\ UNCHANGED <<rows, minted, dart, saved, alive, cold, pull, req, events, signedIn,
                     causes>>
      /\ sent' \subseteq sent /\ native' = m.pair /\ running' = (running \/ m.start)
  BY DEF Configure, hub, app
<1>2. m.pair \in 0..minted /\ m.start \in BOOLEAN
  BY Known DEF Messages
<1>3. running' \in BOOLEAN
  BY <1>1, <1>2, Known
<1> QED BY <1>1, <1>2, <1>3, Known, Refitted

\* What SessionEvent does to the state.
LEMMA SessionEventEffect ==
  ASSUME TypeOK, SessionEvent
  PROVE  /\ TypeOK' /\ events' = Tail(events)
         /\ IF dart # 0 /\ Head(events) # 0 THEN dart' = Head(events) /\ saved' = Head(events)
            ELSE UNCHANGED <<dart, saved>>
<1>1. /\ UNCHANGED <<rows, minted, alive, cold, native, running, req, pull, sent, signedIn,
                     causes>>
      /\ events' = Tail(events) /\ events # <<>>
      /\ IF dart # 0 /\ Head(events) # 0 THEN dart' = Head(events) /\ saved' = Head(events)
         ELSE UNCHANGED <<dart, saved>>
  BY DEF SessionEvent, hub, Adopt
<1>2. Head(events) \in 0..minted /\ Tail(events) \in Seq(0..minted)
  BY <1>1, Known
<1> QED BY <1>1, <1>2, Known, Refitted

\* What Kill does to the state.
LEMMA KillTurn ==
  ASSUME TypeOK, Kill
  PROVE  /\ TypeOK' /\ Turn("dart", "idle", 0, 0)
         /\ causes' = IF Settled THEN causes ELSE causes \union {"killed"}
<1>1. /\ UNCHANGED <<rows, minted, saved, native, running, sent, signedIn>>
      /\ alive' = FALSE /\ cold' = FALSE /\ dart' = 0 /\ pull' = {} /\ events' = <<>>
      /\ causes' = IF Settled THEN causes ELSE causes \union {"killed"}
  BY DEF Kill, hub, Blame
<1>2. "dart" \in Clients /\ req' = [req EXCEPT !["dart"] = Quiet]
  BY DEF Kill, Clients
<1>3. req' \in [Clients -> Reqs(minted)] /\ Turn("dart", "idle", 0, 0)
  BY <1>2, QuietTurn
<1>4. causes' \subseteq Causes /\ dart' \in 0..minted /\ events' \in Seq(0..minted)
  BY <1>1, ZeroFits DEF Causes
<1> QED BY <1>1, <1>3, <1>4, Known, Refitted

\* What ColdStart does to the state.
LEMMA ColdStartTurn ==
  ASSUME TypeOK, ColdStart
  PROVE  /\ TypeOK'
         /\ saved = 0 => req' = req
         /\ saved # 0 => Turn("dart", "calling", saved, 0)
<1>1. /\ UNCHANGED <<rows, minted, saved, native, running, pull, sent, events, signedIn,
                     causes>>
      /\ alive' = TRUE /\ cold' = (saved # 0) /\ dart' = saved
  BY DEF ColdStart, hub, bridge
<1>2. cold' \in BOOLEAN
  BY <1>1
<1>3. CASE saved = 0
  BY <1>1, <1>2, <1>3, Known, Refitted DEF ColdStart
<1>4. CASE saved # 0
  <2>1. "dart" \in Clients /\ req' = [req EXCEPT !["dart"] = [at |-> "calling", pair |-> saved, row |-> 0]]
    BY <1>4, QuietFits DEF ColdStart, Clients
  <2>2. req' \in [Clients -> Reqs(minted)] /\ Turn("dart", "calling", saved, 0)
    BY <2>1, Known, TurnFits DEF Steps
  <2> QED BY <1>1, <1>2, <1>4, <2>2, Known, Refitted
<1> QED BY <1>3, <1>4

\* What AfterAuth does to the state.
LEMMA AfterAuthEffect == ASSUME TypeOK, AfterAuth PROVE TypeOK'
<1>1. /\ UNCHANGED <<rows, minted, dart, saved, alive, native, running, req, sent, events,
                     signedIn, causes>>
      /\ cold' = FALSE
  BY DEF AfterAuth, hub
<1>2. pull' \subseteq BOOLEAN
  BY Known DEF AfterAuth
<1> QED BY <1>1, <1>2, Known, Refitted

\* Each row of a table of the same length.
LEMMA SameLength ==
  ASSUME TypeOK, rows' = [j \in DOMAIN rows |-> rows'[j]],
         \A j \in DOMAIN rows : rows'[j] \in SessionRows(minted)
  PROVE  /\ rows' \in Seq(SessionRows(minted)) /\ Len(rows') = Len(rows)
         /\ DOMAIN rows' = DOMAIN rows
<1>1. PICK n \in Nat : DOMAIN rows = 1..n /\ Len(rows) = n
  BY Known
<1>2. rows' \in [1..n -> SessionRows(minted)]
  BY <1>1
<1> QED BY <1>1, <1>2

\* A row of the table, by its fields.
LEMMA RowParts ==
  ASSUME NEW m \in Nat, NEW r \in SessionRows(m)
  PROVE  /\ r = [pair |-> r.pair, labelled |-> r.labelled, revoked |-> r.revoked, age |-> r.age]
         /\ r.pair \in 1..m /\ r.labelled \in BOOLEAN /\ r.revoked \in BOOLEAN /\ r.age \in Ages
BY DEF SessionRows

\* A row, from its fields.
LEMMA RowFits ==
  ASSUME NEW m, NEW p \in 1..m, NEW l \in BOOLEAN, NEW v \in BOOLEAN, NEW a \in Ages
  PROVE  [pair |-> p, labelled |-> l, revoked |-> v, age |-> a] \in SessionRows(m)
BY DEF SessionRows

\* A row with another age.
LEMMA RowAged ==
  ASSUME NEW m \in Nat, NEW r \in SessionRows(m), NEW a \in Ages
  PROVE  /\ [r EXCEPT !.age = a]
              = [pair |-> r.pair, labelled |-> r.labelled, revoked |-> r.revoked, age |-> a]
         /\ [r EXCEPT !.age = a] \in SessionRows(m)
<1>1. PICK p \in 1..m, l \in BOOLEAN, w \in BOOLEAN, b \in Ages :
        r = [pair |-> p, labelled |-> l, revoked |-> w, age |-> b]
  BY RowParts
<1>2. [r EXCEPT !.age = a] = [pair |-> p, labelled |-> l, revoked |-> w, age |-> a]
  BY <1>1
<1>3. r.pair = p /\ r.labelled = l /\ r.revoked = w
  BY <1>1
<1> QED BY <1>2, <1>3, RowFits

\* A row with the revocation decided.
LEMMA RowRevoked ==
  ASSUME NEW m \in Nat, NEW r \in SessionRows(m), NEW v \in BOOLEAN
  PROVE  /\ [r EXCEPT !.revoked = v]
              = [pair |-> r.pair, labelled |-> r.labelled, revoked |-> v, age |-> r.age]
         /\ [r EXCEPT !.revoked = v] \in SessionRows(m)
<1>1. PICK p \in 1..m, l \in BOOLEAN, w \in BOOLEAN, b \in Ages :
        r = [pair |-> p, labelled |-> l, revoked |-> w, age |-> b]
  BY RowParts
<1>2. [r EXCEPT !.revoked = v] = [pair |-> p, labelled |-> l, revoked |-> v, age |-> b]
  BY <1>1
<1>3. r.pair = p /\ r.labelled = l /\ r.age = b
  BY <1>1
<1> QED BY <1>2, <1>3, RowFits

\* A table of the same length in which the pairs and labels stay.
SameRows ==
  /\ Len(rows') = Len(rows) /\ DOMAIN rows' = DOMAIN rows /\ minted' = minted
  /\ \A j \in DOMAIN rows : rows'[j].pair = rows[j].pair /\ rows'[j].labelled = rows[j].labelled

\* Expire changes one age, and revives nothing.
LEMMA ExpireEffect ==
  ASSUME TypeOK, NEW i \in DOMAIN rows, Expire(i)
  PROVE  /\ TypeOK' /\ SameRows
         /\ \A j \in DOMAIN rows : /\ rows'[j].revoked = rows[j].revoked
                                   /\ rows[j].age = "dead" => rows'[j].age = "dead"
<1>1. /\ UNCHANGED <<minted, dart, saved, alive, cold, native, running, req, pull, sent,
                     events, signedIn, causes>>
      /\ rows' = [rows EXCEPT ![i].age = IF @ = "fresh" THEN "old" ELSE "dead"]
      /\ rows[i].age # "dead"
  BY DEF Expire, app, bridge
<1>2. PICK a \in Ages : a = IF rows[i].age = "fresh" THEN "old" ELSE "dead"
  BY DEF Ages
<1>3. rows' = [rows EXCEPT ![i] = [rows[i] EXCEPT !.age = a]]
  BY <1>1, <1>2
<1>4. \A j \in DOMAIN rows : rows[j] \in SessionRows(minted)
  BY Known
<1>5. \A j \in DOMAIN rows : rows'[j] = IF j = i THEN [rows[i] EXCEPT !.age = a] ELSE rows[j]
  BY <1>3, Known
<1>6. [rows[i] EXCEPT !.age = a] \in SessionRows(minted)
  BY <1>4, Known, RowAged
<1>7. [rows[i] EXCEPT !.age = a]
        = [pair |-> rows[i].pair, labelled |-> rows[i].labelled, revoked |-> rows[i].revoked, age |-> a]
  BY <1>4, Known, RowAged
<1>8. /\ rows' \in Seq(SessionRows(minted)) /\ Len(rows') = Len(rows) /\ DOMAIN rows' = DOMAIN rows
  <2>1. \A j \in DOMAIN rows : rows'[j] \in SessionRows(minted)
    BY <1>4, <1>5, <1>6
  <2>2. rows' = [j \in DOMAIN rows |-> rows'[j]]
    BY <1>3, Known
  <2> QED BY <2>1, <2>2, SameLength
<1>9. TypeOK'
  BY <1>1, <1>8, Known, Refitted
<1>10. \A j \in DOMAIN rows : /\ rows'[j].pair = rows[j].pair /\ rows'[j].labelled = rows[j].labelled
                              /\ rows'[j].revoked = rows[j].revoked
                              /\ rows[j].age = "dead" => rows'[j].age = "dead"
  BY <1>1, <1>5, <1>7
<1> QED BY <1>1, <1>8, <1>9, <1>10 DEF SameRows

\* Logout revokes at most the session of the access token; without a cause none is
\* left open.
LEMMA LogoutEffect ==
  ASSUME TypeOK, Logout
  PROVE  /\ TypeOK' /\ SameRows
         /\ \A j \in DOMAIN rows : rows'[j].age = rows[j].age /\ (rows[j].revoked => rows'[j].revoked)
         /\ Accepted(dart) = {} => \A j \in DOMAIN rows : rows'[j].revoked = rows[j].revoked
         /\ causes' = {} => \A j \in DOMAIN rows : rows'[j].revoked
<1>1. /\ UNCHANGED <<minted, alive, cold, native, req, pull, sent, events>>
      /\ signedIn' = FALSE /\ dart' = 0 /\ saved' = 0 /\ running' = FALSE
      /\ causes' = causes \union (IF \E i \in DOMAIN rows : ~rows'[i].revoked THEN {"left"} ELSE {})
  BY DEF Logout, ClearLocal, bridge, Blame
<1>2. \A j \in DOMAIN rows : rows[j] \in SessionRows(minted)
  BY Known
<1>3. causes' \subseteq Causes
  BY <1>1, Known DEF Causes
<1>4. causes' = {} => \A j \in DOMAIN rows : rows'[j].revoked
  BY <1>1
<1>5. CASE rows' = rows
  <2>1. TypeOK'
    BY <1>1, <1>3, <1>5, Known, ZeroFits, Refitted
  <2> QED BY <1>1, <1>4, <1>5, <2>1 DEF SameRows
<1>6. CASE rows' = [i \in DOMAIN rows |-> [rows[i] EXCEPT !.revoked = @ \/ i \in Accepted(dart)]]
  <2>1. ASSUME NEW j \in DOMAIN rows
        PROVE  /\ rows'[j] \in SessionRows(minted)
               /\ rows'[j].pair = rows[j].pair /\ rows'[j].labelled = rows[j].labelled
               /\ rows'[j].age = rows[j].age
               /\ rows'[j].revoked = (rows[j].revoked \/ j \in Accepted(dart))
    <3>1. PICK v \in BOOLEAN : v = (rows[j].revoked \/ j \in Accepted(dart))
      OBVIOUS
    <3>2. rows'[j] = [rows[j] EXCEPT !.revoked = v]
      BY <1>6, <3>1
    <3>3. [rows[j] EXCEPT !.revoked = v]
            = [pair |-> rows[j].pair, labelled |-> rows[j].labelled, revoked |-> v, age |-> rows[j].age]
      BY <1>2, Known, RowRevoked
    <3>4. [rows[j] EXCEPT !.revoked = v] \in SessionRows(minted)
      BY <1>2, Known, RowRevoked
    <3>5. rows'[j].revoked = v
      BY <3>2, <3>3
    <3> QED BY <3>1, <3>2, <3>3, <3>4, <3>5
  <2>2. /\ rows' \in Seq(SessionRows(minted)) /\ Len(rows') = Len(rows) /\ DOMAIN rows' = DOMAIN rows
    <3>1. rows' = [j \in DOMAIN rows |-> rows'[j]]
      BY <1>6
    <3> QED BY <2>1, <3>1, SameLength
  <2>3. TypeOK'
    BY <1>1, <1>3, <2>2, Known, ZeroFits, Refitted
  <2>4. SameRows
    BY <1>1, <2>1, <2>2 DEF SameRows
  <2>5. \A j \in DOMAIN rows : rows'[j].age = rows[j].age /\ (rows[j].revoked => rows'[j].revoked)
    BY <2>1
  <2>6. Accepted(dart) = {} => \A j \in DOMAIN rows : rows'[j].revoked = rows[j].revoked
    <3>1. SUFFICES ASSUME Accepted(dart) = {}, NEW j \in DOMAIN rows
                   PROVE  rows'[j].revoked = rows[j].revoked
      OBVIOUS
    <3>2. rows[j].revoked \in BOOLEAN
      BY <1>2, Known, RowParts
    <3> QED BY <2>1, <3>1, <3>2
  <2> QED BY <1>4, <2>3, <2>4, <2>5, <2>6
<1> QED BY <1>5, <1>6 DEF Logout

\* A login that succeeds.
NewRow ==
  /\ minted' = minted + 1 /\ dart' = minted + 1 /\ saved' = minted + 1 /\ signedIn' = TRUE
  /\ Len(rows') = Len(rows) + 1 /\ DOMAIN rows' = 1..Len(rows) + 1
  /\ rows'[Len(rows) + 1].pair = minted + 1 /\ rows'[Len(rows) + 1].labelled \in Labels
  /\ \A j \in DOMAIN rows : j \in DOMAIN rows' /\ j # Len(rows) + 1 /\ rows'[j] = rows[j]

\* Login opens a session with a pair nobody has had, or changes nothing here.
LEMMA LoginEffect ==
  ASSUME TypeOK, Login
  PROVE  /\ TypeOK'
         /\ UNCHANGED <<alive, cold, native, running, req, sent, events, causes>>
         /\ \/ UNCHANGED <<rows, minted, dart, saved, pull, signedIn>>
            \/ NewRow
<1>1. UNCHANGED <<alive, cold, native, running, req, sent, events, causes>>
  BY DEF Login
<1>2. CASE UNCHANGED <<hub, dart, saved, pull, signedIn>>
  <2>1. UNCHANGED <<rows, minted, dart, saved, pull, signedIn>>
    BY <1>2 DEF hub
  <2> QED BY <1>1, <2>1, Known, Refitted
<1>3. CASE /\ \E label \in Labels :
                rows' = Append(rows, [pair |-> minted + 1, labelled |-> label,
                                      revoked |-> FALSE, age |-> "fresh"])
           /\ minted' = minted + 1
           /\ dart' = minted' /\ saved' = minted'
           /\ pull' = pull \union {TRUE}
           /\ signedIn' = TRUE
  <2>1. PICK label \in Labels :
          rows' = Append(rows, [pair |-> minted + 1, labelled |-> label,
                                revoked |-> FALSE, age |-> "fresh"])
    BY <1>3
  <2>2. PICK k \in Nat : k = minted + 1 /\ minted <= k /\ k \in 0..k /\ k \in 1..k
    BY Known
  <2>3. PICK new : new = [pair |-> k, labelled |-> label, revoked |-> FALSE, age |-> "fresh"]
    OBVIOUS
  <2>4. new \in SessionRows(k) /\ new.pair = k /\ new.labelled \in Labels
    <3>1. label \in BOOLEAN /\ "fresh" \in Ages
      BY SessionsAssumption DEF Ages
    <3> QED BY <2>2, <2>3, <3>1, RowFits
  <2>5. rows' = Append(rows, new)
    BY <2>1, <2>2, <2>3
  <2>6. Types(k)
    BY <2>2, TypesGrow
  <2>7. /\ rows' \in Seq(SessionRows(k)) /\ Len(rows') = Len(rows) + 1 /\ DOMAIN rows' = 1..Len(rows) + 1
        /\ rows'[Len(rows) + 1] = new
        /\ \A j \in DOMAIN rows : j \in DOMAIN rows' /\ j # Len(rows) + 1 /\ rows'[j] = rows[j]
    <3>1. rows \in Seq(SessionRows(k))
      BY <2>6 DEF Types
    <3> QED BY <2>4, <2>5, <3>1
  <2>8. minted' = k /\ dart' = k /\ saved' = k
    BY <1>3, <2>2
  <2>9. pull' \subseteq BOOLEAN /\ signedIn' \in BOOLEAN
    BY <1>3, Known
  <2>10. Types(minted)'
    BY <1>1, <2>2, <2>6, <2>7, <2>8, <2>9 DEF Types
  <2>11. NewRow
    BY <1>3, <2>2, <2>4, <2>7, <2>8 DEF NewRow
  <2> QED BY <1>1, <2>2, <2>8, <2>10, <2>11, TypePartsNext
<1> QED BY <1>2, <1>3 DEF Login, hub

Latest == Len(rows)
Newest == rows[Latest].pair

\* Whatever has happened: no pair opens two sessions; the running app has in
\* memory what it has stored; an ended one has nothing under way; and a refresh
\* that has looked its row up goes on with a row that was good then.
Ordered ==
  /\ \A i, j \in DOMAIN rows : rows[i].pair = rows[j].pair => i = j
  /\ IF alive THEN dart = saved
     ELSE dart = 0 /\ pull = {} /\ events = <<>> /\ ~cold /\ req["dart"] = Quiet
  /\ signedIn => Latest \in DOMAIN rows
  /\ \A x \in Clients : req[x].at = "read" =>
       /\ req[x].row \in DOMAIN rows
       /\ rows[req[x].row].labelled /\ rows[req[x].row].age # "dead"

\* As long as nothing has cost the session: only the latest session can be
\* good, and one refresh is under way at a time, with no event before it.
Calm ==
  /\ ~signedIn => \A i \in DOMAIN rows : rows[i].revoked
  /\ \A i \in DOMAIN rows : Usable(i) => i = Latest
  /\ ~(Refreshing("dart") /\ Refreshing("native"))
  /\ \A x \in Clients : Refreshing(x) => events = <<>>
  /\ ~alive => sent = {}

\* The pair is on its way to the Dart side: the answer of a refresh, or an event.
OnItsWay == events # <<>> \/ \E x \in Clients : req[x].at = "granted"
Travels ==
  OnItsWay =>
    /\ signedIn /\ Usable(Latest) /\ RowOf(saved) = {}
    /\ events # <<>> => events = <<Newest>>
    /\ \A x \in Clients : req[x].at = "granted" => req[x].pair = Newest

\* Only the native side has it: it was refreshed there while the app was ended,
\* and the cold start has not passed the stored pair on yet.
Apart ==
  /\ native = Newest /\ RowOf(saved) = {} /\ pull = {} /\ sent = {} /\ events = <<>>
  /\ alive => /\ cold
              /\ req["dart"].at \in {"calling", "denied", "asked", "refused", "expired"}
              /\ req["dart"].at \in {"calling", "expired"} => req["dart"].pair = saved

Good == signedIn /\ Usable(Latest)
Somewhere ==
  Good =>
    /\ saved # 0
    /\ req["dart"].at = "asked" => req["dart"].pair = saved
    /\ req["dart"].at = "read" => req["dart"].row = Latest
    /\ saved = Newest => req["dart"].at \notin {"refused", "expired"}
    /\ saved = Newest \/ OnItsWay \/ Apart

CauseInv == TypeOK /\ Ordered /\ (causes = {} => Calm /\ Travels /\ Somewhere)

\* A turn, field by field.
LEMMA TurnParts ==
  ASSUME NEW x \in Clients, NEW a, NEW p, NEW r, Turn(x, a, p, r)
  PROVE  /\ req'[x].at = a /\ req'[x].pair = p /\ req'[x].row = r
         /\ \A y \in Clients : y # x => req'[y].at = req[y].at /\ req'[y].pair = req[y].pair /\ req'[y].row = req[y].row
         /\ "dart" # x => req'["dart"] = req["dart"]
BY DEF Turn, Clients

\* A request that is not the app's own does not touch an ended app, and an
\* ended app has no request.
LEMMA OwnTurn ==
  ASSUME TypeOK, Ordered, req["dart"].at # "idle" \/ cold \/ pull # {} \/ events # <<>> \/ dart # 0
  PROVE  alive /\ dart = saved
BY Known, QuietFits DEF Ordered

\* Steps that change only requests.
OnlyRequests ==
  UNCHANGED <<rows, minted, dart, saved, alive, cold, native, pull, sent, events, signedIn>>

\* A call starts only on the side whose pair is at rest.
LEMMA CallKeeps == ASSUME CauseInv, NEW x \in Clients, Call(x) PROVE CauseInv'
<1>1. OnlyRequests /\ causes' = causes /\ req[x].at = "idle" /\ (x = "dart" => alive)
  BY DEF Call, hub, app, bridge, OnlyRequests
<1>2. TypeOK' /\ Turn(x, "calling", Held(x), 0)
  BY CallTurn DEF CauseInv
<1>3. Ordered'
  BY <1>1, <1>2, TurnParts DEF CauseInv, Ordered, OnlyRequests, Latest
<1>4. ASSUME causes' = {} PROVE (Calm /\ Travels /\ Somewhere)'
  <2>1. Calm /\ Travels /\ Somewhere
    BY <1>1, <1>4 DEF CauseInv
  <2>2. Calm'
    BY <1>1, <1>2, <2>1, TurnParts
      DEF Calm, OnlyRequests, Latest, Usable, Refreshing, Clients
  <2>3. Travels'
    BY <1>1, <1>2, <2>1, TurnParts
      DEF Travels, OnItsWay, OnlyRequests, Latest, Newest, Usable, RowOf, Clients
  <2>4. Somewhere'
    BY <1>1, <1>2, <2>1, TurnParts
      DEF Somewhere, Good, Apart, OnItsWay, OnlyRequests, Latest, Newest, Usable,
          RowOf, Clients
  <2> QED BY <2>2, <2>3, <2>4
<1> QED BY <1>2, <1>3, <1>4 DEF CauseInv

\* When only the native side has the pair, the stored one is denied.
LEMMA ServeKeeps == ASSUME CauseInv, NEW x \in Clients, Serve(x) PROVE CauseInv'
<1>1. OnlyRequests /\ causes' = causes /\ req[x].at = "calling"
  BY DEF Serve, hub, app, bridge, OnlyRequests
<1>2. PICK a \in {"idle", "denied"} :
        TypeOK' /\ Turn(x, a, 0, 0) /\ (RowOf(req[x].pair) = {} => a = "denied")
  BY ServeTurn DEF CauseInv, Accepted
<1>3. Ordered'
  <2>1. x = "dart" => alive /\ dart = saved
    BY <1>1, OwnTurn DEF CauseInv
  <2> QED BY <1>1, <1>2, <2>1, TurnParts DEF CauseInv, Ordered, OnlyRequests, Latest
<1>4. ASSUME causes' = {} PROVE (Calm /\ Travels /\ Somewhere)'
  <2>1. Calm /\ Travels /\ Somewhere
    BY <1>1, <1>4 DEF CauseInv
  <2>2. Calm'
    BY <1>1, <1>2, <2>1, TurnParts
      DEF Calm, OnlyRequests, Latest, Usable, Refreshing, Clients
  <2>3. Travels'
    BY <1>1, <1>2, <2>1, TurnParts
      DEF Travels, OnItsWay, OnlyRequests, Latest, Newest, Usable, RowOf, Clients
  <2>4. x = "dart" => alive
    BY <1>1, OwnTurn DEF CauseInv
  <2>5. Somewhere'
    BY <1>1, <1>2, <2>1, <2>4, TurnParts
      DEF Somewhere, Good, Apart, OnItsWay, OnlyRequests, Latest, Newest, Usable,
          RowOf, Clients
  <2> QED BY <2>2, <2>3, <2>5
<1> QED BY <1>2, <1>3, <1>4 DEF CauseInv

\* A refresh that starts while another step is open is a cause.
LEMMA RefreshKeeps == ASSUME CauseInv, NEW x \in Clients, Refresh(x) PROVE CauseInv'
<1>1. OnlyRequests /\ req[x].at = "denied"
  BY DEF Refresh, hub, app, bridge, OnlyRequests
<1>2. x = "dart" => alive /\ dart = saved
  BY <1>1, OwnTurn DEF CauseInv
<1>3. CASE Held(x) = 0
  <2>1. TypeOK' /\ Turn(x, "idle", 0, 0) /\ causes' = causes
    BY <1>3, RefreshTurn DEF CauseInv
  <2>2. Ordered'
    BY <1>1, <1>2, <2>1, TurnParts DEF CauseInv, Ordered, OnlyRequests, Latest
  <2>3. ASSUME causes' = {} PROVE (Calm /\ Travels /\ Somewhere)'
    <3>1. Calm /\ Travels /\ Somewhere
      BY <2>1, <2>3 DEF CauseInv
    <3>2. Calm'
      BY <1>1, <2>1, <3>1, TurnParts
        DEF Calm, OnlyRequests, Latest, Usable, Refreshing, Clients
    <3>3. Travels'
      BY <1>1, <2>1, <3>1, TurnParts
        DEF Travels, OnItsWay, OnlyRequests, Latest, Newest, Usable, RowOf, Clients
    <3>4. Somewhere'
      BY <1>1, <1>2, <1>3, <2>1, <3>1, TurnParts
        DEF Held, Somewhere, Good, Apart, OnItsWay, OnlyRequests, Latest, Newest,
            Usable, RowOf, Clients
    <3> QED BY <3>2, <3>3, <3>4
  <2> QED BY <2>1, <2>2, <2>3 DEF CauseInv
<1>4. CASE Held(x) # 0
  <2>1. /\ TypeOK' /\ Turn(x, "asked", Held(x), 0)
        /\ causes' = IF Settled THEN causes ELSE causes \union {"overlap"}
    BY <1>4, RefreshTurn DEF CauseInv
  <2>2. Ordered'
    BY <1>1, <1>2, <2>1, TurnParts DEF CauseInv, Ordered, OnlyRequests, Latest
  <2>3. ASSUME causes' = {} PROVE (Calm /\ Travels /\ Somewhere)'
    <3>1. Calm /\ Travels /\ Somewhere /\ Settled
      BY <2>1, <2>3 DEF CauseInv
    <3>2. Calm'
      BY <1>1, <2>1, <3>1, TurnParts
        DEF Settled, Calm, OnlyRequests, Latest, Usable, Refreshing, Clients
    <3>3. Travels'
      BY <1>1, <2>1, <3>1, TurnParts
        DEF Travels, OnItsWay, OnlyRequests, Latest, Newest, Usable, RowOf, Clients
    <3>4. Somewhere'
      BY <1>1, <1>2, <2>1, <3>1, TurnParts
        DEF Held, Somewhere, Good, Apart, OnItsWay, OnlyRequests, Latest, Newest,
            Usable, RowOf, Clients
    <3> QED BY <3>2, <3>3, <3>4
  <2> QED BY <2>1, <2>2, <2>3 DEF CauseInv
<1> QED BY <1>3, <1>4

\* A stored pair that is the newest one is not refused.
LEMMA LookupKeeps == ASSUME CauseInv, NEW x \in Clients, Lookup(x) PROVE CauseInv'
<1>1. OnlyRequests /\ causes' = causes /\ req[x].at = "asked"
  BY DEF Lookup, hub, app, bridge, OnlyRequests
<1>2. x = "dart" => alive /\ dart = saved
  BY <1>1, OwnTurn DEF CauseInv
<1>3. ASSUME NEW i \in Refreshable(req[x].pair), TypeOK', Turn(x, "read", req[x].pair, i)
      PROVE  CauseInv'
  <2>1. i \in DOMAIN rows /\ rows[i].pair = req[x].pair /\ Usable(i)
    BY <1>3 DEF Refreshable, RowOf, Usable
  <2>2. Ordered'
    BY <1>1, <1>2, <1>3, <2>1, TurnParts DEF CauseInv, Ordered, OnlyRequests, Latest, Usable
  <2>3. ASSUME causes' = {} PROVE (Calm /\ Travels /\ Somewhere)'
    <3>1. Calm /\ Travels /\ Somewhere
      BY <1>1, <2>3 DEF CauseInv
    <3>2. Calm'
      BY <1>1, <1>3, <3>1, TurnParts
        DEF Calm, OnlyRequests, Latest, Usable, Refreshing, Clients
    <3>3. Travels'
      BY <1>1, <1>3, <3>1, TurnParts
        DEF Travels, OnItsWay, OnlyRequests, Latest, Newest, Usable, RowOf, Clients
    <3>4. i = Latest
      BY <2>1, <3>1 DEF Calm
    <3>5. Somewhere'
      BY <1>1, <1>2, <1>3, <2>1, <3>1, <3>4, TurnParts
        DEF Somewhere, Good, Apart, OnItsWay, OnlyRequests, Latest, Newest, Usable,
            RowOf, Clients
    <3> QED BY <3>2, <3>3, <3>5
  <2> QED BY <1>3, <2>2, <2>3 DEF CauseInv
<1>4. ASSUME Refreshable(req[x].pair) = {}, TypeOK', Turn(x, "refused", req[x].pair, req[x].row)
      PROVE  CauseInv'
  <2>1. Ordered'
    BY <1>1, <1>2, <1>4, TurnParts DEF CauseInv, Ordered, OnlyRequests, Latest
  <2>2. ASSUME causes' = {} PROVE (Calm /\ Travels /\ Somewhere)'
    <3>1. Calm /\ Travels /\ Somewhere
      BY <1>1, <2>2 DEF CauseInv
    <3>2. Calm'
      BY <1>1, <1>4, <3>1, TurnParts
        DEF Calm, OnlyRequests, Latest, Usable, Refreshing, Clients
    <3>3. Travels'
      BY <1>1, <1>4, <3>1, TurnParts
        DEF Travels, OnItsWay, OnlyRequests, Latest, Newest, Usable, RowOf, Clients
    <3>4. Good => Newest # req[x].pair
      BY <1>4 DEF CauseInv, Ordered, Good, Newest, Usable, Refreshable, RowOf
    <3>5. Somewhere'
      BY <1>1, <1>2, <1>4, <3>1, <3>4, TurnParts
        DEF Somewhere, Good, Apart, OnItsWay, OnlyRequests, Latest, Newest, Usable,
            RowOf, Clients
    <3> QED BY <3>2, <3>3, <3>5
  <2> QED BY <1>4, <2>1, <2>2 DEF CauseInv
<1> QED BY <1>3, <1>4, LookupTurn DEF CauseInv

\* The exchange moves the pair from the store, or from the native side, to the answer.
LEMMA RotateKeeps == ASSUME CauseInv, NEW x \in Clients, Rotate(x) PROVE CauseInv'
<1>1. /\ UNCHANGED <<dart, saved, alive, cold, native, pull, sent, events, signedIn,
                     causes>>
      /\ req[x].at = "read"
  BY DEF Rotate, app, bridge
<1>2. x = "dart" => alive /\ dart = saved
  BY <1>1, OwnTurn DEF CauseInv
<1>3. PICK i \in DOMAIN rows : i = req[x].row /\ rows[i].labelled /\ rows[i].age # "dead"
  BY <1>1 DEF CauseInv, Ordered
<1>4. PICK k : k = minted + 1 /\ k # saved /\ \A j \in DOMAIN rows : rows[j].pair # k
  <2>1. \A j \in DOMAIN rows : rows[j].pair \in 1..minted
    <3>1. \A j \in DOMAIN rows : rows[j] \in SessionRows(minted)
      BY Known DEF CauseInv
    <3> QED BY <3>1, Known, RowParts DEF CauseInv
  <2> QED BY <2>1, Known DEF CauseInv
<1>5. CASE Rotatable(i) /\ Renewed(i) /\ Turn(x, "granted", k, i) /\ TypeOK'
  <2>1. /\ DOMAIN rows' = DOMAIN rows /\ Len(rows') = Len(rows)
        /\ \A j \in DOMAIN rows : j # i => rows'[j] = rows[j]
        /\ rows'[i].pair = k /\ rows'[i].age = "fresh"
        /\ rows'[i].labelled = rows[i].labelled /\ rows'[i].revoked = rows[i].revoked
    BY <1>4, <1>5 DEF Renewed
  <2>2. Ordered'
    <3>1. /\ \A h, j \in DOMAIN rows : rows[h].pair = rows[j].pair => h = j
          /\ signedIn => Latest \in DOMAIN rows
      BY DEF CauseInv, Ordered
    <3>2. /\ \A h, j \in DOMAIN rows' : rows'[h].pair = rows'[j].pair => h = j
          /\ signedIn' => Latest' \in DOMAIN rows'
      BY <1>1, <1>4, <2>1, <3>1 DEF Latest
    <3>3. \A y \in Clients : req'[y].at = "read" =>
            /\ req'[y].row \in DOMAIN rows'
            /\ rows'[req'[y].row].labelled /\ rows'[req'[y].row].age # "dead"
      <4> SUFFICES ASSUME NEW y \in Clients, req'[y].at = "read"
                   PROVE  /\ req'[y].row \in DOMAIN rows'
                          /\ rows'[req'[y].row].labelled /\ rows'[req'[y].row].age # "dead"
        OBVIOUS
      <4>1. req[y].at = "read" /\ req'[y].row = req[y].row
        BY <1>5, TurnParts
      <4>2. PICK j \in DOMAIN rows : j = req[y].row /\ rows[j].labelled /\ rows[j].age # "dead"
        BY <4>1 DEF CauseInv, Ordered
      <4>3. j \in DOMAIN rows' /\ rows'[j].labelled /\ rows'[j].age # "dead"
        BY <2>1, <4>2
      <4> QED BY <4>1, <4>2, <4>3
    <3> QED BY <1>1, <1>2, <1>5, <3>2, <3>3, TurnParts DEF CauseInv, Ordered
  <2>3. ASSUME causes' = {} PROVE (Calm /\ Travels /\ Somewhere)'
    <3>1. Calm /\ Travels /\ Somewhere
      BY <1>1, <2>3 DEF CauseInv
    <3>2. Usable(i) /\ i = Latest /\ signedIn /\ Good
      BY <1>3, <1>5, <3>1 DEF Rotatable, Usable, Calm, Good
    <3>3. /\ events = <<>> /\ ~OnItsWay
          /\ \A y \in Clients : y # x => ~Refreshing(y)
      BY <1>1, <3>1 DEF Calm, OnItsWay, Refreshing, Clients
    <3>4. saved = Newest \/ RowOf(saved) = {}
      BY <3>1, <3>2, <3>3 DEF Somewhere, Apart
    <3>5. RowOf(saved)' = {}
      BY <1>1, <1>3, <1>4, <2>1, <3>2, <3>4 DEF RowOf, Newest, CauseInv, Ordered
    <3>6. Usable(Latest)' /\ Newest' = k
      BY <1>3, <2>1, <3>2 DEF Usable, Latest, Newest
    <3>7. Calm'
      BY <1>1, <1>3, <1>5, <2>1, <3>1, <3>2, <3>3, TurnParts
        DEF Calm, Latest, Usable, Refreshing, Clients
    <3>8. Travels'
      BY <1>1, <1>5, <3>2, <3>3, <3>5, <3>6, TurnParts
        DEF Travels, OnItsWay, Refreshing, Clients
    <3>9. Somewhere'
      BY <1>1, <1>4, <1>5, <3>1, <3>2, <3>3, <3>6, TurnParts
        DEF Somewhere, OnItsWay, Refreshing, Clients
    <3> QED BY <3>7, <3>8, <3>9
  <2> QED BY <1>5, <2>2, <2>3 DEF CauseInv
<1>6. CASE ~Rotatable(i) /\ Turn(x, "refused", req[x].pair, i) /\ UNCHANGED <<rows, minted>> /\ TypeOK'
  <2>1. Ordered'
    BY <1>1, <1>2, <1>6, TurnParts DEF CauseInv, Ordered, Latest
  <2>2. ASSUME causes' = {} PROVE (Calm /\ Travels /\ Somewhere)'
    <3>1. Calm /\ Travels /\ Somewhere
      BY <1>1, <2>2 DEF CauseInv
    <3>2. Calm'
      BY <1>1, <1>6, <3>1, TurnParts
        DEF Calm, OnlyRequests, Latest, Usable, Refreshing, Clients
    <3>3. Travels'
      BY <1>1, <1>6, <3>1, TurnParts
        DEF Travels, OnItsWay, OnlyRequests, Latest, Newest, Usable, RowOf, Clients
    <3>4. Good => x # "dart"
      BY <1>1, <1>3, <1>6, <3>1 DEF Somewhere, Good, Usable, Rotatable
    <3>5. Somewhere'
      BY <1>1, <1>6, <3>1, <3>4, TurnParts
        DEF Somewhere, Good, Apart, OnItsWay, OnlyRequests, Latest, Newest, Usable,
            RowOf, Clients
    <3> QED BY <3>2, <3>3, <3>5
  <2> QED BY <1>6, <2>1, <2>2 DEF CauseInv
<1> QED BY <1>3, <1>4, <1>5, <1>6, RotateTurn DEF CauseInv

\* A loss is a cause.
LEMMA LoseKeeps == ASSUME CauseInv, NEW x \in Clients, Lose(x) PROVE CauseInv'
<1>1. OnlyRequests /\ req[x].at \in {"asked", "granted"}
  BY DEF Lose, hub, app, bridge, OnlyRequests
<1>2. x = "dart" => alive /\ dart = saved
  BY <1>1, OwnTurn DEF CauseInv
<1>3. PICK a \in {"expired", "idle"} : TypeOK' /\ causes' # {} /\ \E p : Turn(x, a, p, 0)
  BY LoseBlamed DEF CauseInv
<1>4. Ordered'
  BY <1>1, <1>2, <1>3, TurnParts DEF CauseInv, Ordered, OnlyRequests, Latest
<1> QED BY <1>3, <1>4 DEF CauseInv

\* The native side gives up.
LEMMA NativeRefusedKeeps == ASSUME CauseInv, NativeRefused PROVE CauseInv'
<1>1. OnlyRequests /\ causes' = causes /\ req["native"].at = "refused"
  BY DEF NativeRefused, hub, app, bridge, OnlyRequests
<1>2. TypeOK' /\ Turn("native", "idle", 0, 0) /\ "native" \in Clients
  BY NativeRefusedTurn DEF CauseInv, Clients
<1>3. Ordered'
  BY <1>1, <1>2, TurnParts DEF CauseInv, Ordered, OnlyRequests, Latest
<1>4. ASSUME causes' = {} PROVE (Calm /\ Travels /\ Somewhere)'
  <2>1. Calm /\ Travels /\ Somewhere
    BY <1>1, <1>4 DEF CauseInv
  <2>2. Calm'
    BY <1>1, <1>2, <2>1, TurnParts
      DEF Calm, OnlyRequests, Latest, Usable, Refreshing, Clients
  <2>3. Travels'
    BY <1>1, <1>2, <2>1, TurnParts
      DEF Travels, OnItsWay, OnlyRequests, Latest, Newest, Usable, RowOf, Clients
  <2>4. Somewhere'
    BY <1>1, <1>2, <2>1, TurnParts
      DEF Somewhere, Good, Apart, OnItsWay, OnlyRequests, Latest, Newest, Usable,
          RowOf, Clients
  <2> QED BY <2>2, <2>3, <2>4
<1> QED BY <1>2, <1>3, <1>4 DEF CauseInv

\* The Dart side is refused only when it does not hold the newest pair.
LEMMA DartRefusedKeeps == ASSUME CauseInv, DartRefused PROVE CauseInv'
<1>1. OnlyRequests /\ causes' = causes /\ req["dart"].at = "refused"
  BY DEF DartRefused, hub, app, bridge, OnlyRequests
<1>2. alive /\ dart = saved
  BY <1>1, OwnTurn DEF CauseInv
<1>3. TypeOK' /\ Turn("dart", "expired", dart, 0) /\ "dart" \in Clients
  BY DartRefusedTurn DEF CauseInv, Clients
<1>4. Ordered'
  BY <1>1, <1>2, <1>3, TurnParts DEF CauseInv, Ordered, OnlyRequests, Latest
<1>5. ASSUME causes' = {} PROVE (Calm /\ Travels /\ Somewhere)'
  <2>1. Calm /\ Travels /\ Somewhere
    BY <1>1, <1>5 DEF CauseInv
  <2>2. Calm'
    BY <1>1, <1>3, <2>1, TurnParts
      DEF Calm, OnlyRequests, Latest, Usable, Refreshing, Clients
  <2>3. Travels'
    BY <1>1, <1>3, <2>1, TurnParts
      DEF Travels, OnItsWay, OnlyRequests, Latest, Newest, Usable, RowOf, Clients
  <2>4. Somewhere'
    BY <1>1, <1>2, <1>3, <2>1, TurnParts
      DEF Somewhere, Good, Apart, OnItsWay, OnlyRequests, Latest, Newest, Usable,
          RowOf, Clients
  <2> QED BY <2>2, <2>3, <2>4
<1> QED BY <1>3, <1>4, <1>5 DEF CauseInv

\* An untried start is a cause.
LEMMA OfflineKeeps == ASSUME CauseInv, OfflineStart PROVE CauseInv'
<1>1. OnlyRequests /\ cold
  BY DEF OfflineStart, hub, app, bridge, OnlyRequests
<1>2. alive /\ dart = saved
  BY <1>1, OwnTurn DEF CauseInv
<1>3. TypeOK' /\ causes' # {} /\ Turn("dart", "idle", 0, 0) /\ "dart" \in Clients
  BY OfflineBlamed DEF CauseInv, Clients
<1>4. Ordered'
  BY <1>1, <1>2, <1>3, TurnParts DEF CauseInv, Ordered, OnlyRequests, Latest
<1> QED BY <1>3, <1>4 DEF CauseInv

\* The pair of the latest session is a pair.
LEMMA NewestIsPair == ASSUME TypeOK, Latest \in DOMAIN rows PROVE Newest \in 1..minted
<1>1. rows[Latest] \in SessionRows(minted)
  BY Known
<1> QED BY <1>1, Known, RowParts DEF Newest

\* The answer reaches the store.
LEMMA DartRefreshedKeeps == ASSUME CauseInv, DartRefreshed PROVE CauseInv'
<1>1. /\ UNCHANGED <<rows, minted, alive, cold, native, sent, events, signedIn, causes>>
      /\ req["dart"].at = "granted" /\ "dart" \in Clients
  BY DEF DartRefreshed, hub, Clients
<1>2. alive /\ dart = saved
  BY <1>1, OwnTurn DEF CauseInv
<1>3. /\ TypeOK' /\ Turn("dart", "idle", 0, 0)
      /\ IF dart = 0 THEN UNCHANGED <<dart, saved, pull>>
         ELSE dart' = req["dart"].pair /\ saved' = req["dart"].pair
  BY DartRefreshedTurn DEF CauseInv
<1>4. Ordered'
  BY <1>1, <1>2, <1>3, TurnParts DEF CauseInv, Ordered, Latest
<1>5. ASSUME causes' = {} PROVE (Calm /\ Travels /\ Somewhere)'
  <2>1. Calm /\ Travels /\ Somewhere
    BY <1>1, <1>5 DEF CauseInv
  <2>2. /\ OnItsWay /\ Good /\ req["dart"].pair = Newest /\ saved # 0
        /\ events = <<>> /\ ~Refreshing("native")
    BY <1>1, <2>1 DEF OnItsWay, Travels, Good, Calm, Refreshing, Somewhere
  <2>3. Newest # 0 /\ Newest' = Newest
    BY <1>1, <2>2, NewestIsPair, Known DEF CauseInv, Ordered, Good, Newest, Latest
  <2>4. saved' = Newest' /\ saved' # 0
    BY <1>2, <1>3, <2>2, <2>3
  <2>5. ~OnItsWay'
    BY <1>1, <1>3, <2>2, TurnParts DEF OnItsWay, Refreshing, Clients
  <2>6. Calm'
    BY <1>1, <1>3, <2>1, <2>2, TurnParts DEF Calm, Latest, Usable, Refreshing, Clients
  <2>7. Somewhere'
    BY <1>1, <1>3, <2>4, TurnParts DEF Somewhere
  <2> QED BY <2>5, <2>6, <2>7 DEF Travels
<1> QED BY <1>3, <1>4, <1>5 DEF CauseInv

\* The answer goes to the app as an event or, when the app has ended, stays apart.
LEMMA NativeRefreshedKeeps == ASSUME CauseInv, NativeRefreshed PROVE CauseInv'
<1>1. /\ UNCHANGED <<rows, minted, dart, saved, alive, cold, pull, sent, signedIn, causes>>
      /\ req["native"].at = "granted" /\ "native" \in Clients
  BY DEF NativeRefreshed, hub, app, Clients
<1>2. /\ TypeOK' /\ Turn("native", "idle", 0, 0) /\ native' = req["native"].pair
      /\ events' = IF alive THEN Append(events, req["native"].pair) ELSE events
  BY NativeRefreshedTurn DEF CauseInv
<1>3. Ordered'
  BY <1>1, <1>2, TurnParts DEF CauseInv, Ordered, Latest
<1>4. ASSUME causes' = {} PROVE (Calm /\ Travels /\ Somewhere)'
  <2>1. Calm /\ Travels /\ Somewhere
    BY <1>1, <1>4 DEF CauseInv
  <2>2. /\ OnItsWay /\ Good /\ req["native"].pair = Newest /\ RowOf(saved) = {}
        /\ events = <<>> /\ ~Refreshing("dart") /\ saved # 0
    BY <1>1, <2>1 DEF OnItsWay, Travels, Good, Calm, Refreshing, Somewhere
  <2>3. Newest' = Newest /\ RowOf(saved)' = {} /\ Usable(Latest)' /\ signedIn'
    BY <1>1, <2>2 DEF Newest, Latest, RowOf, Good, Usable
  <2>4. /\ ~Refreshing("dart")' /\ ~Refreshing("native")' /\ req'["dart"] = req["dart"]
        /\ \A x \in Clients : req'[x].at # "granted"
    BY <1>2, <2>2, TurnParts DEF Refreshing, Clients
  <2>5. Calm'
    BY <1>1, <1>2, <2>1, <2>4 DEF Calm, Latest, Usable, Clients
  <2>6. CASE alive
    <3>1. events' = <<Newest>>
      BY <1>2, <2>2, <2>6
    <3>2. Travels'
      BY <2>3, <2>4, <3>1 DEF Travels
    <3>3. Somewhere'
      BY <1>1, <2>2, <2>3, <2>4, <3>1 DEF Somewhere, OnItsWay, Refreshing
    <3> QED BY <2>5, <3>2, <3>3
  <2>7. CASE ~alive
    <3>1. events' = <<>> /\ pull = {} /\ sent = {}
      BY <1>2, <2>1, <2>2, <2>7 DEF Calm, CauseInv, Ordered
    <3>2. Travels'
      BY <2>4, <3>1 DEF Travels, OnItsWay
    <3>3. Apart'
      BY <1>1, <1>2, <2>2, <2>3, <2>7, <3>1 DEF Apart
    <3>4. Somewhere'
      BY <1>1, <2>2, <2>3, <2>4, <3>3 DEF Somewhere, Refreshing
    <3> QED BY <2>5, <3>2, <3>4
  <2> QED BY <2>6, <2>7
<1> QED BY <1>2, <1>3, <1>4 DEF CauseInv

\* An expired app that is apart finds the pair at the native side.
LEMMA HandleExpiredKeeps == ASSUME CauseInv, HandleExpired PROVE CauseInv'
<1>1. /\ UNCHANGED <<rows, minted, alive, cold, native, pull, sent, events, signedIn,
                     causes>>
      /\ req["dart"].at = "expired" /\ "dart" \in Clients
  BY DEF HandleExpired, hub, bridge, Clients
<1>2. alive /\ dart = saved
  BY <1>1, OwnTurn DEF CauseInv
<1>3. /\ TypeOK' /\ Turn("dart", "idle", 0, 0)
      /\ IF Differs(req["dart"].pair)
         THEN IF dart # 0 /\ native # 0 THEN dart' = native /\ saved' = native
              ELSE UNCHANGED <<dart, saved>>
         ELSE dart' = 0 /\ saved' = 0
  BY HandleExpiredTurn DEF CauseInv
<1>4. Ordered'
  BY <1>1, <1>2, <1>3, TurnParts DEF CauseInv, Ordered, Latest
<1>5. ASSUME causes' = {} PROVE (Calm /\ Travels /\ Somewhere)'
  <2>1. Calm /\ Travels /\ Somewhere
    BY <1>1, <1>5 DEF CauseInv
  <2>2. events = <<>> /\ ~Refreshing("native") /\ ~OnItsWay /\ ~OnItsWay'
    BY <1>1, <1>3, <2>1, TurnParts DEF Calm, Refreshing, OnItsWay, Clients
  <2>3. Calm'
    BY <1>1, <1>3, <2>1, <2>2, TurnParts DEF Calm, Latest, Usable, Refreshing, Clients
  <2>4. ASSUME Good' PROVE saved' = Newest' /\ saved' # 0
    <3>1. Good /\ Newest' = Newest
      BY <1>1, <2>4 DEF Good, Usable, Latest, Newest
    <3>2. Apart /\ saved # 0
      BY <1>1, <2>1, <2>2, <3>1 DEF Somewhere
    <3>3. native = Newest /\ Newest # 0 /\ req["dart"].pair = saved
      BY <1>1, <1>2, <3>1, <3>2, NewestIsPair, Known DEF Apart, CauseInv, Ordered, Good
    <3>4. Newest # saved
      BY <3>1, <3>2 DEF Apart, Newest, RowOf, CauseInv, Ordered, Good
    <3> QED BY <1>2, <1>3, <3>1, <3>2, <3>3, <3>4 DEF Differs
  <2>5. Somewhere'
    BY <1>1, <1>3, <2>4, TurnParts DEF Somewhere
  <2> QED BY <2>2, <2>3, <2>5 DEF Travels
<1> QED BY <1>3, <1>4, <1>5 DEF CauseInv

\* Steps of the bridge that leave the app's pair and its requests alone.
LEMMA BridgeKeeps ==
  ASSUME CauseInv, TypeOK', ~Apart,
         UNCHANGED <<rows, minted, dart, saved, alive, cold, req, events, signedIn, causes>>,
         alive \/ (pull' = pull /\ sent' \subseteq sent)
  PROVE  CauseInv'
<1>1. Ordered'
  BY DEF CauseInv, Ordered, Latest
<1>2. ASSUME causes' = {} PROVE (Calm /\ Travels /\ Somewhere)'
  <2>1. Calm /\ Travels /\ Somewhere
    BY <1>2 DEF CauseInv
  <2>2. Calm'
    BY <2>1 DEF Calm, Latest, Usable, Refreshing, Clients
  <2>3. Travels'
    BY <2>1 DEF Travels, OnItsWay, Latest, Newest, Usable, RowOf, Clients
  <2>4. Somewhere'
    BY <2>1 DEF Somewhere, Good, OnItsWay, Latest, Newest, Usable, Clients
  <2> QED BY <2>2, <2>3, <2>4
<1> QED BY <1>1, <1>2 DEF CauseInv

\* A configure call is prepared.
LEMMA PushReadKeeps == ASSUME CauseInv, NEW start \in BOOLEAN, PushRead(start) PROVE CauseInv'
<1>1. TypeOK' /\ pull # {} /\ alive
  BY PushReadEffect DEF CauseInv
<1>2. UNCHANGED <<rows, minted, dart, saved, alive, cold, req, events, signedIn, causes>>
  BY DEF PushRead, hub, app
<1>3. ~Apart
  BY <1>1 DEF Apart
<1> QED BY <1>1, <1>2, <1>3, BridgeKeeps

\* The stored pair was just accepted, so it is not apart.
LEMMA PushSettingsKeeps == ASSUME CauseInv, PushSettings PROVE CauseInv'
<1>1. TypeOK'
  BY PushSettingsEffect DEF CauseInv
<1>2. /\ UNCHANGED <<rows, minted, dart, saved, alive, cold, req, events, signedIn, causes>>
      /\ alive /\ Accepted(dart) # {}
  BY DEF PushSettings, hub, app
<1>3. ~Apart
  BY <1>2 DEF Apart, Accepted, RowOf, CauseInv, Ordered
<1> QED BY <1>1, <1>2, <1>3, BridgeKeeps

\* A configure call arrives: nothing is apart while one is under way.
LEMMA ConfigureKeeps == ASSUME CauseInv, NEW m \in sent, Configure(m) PROVE CauseInv'
<1>1. TypeOK' /\ sent' \subseteq sent
  BY ConfigureEffect DEF CauseInv
<1>2. UNCHANGED <<rows, minted, dart, saved, alive, cold, req, pull, events, signedIn,
                  causes>>
  BY DEF Configure, hub, app
<1>3. ~Apart
  BY DEF Apart
<1> QED BY <1>1, <1>2, <1>3, BridgeKeeps

\* The event carries the newest pair to the store.
LEMMA SessionEventKeeps == ASSUME CauseInv, SessionEvent PROVE CauseInv'
<1>1. /\ UNCHANGED <<rows, minted, alive, cold, native, req, pull, sent, signedIn, causes>>
      /\ alive /\ events # <<>>
  BY DEF SessionEvent, hub
<1>2. /\ TypeOK' /\ events' = Tail(events)
      /\ IF dart # 0 /\ Head(events) # 0 THEN dart' = Head(events) /\ saved' = Head(events)
         ELSE UNCHANGED <<dart, saved>>
  BY SessionEventEffect DEF CauseInv
<1>3. dart = saved
  BY <1>1 DEF CauseInv, Ordered
<1>4. Ordered'
  BY <1>1, <1>2, <1>3 DEF CauseInv, Ordered, Latest
<1>5. ASSUME causes' = {} PROVE (Calm /\ Travels /\ Somewhere)'
  <2>1. Calm /\ Travels /\ Somewhere
    BY <1>1, <1>5 DEF CauseInv
  <2>2. /\ Good /\ events = <<Newest>> /\ saved # 0
        /\ \A x \in Clients : ~Refreshing(x)
    BY <1>1, <2>1 DEF OnItsWay, Travels, Good, Calm, Somewhere
  <2>3. Newest # 0 /\ Newest' = Newest
    BY <1>1, <2>2, NewestIsPair, Known DEF CauseInv, Ordered, Good, Newest, Latest
  <2>4. saved' = Newest /\ events' = <<>>
    BY <1>2, <1>3, <2>2, <2>3
  <2>5. Travels'
    BY <1>1, <2>2, <2>4 DEF Travels, OnItsWay, Refreshing
  <2>6. Calm'
    BY <1>1, <2>1, <2>4 DEF Calm, Latest, Usable, Refreshing
  <2>7. Somewhere'
    BY <1>1, <2>2, <2>3, <2>4 DEF Somewhere, Refreshing, Clients
  <2> QED BY <2>5, <2>6, <2>7
<1> QED BY <1>2, <1>4, <1>5 DEF CauseInv

\* The app ends: a cause, unless nothing is under way.
LEMMA KillKeeps == ASSUME CauseInv, Kill PROVE CauseInv'
<1>1. /\ UNCHANGED <<rows, minted, saved, native, sent, signedIn>>
      /\ alive' = FALSE /\ cold' = FALSE /\ dart' = 0 /\ pull' = {} /\ events' = <<>>
      /\ req' = [req EXCEPT !["dart"] = Quiet] /\ "dart" \in Clients /\ req \in [Clients -> Reqs(minted)]
  BY Known DEF Kill, hub, Clients, CauseInv
<1>2. /\ TypeOK' /\ Turn("dart", "idle", 0, 0)
      /\ causes' = IF Settled THEN causes ELSE causes \union {"killed"}
  BY KillTurn DEF CauseInv
<1>3. Ordered'
  BY <1>1, <1>2, TurnParts DEF CauseInv, Ordered, Latest
<1>4. ASSUME causes' = {} PROVE (Calm /\ Travels /\ Somewhere)'
  <2>1. Calm /\ Travels /\ Somewhere /\ Settled
    BY <1>2, <1>4 DEF CauseInv
  <2>2. ~OnItsWay /\ ~OnItsWay' /\ \A x \in Clients : ~Refreshing(x)'
    BY <1>1, <1>2, <2>1, TurnParts DEF Settled, OnItsWay, Refreshing, Clients
  <2>3. Calm'
    BY <1>1, <2>1, <2>2 DEF Calm, Settled, Latest, Usable, Clients
  <2>4. Somewhere'
    BY <1>1, <2>1, <2>2
      DEF Somewhere, Good, Settled, Apart, RowOf, Refreshing, Latest, Newest, Usable
  <2> QED BY <2>2, <2>3, <2>4 DEF Travels
<1> QED BY <1>2, <1>3, <1>4 DEF CauseInv

\* The stored pair is tried before it is passed on.
LEMMA ColdStartKeeps == ASSUME CauseInv, ColdStart PROVE CauseInv'
<1>1. /\ UNCHANGED <<rows, minted, saved, native, pull, sent, events, signedIn, causes>>
      /\ ~alive /\ alive' = TRUE /\ cold' = (saved # 0) /\ dart' = saved /\ "dart" \in Clients
  BY DEF ColdStart, hub, bridge, Clients
<1>2. TypeOK' /\ (saved = 0 => req' = req) /\ (saved # 0 => Turn("dart", "calling", saved, 0))
  BY ColdStartTurn DEF CauseInv
<1>3. req["dart"].at = "idle"
  BY <1>1, QuietFits DEF CauseInv, Ordered
<1>4. /\ req'["dart"].at \in {"idle", "calling"}
      /\ saved # 0 => req'["dart"].at = "calling" /\ req'["dart"].pair = saved
      /\ req'["native"] = req["native"]
  <2>1. CASE saved = 0
    BY <1>2, <1>3, <2>1
  <2>2. CASE saved # 0
    BY <1>1, <1>2, <2>2, TurnParts DEF Turn, Clients
  <2> QED BY <2>1, <2>2
<1>5. Ordered'
  BY <1>1, <1>4 DEF CauseInv, Ordered, Latest, Clients
<1>6. ASSUME causes' = {} PROVE (Calm /\ Travels /\ Somewhere)'
  <2>1. Calm /\ Travels /\ Somewhere
    BY <1>1, <1>6 DEF CauseInv
  <2>2. Calm'
    BY <1>1, <1>3, <1>4, <2>1 DEF Calm, Latest, Usable, Refreshing, Clients
  <2>3. OnItsWay' = OnItsWay
    BY <1>1, <1>3, <1>4 DEF OnItsWay, Clients
  <2>4. Travels'
    BY <1>1, <1>3, <1>4, <2>1, <2>3 DEF Travels, Latest, Newest, Usable, RowOf, Clients
  <2>5. Somewhere'
    BY <1>1, <1>4, <2>1, <2>3 DEF Somewhere, Good, Apart, RowOf, Latest, Newest, Usable
  <2> QED BY <2>2, <2>4, <2>5
<1> QED BY <1>2, <1>5, <1>6 DEF CauseInv

\* The stored pair was accepted, or the app has none.
LEMMA AfterAuthKeeps == ASSUME CauseInv, AfterAuth PROVE CauseInv'
<1>1. /\ UNCHANGED <<rows, minted, dart, saved, alive, native, req, sent, events, signedIn,
                     causes>>
      /\ cold /\ cold' = FALSE /\ req["dart"].at = "idle"
  BY DEF AfterAuth, hub
<1>2. TypeOK'
  BY AfterAuthEffect DEF CauseInv
<1>3. alive /\ dart = saved
  BY <1>1, OwnTurn DEF CauseInv
<1>4. Ordered'
  BY <1>1, <1>3 DEF CauseInv, Ordered, Latest
<1>5. ASSUME causes' = {} PROVE (Calm /\ Travels /\ Somewhere)'
  <2>1. Calm /\ Travels /\ Somewhere
    BY <1>1, <1>5 DEF CauseInv
  <2>2. Calm'
    BY <1>1, <2>1 DEF Calm, Latest, Usable, Refreshing
  <2>3. Travels'
    BY <1>1, <2>1 DEF Travels, OnItsWay, Latest, Newest, Usable, RowOf
  <2>4. Somewhere'
    BY <1>1, <1>3, <2>1 DEF Somewhere, Good, Apart, OnItsWay, Latest, Newest, Usable
  <2> QED BY <2>2, <2>3, <2>4
<1> QED BY <1>2, <1>4, <1>5 DEF CauseInv

\* A login is possible only when no session is good any more.
LEMMA LoginKeeps == ASSUME CauseInv, Login PROVE CauseInv'
<1>1. /\ TypeOK' /\ UNCHANGED <<alive, cold, native, req, sent, events, causes>>
      /\ alive /\ dart = 0 /\ req["dart"].at = "idle" /\ saved = 0
  BY LoginEffect DEF Login, CauseInv, Ordered
<1>2. CASE UNCHANGED <<rows, minted, dart, saved, pull, signedIn>>
  <2>1. Ordered'
    BY <1>1, <1>2 DEF CauseInv, Ordered, Latest
  <2>2. ASSUME causes' = {} PROVE (Calm /\ Travels /\ Somewhere)'
    <3>1. Calm /\ Travels /\ Somewhere
      BY <1>1, <2>2 DEF CauseInv
    <3>2. Calm'
      BY <1>1, <1>2, <3>1 DEF Calm, Latest, Usable, Refreshing
    <3>3. Travels'
      BY <1>1, <1>2, <3>1 DEF Travels, OnItsWay, Latest, Newest, Usable, RowOf
    <3>4. Somewhere'
      BY <1>1, <1>2, <3>1 DEF Somewhere, Good, Latest, Usable
    <3> QED BY <3>2, <3>3, <3>4
  <2> QED BY <1>1, <2>1, <2>2 DEF CauseInv
<1>3. CASE NewRow
  <2>1. PICK k \in Nat, n \in Nat \ {0} : k = minted + 1 /\ n = Len(rows) + 1 /\ k # 0
    <3>1. Len(rows) \in Nat /\ minted \in Nat
      BY Known DEF CauseInv
    <3> QED BY <3>1
  <2>2. /\ saved' = k /\ dart' = k /\ signedIn' = TRUE
        /\ Latest' = n /\ DOMAIN rows' = 1..n /\ rows'[n].pair = k
        /\ \A j \in DOMAIN rows : j \in DOMAIN rows' /\ j # n /\ rows'[j] = rows[j]
    BY <1>3, <2>1 DEF NewRow, Latest
  <2>3. \A j \in DOMAIN rows : rows[j].pair # k
    <3>1. \A j \in DOMAIN rows : rows[j] \in SessionRows(minted)
      BY Known DEF CauseInv
    <3>2. \A j \in DOMAIN rows : rows[j].pair \in 1..minted
      BY <3>1, Known, RowParts DEF CauseInv
    <3> QED BY <2>1, <3>2, Known DEF CauseInv
  <2>4. \A j \in DOMAIN rows' : j # n => j \in DOMAIN rows
    <3>1. DOMAIN rows = 1..Len(rows) /\ Len(rows) \in Nat
      BY Known DEF CauseInv
    <3> QED BY <2>1, <2>2, <3>1
  <2>5. Ordered'
    <3>1. \A i, j \in DOMAIN rows' : rows'[i].pair = rows'[j].pair => i = j
      BY <2>2, <2>3, <2>4 DEF CauseInv, Ordered
    <3>2. Latest' \in DOMAIN rows'
      BY <2>1, <2>2
    <3>3. \A x \in Clients : req'[x].at = "read" =>
            /\ req'[x].row \in DOMAIN rows'
            /\ rows'[req'[x].row].labelled /\ rows'[req'[x].row].age # "dead"
      BY <1>1, <2>2 DEF CauseInv, Ordered
    <3> QED BY <1>1, <2>2, <3>1, <3>2, <3>3 DEF Ordered
  <2>6. ASSUME causes' = {} PROVE (Calm /\ Travels /\ Somewhere)'
    <3>1. Calm /\ Travels /\ Somewhere
      BY <1>1, <2>6 DEF CauseInv
    <3>2. ~Good /\ ~OnItsWay
      BY <1>1, <3>1 DEF Somewhere, Good, Travels
    <3>3. \A i \in DOMAIN rows : ~Usable(i)
      BY <3>1, <3>2 DEF Calm, Good, Usable
    <3>4. \A i \in DOMAIN rows' : Usable(i)' => i = n
      BY <2>2, <2>4, <3>3 DEF Usable
    <3>5. ~OnItsWay'
      BY <1>1, <3>2 DEF OnItsWay
    <3>6. Calm'
      BY <1>1, <2>2, <3>1, <3>4 DEF Calm, Refreshing
    <3>7. Newest' = k
      BY <2>2 DEF Newest
    <3>8. Somewhere'
      BY <1>1, <2>1, <2>2, <3>7 DEF Somewhere
    <3> QED BY <3>5, <3>6, <3>8 DEF Travels
  <2> QED BY <1>1, <2>5, <2>6 DEF CauseInv
<1> QED BY <1>2, <1>3, LoginEffect DEF CauseInv

\* Time passes only when nothing is under way.
LEMMA ExpireKeeps == ASSUME CauseInv, NEW i \in DOMAIN rows, Expire(i) PROVE CauseInv'
<1>1. /\ UNCHANGED <<minted, dart, saved, alive, cold, native, req, pull, sent, events,
                     signedIn, causes>>
      /\ req = [x \in Clients |-> Quiet] /\ events = <<>>
  BY DEF Expire, app, bridge
<1>2. /\ TypeOK' /\ Len(rows') = Len(rows) /\ DOMAIN rows' = DOMAIN rows
      /\ \A j \in DOMAIN rows : /\ rows'[j].pair = rows[j].pair /\ rows'[j].labelled = rows[j].labelled
                                /\ rows'[j].revoked = rows[j].revoked
                                /\ rows[j].age = "dead" => rows'[j].age = "dead"
  BY ExpireEffect DEF CauseInv, SameRows
<1>3. \A x \in Clients : req[x].at = "idle"
  BY <1>1, QuietFits
<1>4. Ordered'
  BY <1>1, <1>2, <1>3 DEF CauseInv, Ordered, Latest
<1>5. ASSUME causes' = {} PROVE (Calm /\ Travels /\ Somewhere)'
  <2>1. Calm /\ Travels /\ Somewhere
    BY <1>1, <1>5 DEF CauseInv
  <2>2. \A j \in DOMAIN rows : Usable(j)' => Usable(j)
    BY <1>2 DEF Usable
  <2>3. Latest' = Latest /\ RowOf(saved)' = RowOf(saved) /\ (Latest \in DOMAIN rows => Newest' = Newest)
    BY <1>1, <1>2 DEF Latest, RowOf, Newest
  <2>4. ~OnItsWay /\ ~OnItsWay'
    BY <1>1, <1>3 DEF OnItsWay
  <2>5. Calm'
    BY <1>1, <1>2, <1>3, <2>1, <2>2, <2>3 DEF Calm, Refreshing, Clients
  <2>6. ASSUME Good' PROVE Good /\ Newest' = Newest
    BY <1>1, <2>2, <2>3, <2>6 DEF Good, CauseInv, Ordered
  <2>7. Somewhere'
    BY <1>1, <2>1, <2>3, <2>4, <2>6 DEF Somewhere, Apart
  <2> QED BY <2>4, <2>5, <2>7 DEF Travels
<1> QED BY <1>2, <1>4, <1>5 DEF CauseInv

\* A logout that leaves a session open is a cause; so is one while a pair is on its
\* way.
LEMMA LogoutKeeps == ASSUME CauseInv, Logout PROVE CauseInv'
<1>1. /\ UNCHANGED <<minted, alive, cold, native, req, pull, sent, events>>
      /\ signedIn' = FALSE /\ dart' = 0 /\ saved' = 0 /\ alive /\ dart # 0
      /\ causes \subseteq causes'
  BY DEF Logout, ClearLocal, bridge, Blame
<1>2. /\ TypeOK' /\ Len(rows') = Len(rows) /\ DOMAIN rows' = DOMAIN rows
      /\ \A j \in DOMAIN rows : /\ rows'[j].pair = rows[j].pair /\ rows'[j].labelled = rows[j].labelled
                                /\ rows'[j].age = rows[j].age
      /\ Accepted(dart) = {} => \A j \in DOMAIN rows : rows'[j].revoked = rows[j].revoked
      /\ causes' = {} => \A j \in DOMAIN rows : rows'[j].revoked
  BY LogoutEffect DEF CauseInv, SameRows
<1>3. dart = saved
  BY <1>1 DEF CauseInv, Ordered
<1>4. Ordered'
  BY <1>1, <1>2 DEF CauseInv, Ordered, Latest
<1>5. ASSUME causes' = {} PROVE (Calm /\ Travels /\ Somewhere)'
  <2>1. Calm /\ Travels /\ Somewhere
    BY <1>1, <1>5 DEF CauseInv
  <2>2. \A j \in DOMAIN rows : rows'[j].revoked
    BY <1>2, <1>5
  <2>3. ~OnItsWay
    <3>1. SUFFICES ASSUME OnItsWay PROVE FALSE
      OBVIOUS
    <3>2. Good /\ RowOf(saved) = {} /\ Latest \in DOMAIN rows
      BY <2>1, <3>1 DEF Travels, Good, CauseInv, Ordered
    <3>3. Accepted(dart) = {}
      BY <1>3, <3>2 DEF Accepted
    <3> QED BY <1>2, <2>2, <3>2, <3>3 DEF Good, Usable
  <2>4. ~OnItsWay'
    BY <1>1, <2>3 DEF OnItsWay
  <2>5. Calm'
    BY <1>1, <1>2, <2>1, <2>2 DEF Calm, Usable, Refreshing
  <2> QED BY <1>1, <2>4, <2>5 DEF Travels, Somewhere, Good
<1> QED BY <1>2, <1>4, <1>5 DEF CauseInv

\* Steps of the limiter.
LEMMA IdleKeeps ==
  ASSUME CauseInv,
         UNCHANGED <<rows, minted, dart, saved, alive, cold, native, running, req, pull,
                     sent, events, signedIn, causes>>
  PROVE  CauseInv'
<1>1. TypeOK'
  BY Known, Refitted DEF CauseInv
<1>2. Ordered'
  BY DEF CauseInv, Ordered, Latest
<1>3. ASSUME causes' = {} PROVE (Calm /\ Travels /\ Somewhere)'
  <2>1. Calm /\ Travels /\ Somewhere
    BY <1>3 DEF CauseInv
  <2>2. Calm'
    BY <2>1 DEF Calm, Latest, Usable, Refreshing
  <2>3. Travels'
    BY <2>1 DEF Travels, OnItsWay, Latest, Newest, Usable, RowOf
  <2>4. Somewhere'
    BY <2>1 DEF Somewhere, Good, OnItsWay, Apart, RowOf, Latest, Newest, Usable
  <2> QED BY <2>2, <2>3, <2>4
<1> QED BY <1>1, <1>2, <1>3 DEF CauseInv

\* Every step keeps the invariant.
LEMMA NextKeeps == CauseInv /\ [Next]_vars => CauseInv'
<1> SUFFICES ASSUME CauseInv, [Next]_vars PROVE CauseInv'
  OBVIOUS
<1>1. CASE Tick \/ UNCHANGED vars
  <2>1. UNCHANGED <<rows, minted, dart, saved, alive, cold, native, running, req, pull,
                    sent, events, signedIn, causes>>
    BY <1>1 DEF Tick, vars, hub, app, bridge
  <2> QED BY <2>1, IdleKeeps
<1>2. CASE Login \/ Logout \/ \E i \in DOMAIN rows : Expire(i)
  BY <1>2, LoginKeeps, LogoutKeeps, ExpireKeeps
<1>3. CASE \E x \in Clients : Call(x) \/ Serve(x) \/ Refresh(x) \/ Lookup(x) \/ Rotate(x) \/ Lose(x)
  BY <1>3, CallKeeps, ServeKeeps, RefreshKeeps, LookupKeeps, RotateKeeps, LoseKeeps
<1>4. CASE DartRefreshed \/ DartRefused \/ HandleExpired \/ NativeRefreshed \/ NativeRefused
  BY <1>4, DartRefreshedKeeps, DartRefusedKeeps, HandleExpiredKeeps, NativeRefreshedKeeps,
     NativeRefusedKeeps
<1>5. CASE \/ \E start \in BOOLEAN : PushRead(start)
           \/ \E m \in sent : Configure(m)
           \/ PushSettings \/ SessionEvent
  BY <1>5, PushReadKeeps, ConfigureKeeps, PushSettingsKeeps, SessionEventKeeps
<1>6. CASE Kill \/ ColdStart \/ AfterAuth \/ OfflineStart
  BY <1>6, KillKeeps, ColdStartKeeps, AfterAuthKeeps, OfflineKeeps
<1> QED BY <1>1, <1>2, <1>3, <1>4, <1>5, <1>6 DEF Next

\* It holds at first.
LEMMA InitCause == Init => CauseInv
<1> SUFFICES ASSUME Init PROVE CauseInv
  OBVIOUS
<1>1. /\ rows = <<>> /\ minted = 0 /\ dart = 0 /\ saved = 0 /\ native = 0
      /\ alive = TRUE /\ cold = FALSE /\ running = FALSE /\ signedIn = FALSE
      /\ pull = {} /\ sent = {} /\ events = <<>> /\ causes = {}
      /\ req = [x \in Clients |-> Quiet]
  BY DEF Init
<1>2. \A x \in Clients : req[x] = Quiet /\ req[x].at = "idle"
  BY <1>1, QuietFits
<1>3. TypeOK
  <2>1. req \in [Clients -> Reqs(0)]
    BY <1>1, QuietFits
  <2>2. 0 \in 0..0 /\ 0 \in Nat
    OBVIOUS
  <2>3. rows \in Seq(SessionRows(0)) /\ events \in Seq(0..0)
    BY <1>1
  <2>4. Types(0)
    BY <1>1, <2>1, <2>2, <2>3, Zenon DEF Types
  <2> QED BY <1>1, <2>2, <2>4, TypeParts
<1>4. Ordered
  <2>1. DOMAIN rows = {}
    BY <1>1
  <2> QED BY <1>1, <1>2, <2>1 DEF Ordered
<1>5. Calm
  <2>1. DOMAIN rows = {}
    BY <1>1
  <2> QED BY <1>1, <1>2, <2>1 DEF Calm, Refreshing, Clients
<1>6. Travels /\ Somewhere
  BY <1>1, <1>2 DEF Travels, OnItsWay, Somewhere, Good
<1> QED BY <1>3, <1>4, <1>5, <1>6 DEF CauseInv

\* The invariant holds always.
LEMMA CauseInvHolds == Spec => []CauseInv
BY InitCause, NextKeeps, PTL DEF Spec

\* Type correctness of the rows, the two copies of the pair and the calls.
THEOREM SessionTypeCorrect == Spec => []TypeOK
<1>1. CauseInv => TypeOK
  BY DEF CauseInv
<1> QED BY <1>1, CauseInvHolds, PTL

\* While the user's session is good at the hub, the app still has the pair that
\* opens it or it is on its way there, unless a cause was recorded: for any number
\* of logins, pairs, restarts and lost messages (ApiClient, NativeSync and the
\* hub's handleRefresh against each other).
THEOREM SignedOutOnlyForCause == Spec => []SignedOutForCause
<1>1. CauseInv => SignedOutForCause
  <2> SUFFICES ASSUME CauseInv, signedIn, Usable(Len(rows)), causes = {}
               PROVE  Keeps(rows[Len(rows)].pair)
    BY DEF SignedOutForCause
  <2>1. Calm /\ Travels /\ Somewhere /\ Good
    BY DEF CauseInv, Good, Latest
  <2>2. CASE saved = Newest
    BY <2>2 DEF Keeps, Newest, Latest
  <2>3. CASE \E x \in Clients : req[x].at = "granted"
    BY <2>1, <2>3 DEF Travels, OnItsWay, Keeps, Newest, Latest
  <2>4. CASE events # <<>>
    <3>1. events = <<Newest>>
      BY <2>1, <2>4 DEF Travels, OnItsWay
    <3>2. Newest \in Range(events)
      BY <3>1 DEF Range
    <3> QED BY <3>2 DEF Keeps, Newest, Latest
  <2>5. CASE Apart
    BY <2>1, <2>5 DEF Apart, Somewhere, Keeps, Newest, Latest
  <2> QED BY <2>1, <2>2, <2>3, <2>4, <2>5 DEF Somewhere, OnItsWay
<1> QED BY <1>1, CauseInvHolds, PTL

\* Only the SELECT of a refresh refuses a token that was sent.
LEMMA OnlyLookupRefuses ==
  ASSUME CauseInv, [Next]_vars, NEW x \in Clients, req[x].at = "asked", req'[x].at = "refused"
  PROVE  Lookup(x)
<1>1. ASSUME NEW y \in Clients, NEW a, NEW p, NEW r, Turn(y, a, p, r), a # "refused" PROVE FALSE
  BY <1>1, TurnParts
<1>2. ASSUME req' = req PROVE FALSE
  BY <1>2
<1>3. CASE Tick \/ Logout \/ PushSettings \/ SessionEvent \/ AfterAuth \/ UNCHANGED vars
  BY <1>2, <1>3 DEF Tick, Logout, PushSettings, SessionEvent, AfterAuth, vars
<1>4. CASE Login \/ \E i \in DOMAIN rows : Expire(i)
  BY <1>2, <1>4 DEF Login, Expire
<1>5. CASE (\E start \in BOOLEAN : PushRead(start)) \/ (\E m \in sent : Configure(m))
  BY <1>2, <1>5 DEF PushRead, Configure
<1>6. CASE DartRefreshed \/ DartRefused \/ HandleExpired \/ NativeRefreshed \/ NativeRefused
  BY <1>1, <1>6, DartRefreshedTurn, DartRefusedTurn, HandleExpiredTurn, NativeRefreshedTurn,
     NativeRefusedTurn DEF CauseInv, Clients
<1>7. CASE Kill \/ OfflineStart \/ ColdStart
  BY <1>1, <1>2, <1>7, KillTurn, OfflineBlamed, ColdStartTurn DEF CauseInv, Clients
<1>8. CASE \E y \in Clients : Call(y) \/ Serve(y) \/ Refresh(y) \/ Lose(y)
  BY <1>1, <1>8, CallTurn, ServeTurn, RefreshTurn, LoseBlamed DEF CauseInv
<1>9. ASSUME NEW y \in Clients, Rotate(y) PROVE FALSE
  <2>1. req[y].at = "read" /\ req[y].row \in DOMAIN rows
    BY <1>9 DEF Rotate, CauseInv, Ordered
  <2>2. \E a, p, r : Turn(y, a, p, r)
    BY <1>9, <2>1, RotateTurn DEF CauseInv
  <2> QED BY <2>1, <2>2, TurnParts
<1>10. CASE \E y \in Clients : Lookup(y)
  <2>1. PICK y \in Clients : Lookup(y)
    BY <1>10
  <2>2. \E a, p, r : Turn(y, a, p, r)
    BY <2>1, LookupTurn DEF CauseInv
  <2> QED BY <2>1, <2>2, TurnParts
<1> QED BY <1>3, <1>4, <1>5, <1>6, <1>7, <1>8, <1>9, <1>10 DEF Next

\* Every session has a device label.
AllLabelled == \A i \in DOMAIN rows : rows[i].labelled

\* A refresh keeps the label.
LEMMA StaysLabelled ==
  ASSUME Labels \subseteq {TRUE}, CauseInv, AllLabelled, [Next]_vars PROVE AllLabelled'
<1>1. ASSUME rows' = rows PROVE AllLabelled'
  BY <1>1 DEF AllLabelled
<1>2. ASSUME SameRows PROVE AllLabelled'
  BY <1>2 DEF AllLabelled, SameRows
<1>3. CASE Login
  <2>1. CASE NewRow
    <3>1. DOMAIN rows = 1..Len(rows) /\ Len(rows) \in Nat
      BY Known DEF CauseInv
    <3>2. \A j \in DOMAIN rows' : j \in DOMAIN rows \/ j = Len(rows) + 1
      BY <2>1, <3>1 DEF NewRow
    <3> QED BY <2>1, <3>2 DEF NewRow, AllLabelled
  <2> QED BY <1>1, <1>3, <2>1, LoginEffect DEF CauseInv
<1>4. CASE Logout \/ \E i \in DOMAIN rows : Expire(i)
  BY <1>2, <1>4, LogoutEffect, ExpireEffect DEF CauseInv
<1>5. ASSUME NEW x \in Clients, Rotate(x) PROVE AllLabelled'
  <2>1. req[x].row \in DOMAIN rows
    BY <1>5 DEF Rotate, CauseInv, Ordered
  <2>2. CASE Renewed(req[x].row)
    BY <2>1, <2>2 DEF Renewed, AllLabelled
  <2> QED BY <1>1, <1>5, <2>1, <2>2, RotateTurn DEF CauseInv
<1>6. CASE \/ Tick \/ DartRefreshed \/ DartRefused \/ HandleExpired \/ NativeRefreshed \/ NativeRefused
           \/ PushSettings \/ SessionEvent \/ Kill \/ ColdStart \/ AfterAuth \/ OfflineStart
           \/ UNCHANGED vars
  BY <1>1, <1>6
    DEF Tick, DartRefreshed, DartRefused, HandleExpired, NativeRefreshed, NativeRefused,
     PushSettings, SessionEvent, Kill, ColdStart, AfterAuth, OfflineStart, vars, hub
<1>7. CASE \/ \E x \in Clients : Call(x) \/ Serve(x) \/ Refresh(x) \/ Lookup(x) \/ Lose(x)
           \/ \E start \in BOOLEAN : PushRead(start)
           \/ \E m \in sent : Configure(m)
  BY <1>1, <1>7 DEF Call, Serve, Refresh, Lookup, Lose, PushRead, Configure, hub
<1> QED BY <1>3, <1>4, <1>5, <1>6, <1>7 DEF Next

\* What a step may do to a refresh token that was sent.
Refusal ==
  \A x \in Clients : req[x].at = "asked" /\ req'[x].at = "refused" =>
    \A i \in RowOf(req[x].pair) : rows[i].revoked \/ rows[i].age = "dead"

\* When every login names its device, handleRefresh refuses a refresh token only
\* because it expired, was exchanged or revoked: the empty label is the one other
\* reason there is.
THEOREM RefusedOnlyForCause == ASSUME Labels \subseteq {TRUE} PROVE Spec => RefusedForCause
<1>1. Init => AllLabelled
  BY DEF Init, AllLabelled
<1>2. CauseInv /\ AllLabelled /\ [Next]_vars => AllLabelled'
  BY StaysLabelled
<1>3. CauseInv /\ AllLabelled /\ [Next]_vars => Refusal
  <2> SUFFICES ASSUME CauseInv, AllLabelled, [Next]_vars, NEW x \in Clients,
                      req[x].at = "asked", req'[x].at = "refused",
                      NEW i \in RowOf(req[x].pair)
               PROVE  rows[i].revoked \/ rows[i].age = "dead"
    BY DEF Refusal
  <2>1. Lookup(x)
    BY OnlyLookupRefuses
  <2>2. Refreshable(req[x].pair) = {}
    <3>1. ASSUME NEW j, Turn(x, "read", req[x].pair, j) PROVE FALSE
      BY <3>1, TurnParts
    <3> QED BY <2>1, <3>1, LookupTurn DEF CauseInv
  <2> QED BY <2>2 DEF Refreshable, RowOf, AllLabelled
<1>4. [][Refusal]_vars => RefusedForCause
  BY DEF Refusal, RefusedForCause
<1> QED BY <1>1, <1>2, <1>3, <1>4, CauseInvHolds, PTL DEF Spec
=============================================================================
