----------------------------- MODULE CacheProofs ----------------------------
(***************************************************************************)
(* A file that is being served is never removed, only verified files are   *)
(* served, and the directory grows only within its capacity, for any       *)
(* number of requests, releases and files.                                 *)
(***************************************************************************)
EXTENDS ReleaseCache, FiniteSetTheorems, TLAPS

\* What the argument needs of the variables' types.  The modification times may be any.
Request == [at : Places, ask : Keys \union {NoKey}, goal : Keys \union {NoKey},
            body : {None, "good", "bad"}]
Shape ==
  /\ mtime = [k \in Keys |-> mtime[k]]
  /\ refs \in [Keys -> Nat]
  /\ req \in [Requests -> Request]

\* A request that has not ended asks for a file, and one at work on a file has a goal.
Asking == \A r \in Requests :
  /\ req[r].at # "idle" => req[r].ask \in Keys
  /\ req[r].at \in {"check", "room", "fetch", "write", "commit"} => req[r].goal \in Keys

\* The holder of the gate is inside it, and nobody else.
Alone == \A r \in Requests : req[r].at \in Inside <=> gate = r

\* The leases on a file are the requests that are being served from it.
Serving(k) == {r \in Requests : req[r].at = "serving" /\ req[r].ask = k}
Leased == \A k \in Keys : refs[k] = Cardinality(Serving(k))

\* Once the old file is discarded nobody is served from it until the new one is there.
GoalFree == \A r \in Requests :
  req[r].at \in {"room", "fetch", "write", "commit"} => refs[req[r].goal] = 0

CacheInv == Shape /\ Asking /\ Alone /\ Leased /\ GoalFree /\ ServedOnDisk

LEMMA ServingFinite ==
  ASSUME NEW k PROVE IsFiniteSet(Serving(k)) /\ Cardinality(Serving(k)) \in Nat
<1>1. Serving(k) \subseteq Requests
  BY DEF Serving
<1>2. QED
  BY <1>1, FS_Subset, FS_CardinalityType, CacheAssumption

\* A file that is being served has a lease.
LEMMA ServedIsLeased ==
  ASSUME CacheInv, NEW r \in Requests, req[r].at = "serving"
  PROVE  req[r].ask \in Keys /\ refs[req[r].ask] # 0
<1>1. req[r].ask \in Keys
  BY DEF CacheInv, Asking
<1>2. r \in Serving(req[r].ask)
  BY DEF Serving
<1>3. Cardinality(Serving(req[r].ask)) # 0
  BY <1>2, ServingFinite, FS_EmptySet
<1>4. QED
  BY <1>1, <1>3 DEF CacheInv, Leased

\* A step that serves nobody and stops serving nobody may remove files without a lease.
LEMMA LeasesStay ==
  ASSUME CacheInv,
         refs' = refs,
         \A r \in Requests : (req[r].at = "serving" \/ req'[r].at = "serving")
                                => req'[r].at = req[r].at /\ req'[r].ask = req[r].ask,
         \A k \in Keys : refs[k] # 0 => mtime'[k] = mtime[k]
  PROVE  Leased' /\ ServedOnDisk'
<1>1. ASSUME NEW k \in Keys PROVE Serving(k)' = Serving(k)
  BY DEF Serving
<1>2. Leased'
  BY <1>1 DEF CacheInv, Leased
<1>3. ASSUME NEW r \in Requests, req'[r].at = "serving" PROVE req'[r].ask \in Stored'
  <2>1. req[r].at = "serving" /\ req'[r].ask = req[r].ask
    BY <1>3
  <2>2. req[r].ask \in Keys /\ refs[req[r].ask] # 0
    BY <2>1, ServedIsLeased
  <2>3. req[r].ask \in Stored
    BY <2>1 DEF CacheInv, ServedOnDisk
  <2>4. mtime'[req[r].ask] > 0
    BY <2>2, <2>3 DEF Stored
  <2>5. QED
    BY <2>1, <2>2, <2>4 DEF Stored
<1>4. QED
  BY <1>2, <1>3 DEF ServedOnDisk

\* A step of the request inside the gate, up to taking the lease.
LEMMA GateStep ==
  ASSUME CacheInv, NEW r \in Requests,
         gate = r,
         refs' = refs,
         NEW new \in Request, req' = [req EXCEPT ![r] = new],
         new.at # "serving",
         gate' = IF new.at \in Inside THEN r ELSE None,
         new.at # "idle" => new.ask \in Keys,
         new.at \in {"check", "room", "fetch", "write", "commit"} => new.goal \in Keys,
         new.at \in {"room", "fetch", "write", "commit"} => refs[new.goal] = 0,
         mtime' = [k \in Keys |-> mtime'[k]],
         \A k \in Keys : refs[k] # 0 => mtime'[k] = mtime[k]
  PROVE  CacheInv'
<1>1. /\ req'[r] = new
      /\ \A other \in Requests \ {r} : req'[other] = req[other]
  BY DEF CacheInv, Shape
<1>2. req[r].at # "serving"
  BY DEF CacheInv, Alone, Inside
<1>3. Leased' /\ ServedOnDisk'
  BY <1>1, <1>2, LeasesStay
<1>4. Shape'
  BY DEF CacheInv, Shape
<1>5. Asking'
  BY <1>1 DEF CacheInv, Asking
<1>6. Alone'
  BY <1>1, CacheAssumption DEF CacheInv, Alone
<1>7. GoalFree'
  BY <1>1 DEF CacheInv, GoalFree
<1>8. QED
  BY <1>3, <1>4, <1>5, <1>6, <1>7 DEF CacheInv

\* Every error return.
LEMMA RefuseKeeps ==
  ASSUME CacheInv, NEW r \in Requests, gate = r, Refuse(r),
         refs' = refs,
         mtime' = [k \in Keys |-> mtime'[k]],
         \A k \in Keys : refs[k] # 0 => mtime'[k] = mtime[k]
  PROVE  CacheInv'
<1>1. Idle \in Request /\ Idle.at = "idle"
  BY DEF Idle, Request, Places, None, Inside
<1>2. req' = [req EXCEPT ![r] = Idle] /\ gate' = None
  BY DEF Refuse
<1>3. Idle.at \notin Inside
  BY <1>1 DEF Inside
<1>4. QED
  BY <1>1, <1>2, <1>3, GateStep

\* Removing files without a lease removes none that has one.
LEMMA RemoveKeeps ==
  ASSUME Shape, NEW E, \A k \in E : k \in Keys => refs[k] = 0, RemoveFiles(E)
  PROVE  /\ mtime' = [k \in Keys |-> mtime'[k]]
         /\ \A k \in Keys : refs[k] # 0 => mtime'[k] = mtime[k]
BY DEF RemoveFiles, Shape

LEMMA VictimsFree ==
  ASSUME NEW rest, NEW E \in Victims(rest)
  PROVE  \A k \in E : refs[k] = 0
BY DEF Victims, Evictable

\* A request that moves to another place inside the gate.
LEMMA MoveIn ==
  ASSUME CacheInv, NEW r \in Requests, gate = r, gate' = r, refs' = refs,
         NEW place \in Inside, Goto(r, place),
         place \in {"check", "room", "fetch", "write", "commit"} => req[r].goal \in Keys,
         place \in {"room", "fetch", "write", "commit"} => refs[req[r].goal] = 0,
         mtime' = [k \in Keys |-> mtime'[k]],
         \A k \in Keys : refs[k] # 0 => mtime'[k] = mtime[k]
  PROVE  CacheInv'
<1> DEFINE new == [req[r] EXCEPT !.at = place]
<1>1. req' = [req EXCEPT ![r] = new]
  BY DEF Goto, CacheInv, Shape
<1>2. req[r] \in Request /\ req[r].at \in Inside /\ req[r].ask \in Keys
  BY DEF CacheInv, Shape, Alone, Asking, Inside
<1>3. /\ new \in Request /\ new.at = place
      /\ new.ask = req[r].ask /\ new.goal = req[r].goal
  BY <1>2 DEF Request, Places
<1>4. new.at # "serving"
  BY <1>3 DEF Inside
<1> HIDE DEF new
<1>5. QED
  BY <1>1, <1>2, <1>3, <1>4, GateStep

LEMMA AbortKeeps == ASSUME CacheInv, NEW r \in Requests, Abort(r) PROVE CacheInv'
BY RefuseKeeps DEF Abort, files, CacheInv, Shape

LEMMA WriteKeeps == ASSUME CacheInv, NEW r \in Requests, Write(r) PROVE CacheInv'
<1>1. /\ gate = r /\ gate' = r /\ refs' = refs /\ mtime' = mtime
      /\ req[r].at = "write" /\ Goto(r, "commit")
  BY DEF Write, files
<1>2. req[r].goal \in Keys /\ refs[req[r].goal] = 0
  BY <1>1 DEF CacheInv, Asking, GoalFree
<1>3. "commit" \in Inside
  BY DEF Inside
<1>4. QED
  BY <1>1, <1>2, <1>3, MoveIn DEF CacheInv, Shape

LEMMA MakeRoomKeeps == ASSUME CacheInv, NEW r \in Requests, MakeRoom(r) PROVE CacheInv'
<1> DEFINE k == req[r].goal
<1>1. gate = r /\ req[r].at = "room" /\ refs' = refs
  BY DEF MakeRoom
<1>2. k \in Keys /\ refs[k] = 0
  BY <1>1 DEF CacheInv, Asking, GoalFree
<1>3. CASE Refuse(r) /\ UNCHANGED files
  BY <1>1, <1>3, RefuseKeeps DEF files, CacheInv, Shape
<1>4. ASSUME NEW E \in Victims(leftover + Size(k)), RemoveFiles(E)
      PROVE  /\ mtime' = [x \in Keys |-> mtime'[x]]
             /\ \A x \in Keys : refs[x] # 0 => mtime'[x] = mtime[x]
  BY <1>4, VictimsFree, RemoveKeeps DEF CacheInv
<1>5. ASSUME NEW E \in Victims(leftover + Size(k)), RemoveFiles(E), Refuse(r)
      PROVE  CacheInv'
  BY <1>1, <1>4, <1>5, RefuseKeeps
<1>6. ASSUME NEW E \in Victims(leftover + Size(k)), RemoveFiles(E),
             Goto(r, AfterRoom(k)), UNCHANGED gate
      PROVE  CacheInv'
  <2>1. AfterRoom(k) \in Inside
    BY DEF AfterRoom, Inside
  <2>2. QED
    BY <1>1, <1>2, <1>4, <1>6, <2>1, MoveIn
<1>7. QED
  BY <1>3, <1>5, <1>6 DEF MakeRoom

LEMMA DiscardKeeps == ASSUME CacheInv, NEW r \in Requests, Discard(r) PROVE CacheInv'
<1> DEFINE k == req[r].goal
<1>1. gate = r /\ req[r].at = "check" /\ refs' = refs
  BY DEF Discard
<1>2. k \in Keys
  BY <1>1 DEF CacheInv, Asking
<1>3. CASE Refuse(r) /\ UNCHANGED files
  BY <1>1, <1>3, RefuseKeeps DEF files, CacheInv, Shape
<1>4. CASE refs[k] = 0 /\ RemoveFiles({k}) /\ Goto(r, AfterDiscard(k)) /\ UNCHANGED gate
  <2>1. /\ mtime' = [x \in Keys |-> mtime'[x]]
        /\ \A x \in Keys : refs[x] # 0 => mtime'[x] = mtime[x]
    BY <1>4, RemoveKeeps DEF CacheInv
  <2>2. AfterDiscard(k) \in Inside
    BY DEF AfterDiscard, Inside
  <2>3. QED
    BY <1>1, <1>2, <1>4, <2>1, <2>2, MoveIn
<1>5. QED
  BY <1>3, <1>4 DEF Discard

LEMMA PrepareKeeps == ASSUME CacheInv, NEW r \in Requests, Prepare(r) PROVE CacheInv'
<1> DEFINE new == [req[r] EXCEPT !.at = "check", !.goal = Manifest(req[r].ask)]
<1>1. gate = r /\ gate' = r /\ refs' = refs /\ req[r].at = "prepare"
  BY DEF Prepare
<1>2. PICK E \in Victims(leftover') : RemoveFiles(E)
  BY DEF Prepare
<1>3. /\ mtime' = [x \in Keys |-> mtime'[x]]
      /\ \A x \in Keys : refs[x] # 0 => mtime'[x] = mtime[x]
  BY <1>2, VictimsFree, RemoveKeeps DEF CacheInv
<1>4. req' = [req EXCEPT ![r] = new]
  BY DEF Prepare, CacheInv, Shape
<1>5. req[r] \in Request /\ req[r].ask \in Keys
  BY <1>1 DEF CacheInv, Shape, Asking
<1>6. Manifest(req[r].ask) \in Keys
  BY <1>5 DEF Manifest, Keys, Kinds
<1>7. new \in Request /\ new.at = "check" /\ new.ask \in Keys /\ new.goal \in Keys
  BY <1>5, <1>6 DEF Request, Places, Inside
<1>8. new.at \in Inside
  BY <1>7 DEF Inside
<1> HIDE DEF new
<1>9. QED
  BY <1>1, <1>3, <1>4, <1>7, <1>8, GateStep

\* With a valid file the request goes on inside the gate.
LEMMA AfterCheckKeeps ==
  ASSUME CacheInv, NEW r \in Requests, gate = r, gate' = r, refs' = refs,
         req' = [req EXCEPT ![r] = AfterCheck(r)],
         mtime' = [k \in Keys |-> mtime'[k]],
         \A k \in Keys : refs[k] # 0 => mtime'[k] = mtime[k]
  PROVE  CacheInv'
<1>1. req[r].at \in Inside /\ req[r].ask \in Keys
  BY DEF CacheInv, Alone, Asking, Inside
<1>2. CASE AfterCheck(r) = [Idle EXCEPT !.at = "open", !.ask = req[r].ask]
  <2>1. AfterCheck(r) \in Request /\ AfterCheck(r).at = "open" /\ AfterCheck(r).ask \in Keys
    BY <1>1, <1>2 DEF Idle, Request, Places, Inside, None
  <2>2. AfterCheck(r).at \in Inside
    BY <2>1 DEF Inside
  <2>3. QED
    BY <2>1, <2>2, GateStep
<1>3. CASE AfterCheck(r) = [Idle EXCEPT !.at = "check", !.ask = req[r].ask, !.goal = req[r].ask]
  <2>1. /\ AfterCheck(r) \in Request /\ AfterCheck(r).at = "check"
        /\ AfterCheck(r).ask \in Keys /\ AfterCheck(r).goal \in Keys
    BY <1>1, <1>3 DEF Idle, Request, Places, Inside, None
  <2>2. AfterCheck(r).at \in Inside
    BY <2>1 DEF Inside
  <2>3. QED
    BY <2>1, <2>2, GateStep
<1>4. QED
  BY <1>2, <1>3 DEF AfterCheck

LEMMA CheckKeeps == ASSUME CacheInv, NEW r \in Requests, Check(r) PROVE CacheInv'
BY AfterCheckKeeps DEF Check, files, CacheInv, Shape

LEMMA FetchKeeps == ASSUME CacheInv, NEW r \in Requests, Fetch(r) PROVE CacheInv'
<1> DEFINE k == req[r].goal
<1>1. gate = r /\ req[r].at = "fetch" /\ refs' = refs /\ mtime' = mtime
  BY DEF Fetch, files
<1>2. k \in Keys /\ refs[k] = 0 /\ req[r] \in Request /\ req[r].ask \in Keys
  BY <1>1 DEF CacheInv, Shape, Asking, GoalFree
<1>3. CASE Refuse(r)
  BY <1>1, <1>3, RefuseKeeps DEF CacheInv, Shape
<1>4. ASSUME NEW body \in {"good", "bad"}, gate' = gate,
             req' = [req EXCEPT ![r].at = AfterFetch(k), ![r].body = body]
      PROVE  CacheInv'
  <2> DEFINE new == [req[r] EXCEPT !.at = AfterFetch(k), !.body = body]
  <2>1. req' = [req EXCEPT ![r] = new]
    BY <1>4 DEF CacheInv, Shape
  <2>2. AfterFetch(k) \in {"write", "room"}
    BY DEF AfterFetch
  <2>3. new \in Request /\ new.at = AfterFetch(k) /\ new.ask = req[r].ask /\ new.goal = k
    BY <1>2, <2>2 DEF Request, Places, Inside
  <2>4. new.at \in Inside
    BY <2>2, <2>3 DEF Inside
  <2> HIDE DEF new
  <2>5. QED
    BY <1>1, <1>2, <1>4, <2>1, <2>2, <2>3, <2>4, GateStep DEF CacheInv, Shape
<1>5. QED
  BY <1>3, <1>4 DEF Fetch

\* The new file replaces one that nobody is served from.
LEMMA CommitKeeps == ASSUME CacheInv, NEW r \in Requests, Commit(r) PROVE CacheInv'
<1> DEFINE k == req[r].goal
<1>1. gate = r /\ req[r].at = "commit" /\ refs' = refs
  BY DEF Commit
<1>2. k \in Keys /\ refs[k] = 0
  BY <1>1 DEF CacheInv, Asking, GoalFree
<1>3. CASE Refuse(r) /\ UNCHANGED files
  BY <1>1, <1>3, RefuseKeeps DEF files, CacheInv, Shape
<1>4. CASE /\ mtime' = [mtime EXCEPT ![k] = Latest + 1]
           /\ req' = [req EXCEPT ![r] = AfterCheck(r)]
           /\ UNCHANGED gate
  <2>1. mtime = [x \in Keys |-> mtime[x]]
    BY DEF CacheInv, Shape
  <2>2. /\ mtime' = [x \in Keys |-> mtime'[x]]
        /\ \A x \in Keys : refs[x] # 0 => mtime'[x] = mtime[x]
    BY <1>2, <1>4, <2>1
  <2>3. QED
    BY <1>1, <1>4, <2>2, AfterCheckKeeps
<1>5. QED
  BY <1>3, <1>4 DEF Commit

\* A request outside of the gate asks, gives up or enters.
LEMMA OutsideStep ==
  ASSUME CacheInv, NEW r \in Requests,
         req[r].at \notin Inside, req[r].at # "serving",
         refs' = refs, mtime' = mtime,
         NEW new \in Request, req' = [req EXCEPT ![r] = new],
         new.at \in {"idle", "waiting", "prepare"},
         new.at # "idle" => new.ask \in Keys,
         IF new.at = "prepare" THEN gate = None /\ gate' = r ELSE gate' = gate
  PROVE  CacheInv'
<1>1. /\ req'[r] = new
      /\ \A other \in Requests \ {r} : req'[other] = req[other]
  BY DEF CacheInv, Shape
<1>2. Leased' /\ ServedOnDisk'
  BY <1>1, LeasesStay
<1>3. Shape'
  BY DEF CacheInv, Shape
<1>4. Asking'
  BY <1>1 DEF CacheInv, Asking
<1>5. Alone'
  BY <1>1, CacheAssumption DEF CacheInv, Alone, Inside
<1>6. GoalFree'
  BY <1>1 DEF CacheInv, GoalFree
<1>7. QED
  BY <1>2, <1>3, <1>4, <1>5, <1>6 DEF CacheInv

LEMMA AskKeeps == ASSUME CacheInv, NEW r \in Requests, Ask(r) PROVE CacheInv'
<1>1. PICK k \in Keys : req' = [req EXCEPT ![r] = [Idle EXCEPT !.at = "waiting", !.ask = k]]
  BY DEF Ask
<1> DEFINE new == [Idle EXCEPT !.at = "waiting", !.ask = k]
<1>2. new \in Request /\ new.at = "waiting" /\ new.ask \in Keys
  BY DEF Idle, Request, Places, None
<1>3. req' = [req EXCEPT ![r] = new]
  BY <1>1
<1>4. req[r].at = "idle" /\ refs' = refs /\ mtime' = mtime /\ gate' = gate
  BY DEF Ask, files
<1>5. req[r].at \notin Inside
  BY <1>4 DEF Inside
<1> HIDE DEF new
<1>6. QED
  BY <1>2, <1>3, <1>4, <1>5, OutsideStep

LEMMA EnterKeeps == ASSUME CacheInv, NEW r \in Requests, Enter(r) PROVE CacheInv'
<1> DEFINE new == [req[r] EXCEPT !.at = "prepare"]
<1>1. /\ req[r].at = "waiting" /\ refs' = refs /\ mtime' = mtime
      /\ gate = None /\ gate' = r /\ Goto(r, "prepare")
  BY DEF Enter, files
<1>2. req' = [req EXCEPT ![r] = new]
  BY <1>1 DEF Goto, CacheInv, Shape
<1>3. req[r] \in Request /\ req[r].ask \in Keys
  BY <1>1 DEF CacheInv, Shape, Asking
<1>4. new \in Request /\ new.at = "prepare" /\ new.ask \in Keys
  BY <1>3 DEF Request, Places, Inside
<1>5. req[r].at \notin Inside
  BY <1>1 DEF Inside
<1> HIDE DEF new
<1>6. QED
  BY <1>1, <1>2, <1>4, <1>5, OutsideStep

LEMMA CancelKeeps == ASSUME CacheInv, NEW r \in Requests, Cancel(r) PROVE CacheInv'
<1>1. Idle \in Request /\ Idle.at = "idle"
  BY DEF Idle, Request, Places, None
<1>2. /\ req[r].at = "waiting" /\ refs' = refs /\ mtime' = mtime /\ gate' = gate
      /\ req' = [req EXCEPT ![r] = Idle]
  BY DEF Cancel, files
<1>3. req[r].at \notin Inside
  BY <1>2 DEF Inside
<1>4. QED
  BY <1>1, <1>2, <1>3, OutsideStep

\* The lease is counted when the request begins to be served.
LEMMA OpenKeeps == ASSUME CacheInv, NEW r \in Requests, Open(r) PROVE CacheInv'
<1> DEFINE k == req[r].ask
           new == [req[r] EXCEPT !.at = "serving"]
<1>1. /\ gate = r /\ gate' = None /\ req[r].at = "open" /\ k \in Stored
      /\ refs' = [refs EXCEPT ![k] = @ + 1] /\ mtime' = mtime /\ Goto(r, "serving")
  BY DEF Open, files
<1>2. req' = [req EXCEPT ![r] = new]
  BY <1>1 DEF Goto, CacheInv, Shape
<1>3. req[r] \in Request /\ k \in Keys
  BY <1>1 DEF CacheInv, Shape, Asking
<1>4. new \in Request /\ new.at = "serving" /\ new.ask = k
  BY <1>3 DEF Request, Places
<1> HIDE DEF new
<1>5. /\ req'[r] = new
      /\ \A other \in Requests \ {r} : req'[other] = req[other]
  BY <1>2 DEF CacheInv, Shape
<1>6. Shape'
  BY <1>1, <1>2, <1>3, <1>4 DEF CacheInv, Shape
<1>7. Asking'
  BY <1>3, <1>4, <1>5 DEF CacheInv, Asking
<1>8. \A other \in Requests \ {r} : req[other].at \notin Inside
  BY <1>1 DEF CacheInv, Alone
<1>9. Alone'
  BY <1>1, <1>4, <1>5, <1>8, CacheAssumption DEF Alone, Inside
<1>10. GoalFree'
  BY <1>4, <1>5, <1>8 DEF GoalFree, Inside
<1>11. Leased'
  <2> SUFFICES ASSUME NEW x \in Keys PROVE refs'[x] = Cardinality(Serving(x)')
    BY DEF Leased
  <2>1. CASE x = k
    <3>1. Serving(x)' = Serving(x) \union {r} /\ r \notin Serving(x)
      BY <1>1, <1>4, <1>5, <2>1 DEF Serving
    <3>2. Cardinality(Serving(x)') = Cardinality(Serving(x)) + 1
      BY <3>1, ServingFinite, FS_AddElement
    <3>3. QED
      BY <1>1, <2>1, <3>2 DEF CacheInv, Leased, Shape
  <2>2. CASE x # k
    <3>1. Serving(x)' = Serving(x)
      BY <1>1, <1>4, <1>5, <2>2 DEF Serving
    <3>2. QED
      BY <1>1, <2>2, <3>1 DEF CacheInv, Leased, Shape
  <2>3. QED
    BY <2>1, <2>2
<1>12. ServedOnDisk'
  BY <1>1, <1>4, <1>5 DEF CacheInv, ServedOnDisk, Stored
<1>13. QED
  BY <1>6, <1>7, <1>9, <1>10, <1>11, <1>12 DEF CacheInv

\* It is given back when the request has been served.
LEMMA ReleaseKeeps == ASSUME CacheInv, NEW r \in Requests, Release(r) PROVE CacheInv'
<1> DEFINE k == req[r].ask
<1>1. /\ req[r].at = "serving" /\ refs' = [refs EXCEPT ![k] = @ - 1]
      /\ req' = [req EXCEPT ![r] = Idle] /\ mtime' = mtime /\ gate' = gate
  BY DEF Release, files
<1>2. k \in Keys /\ refs[k] \in Nat /\ refs[k] # 0
  BY <1>1, ServedIsLeased DEF CacheInv, Shape
<1>3. Idle \in Request /\ Idle.at = "idle"
  BY DEF Idle, Request, Places, None
<1>4. /\ req'[r] = Idle
      /\ \A other \in Requests \ {r} : req'[other] = req[other]
  BY <1>1 DEF CacheInv, Shape
<1>5. Shape'
  BY <1>1, <1>2, <1>3 DEF CacheInv, Shape
<1>6. Asking'
  BY <1>3, <1>4 DEF CacheInv, Asking
<1>7. Alone'
  BY <1>1, <1>3, <1>4 DEF CacheInv, Alone, Inside
<1>8. GoalFree'
  <2> SUFFICES ASSUME NEW q \in Requests,
                      req'[q].at \in {"room", "fetch", "write", "commit"}
               PROVE  refs'[req'[q].goal] = 0
    BY DEF GoalFree
  <2>1. req'[q] = req[q]
    BY <1>3, <1>4
  <2>2. req[q].goal \in Keys /\ refs[req[q].goal] = 0
    BY <2>1 DEF CacheInv, GoalFree, Asking
  <2>3. QED
    BY <1>1, <1>2, <2>1, <2>2 DEF CacheInv, Shape
<1>9. Leased'
  <2> SUFFICES ASSUME NEW x \in Keys PROVE refs'[x] = Cardinality(Serving(x)')
    BY DEF Leased
  <2>1. CASE x = k
    <3>1. Serving(x)' = Serving(x) \ {r} /\ r \in Serving(x)
      BY <1>1, <1>3, <1>4, <2>1 DEF Serving
    <3>2. Cardinality(Serving(x)') = Cardinality(Serving(x)) - 1
      BY <3>1, ServingFinite, FS_RemoveElement
    <3>3. QED
      BY <1>1, <2>1, <3>2 DEF CacheInv, Leased, Shape
  <2>2. CASE x # k
    <3>1. Serving(x)' = Serving(x)
      BY <1>1, <1>3, <1>4, <2>2 DEF Serving
    <3>2. QED
      BY <1>1, <2>2, <3>1 DEF CacheInv, Leased, Shape
  <2>3. QED
    BY <2>1, <2>2
<1>10. ServedOnDisk'
  BY <1>1, <1>3, <1>4 DEF CacheInv, ServedOnDisk, Stored
<1>11. QED
  BY <1>5, <1>6, <1>7, <1>8, <1>9, <1>10 DEF CacheInv

\* Before the first request, and after a restart, nobody is served and nothing is leased.
LEMMA Nobody ==
  ASSUME mtime = [k \in Keys |-> mtime[k]],
         refs = [k \in Keys |-> 0], gate = None, req = [r \in Requests |-> Idle]
  PROVE  CacheInv
<1>1. Idle \in Request /\ Idle.at = "idle"
  BY DEF Idle, Request, Places, None
<1>2. Shape /\ Asking /\ GoalFree /\ ServedOnDisk
  BY <1>1 DEF Shape, Asking, GoalFree, ServedOnDisk
<1>3. Alone
  BY <1>1, CacheAssumption DEF Alone, Inside
<1>4. \A k \in Keys : Serving(k) = {}
  BY <1>1 DEF Serving
<1>5. Leased
  BY <1>4, FS_EmptySet DEF Leased
<1>6. QED
  BY <1>2, <1>3, <1>5 DEF CacheInv

LEMMA CrashKeeps == ASSUME CacheInv, Crash PROVE CacheInv'
<1>1. /\ mtime' = mtime /\ refs' = [k \in Keys |-> 0] /\ gate' = None
      /\ req' = [r \in Requests |-> Idle]
  BY DEF Crash, files
<1>2. Idle \in Request /\ Idle.at = "idle"
  BY DEF Idle, Request, Places, None
<1>3. Shape' /\ Asking' /\ GoalFree' /\ ServedOnDisk'
  BY <1>1, <1>2 DEF CacheInv, Shape, Asking, GoalFree, ServedOnDisk
<1>4. Alone'
  BY <1>1, <1>2, CacheAssumption DEF Alone, Inside
<1>5. \A k \in Keys : Serving(k)' = {}
  BY <1>1, <1>2 DEF Serving
<1>6. Leased'
  BY <1>1, <1>5, FS_EmptySet DEF Leased
<1>7. QED
  BY <1>3, <1>4, <1>6 DEF CacheInv

LEMMA SameKeeps ==
  ASSUME CacheInv, UNCHANGED <<mtime, refs, gate, req>>
  PROVE  CacheInv'
<1>1. \A k \in Keys : Serving(k)' = Serving(k)
  BY DEF Serving
<1>2. Leased'
  BY <1>1 DEF CacheInv, Leased
<1>3. QED
  BY <1>2 DEF CacheInv, Shape, Asking, Alone, GoalFree, ServedOnDisk, Stored

LEMMA CacheInit == Init => CacheInv
<1> SUFFICES ASSUME Init PROVE CacheInv
  OBVIOUS
<1>1. mtime = [k \in Keys |-> mtime[k]]
  BY DEF Init
<1>2. QED
  BY <1>1, Nobody DEF Init

LEMMA CacheNext == CacheInv /\ [Next]_vars => CacheInv'
<1> SUFFICES ASSUME CacheInv, [Next]_vars PROVE CacheInv'
  OBVIOUS
<1>1. ASSUME NEW r \in Requests,
             Ask(r) \/ Enter(r) \/ Cancel(r) \/ Abort(r) \/ Release(r)
      PROVE  CacheInv'
  BY <1>1, AskKeeps, EnterKeeps, CancelKeeps, AbortKeeps, ReleaseKeeps
<1>2. ASSUME NEW r \in Requests,
             Prepare(r) \/ Check(r) \/ Discard(r) \/ MakeRoom(r)
      PROVE  CacheInv'
  BY <1>2, PrepareKeeps, CheckKeeps, DiscardKeeps, MakeRoomKeeps
<1>3. ASSUME NEW r \in Requests, Fetch(r) \/ Write(r) \/ Commit(r) \/ Open(r)
      PROVE  CacheInv'
  BY <1>3, FetchKeeps, WriteKeeps, CommitKeeps, OpenKeeps
<1>4. ASSUME NEW k \in Keys, Damage(k) PROVE CacheInv'
  BY <1>4, SameKeeps DEF Damage
<1>5. CASE Crash
  BY <1>5, CrashKeeps
<1>6. CASE UNCHANGED vars
  BY <1>6, SameKeeps DEF vars
<1>7. QED
  BY <1>1, <1>2, <1>3, <1>4, <1>5, <1>6 DEF Next

\* A file stays on the disk as long as a request is being served from it, for any number
\* of concurrent requests, evictions, downloads and restarts (makeRoom, discard,
\* openAgentAsset and its leases).
THEOREM ServedStay == Spec => []ServedOnDisk
<1>1. CacheInv => ServedOnDisk
  BY DEF CacheInv
<1>2. QED
  BY <1>1, CacheInit, CacheNext, PTL DEF Spec

-----------------------------------------------------------------------------
\* The file that is about to be served has been verified, and the gate has been shut
\* since then.
OpenSound == \A r \in Requests : req[r].at = "open" => req[r].ask \notin damaged

SoundInv == CacheInv /\ OpenSound

\* Whoever holds the gate is the only one that can be about to serve.
LEMMA HolderSound ==
  ASSUME SoundInv, NEW r \in Requests, gate = r,
         \A other \in Requests \ {r} : req'[other] = req[other],
         req'[r].at = "open" => req'[r].ask \notin damaged'
  PROVE  OpenSound'
<1>1. \A other \in Requests \ {r} : req[other].at # "open"
  BY DEF SoundInv, CacheInv, Alone, Inside
<1>2. QED
  BY <1>1 DEF OpenSound

\* Steps that bring nobody to the point of serving.
LEMMA RefusedSound ==
  ASSUME SoundInv, NEW r \in Requests, gate = r, Refuse(r)
  PROVE  OpenSound'
<1>1. req' = [req EXCEPT ![r] = Idle] /\ req \in [Requests -> Request]
  BY DEF Refuse, SoundInv, CacheInv, Shape
<1>2. req'[r].at # "open"
  BY <1>1 DEF Idle
<1>3. QED
  BY <1>1, <1>2, HolderSound

LEMMA MovedSound ==
  ASSUME SoundInv, NEW r \in Requests, gate = r, NEW place, place # "open", Goto(r, place)
  PROVE  OpenSound'
<1>1. req' = [req EXCEPT ![r].at = place] /\ req \in [Requests -> Request]
  BY DEF Goto, SoundInv, CacheInv, Shape
<1>2. req'[r].at = place
  BY <1>1 DEF Request
<1>3. QED
  BY <1>1, <1>2, HolderSound

\* A verified file is the one that was asked for, or the manifest before it.
LEMMA CheckedSound ==
  ASSUME SoundInv, NEW r \in Requests, gate = r,
         req' = [req EXCEPT ![r] = AfterCheck(r)], req[r].goal \notin damaged'
  PROVE  OpenSound'
<1>1. req \in [Requests -> Request]
  BY DEF SoundInv, CacheInv, Shape
<1>2. req'[r] = AfterCheck(r)
  BY <1>1
<1>3. CASE req[r].goal = req[r].ask
  <2>1. req'[r].ask = req[r].ask
    BY <1>2, <1>3 DEF AfterCheck, Idle
  <2>2. QED
    BY <1>1, <1>3, <2>1, HolderSound
<1>4. CASE req[r].goal # req[r].ask
  <2>1. req'[r] = [Idle EXCEPT !.at = "check", !.ask = req[r].ask, !.goal = req[r].ask]
    BY <1>2, <1>4 DEF AfterCheck
  <2>2. \A a : [Idle EXCEPT !.at = "check", !.ask = a, !.goal = a].at = "check"
    BY DEF Idle
  <2>3. req'[r].at = "check"
    BY <2>1, <2>2
  <2>4. QED
    BY <1>1, <2>3, HolderSound
<1>5. QED
  BY <1>3, <1>4

LEMMA WorkSound == ASSUME SoundInv, NEW r \in Requests, Work(r) PROVE OpenSound'
<1>1. CASE Prepare(r)
  <2>1. /\ gate = r /\ req \in [Requests -> Request]
        /\ req' = [req EXCEPT ![r].at = "check", ![r].goal = Manifest(req[r].ask)]
    BY <1>1 DEF Prepare, SoundInv, CacheInv, Shape
  <2>2. req'[r].at = "check"
    BY <2>1 DEF Request
  <2>3. QED
    BY <2>1, <2>2, HolderSound
<1>2. CASE Check(r)
  <2>1. /\ gate = r /\ damaged' = damaged
        /\ req' = [req EXCEPT ![r] = AfterCheck(r)] /\ req[r].goal \notin damaged
    BY <1>2 DEF Check, files, Valid
  <2>2. QED
    BY <2>1, CheckedSound
<1>3. CASE Discard(r)
  <2>1. gate = r /\ (Refuse(r) \/ Goto(r, AfterDiscard(req[r].goal)))
    BY <1>3 DEF Discard
  <2>2. AfterDiscard(req[r].goal) # "open"
    BY DEF AfterDiscard
  <2>3. QED
    BY <2>1, <2>2, RefusedSound, MovedSound
<1>4. CASE MakeRoom(r)
  <2>1. gate = r /\ (Refuse(r) \/ Goto(r, AfterRoom(req[r].goal)))
    BY <1>4 DEF MakeRoom
  <2>2. AfterRoom(req[r].goal) # "open"
    BY DEF AfterRoom
  <2>3. QED
    BY <2>1, <2>2, RefusedSound, MovedSound
<1>5. CASE Fetch(r)
  <2>1. CASE gate = r /\ Refuse(r)
    BY <2>1, RefusedSound
  <2>2. ASSUME gate = r, NEW body,
               req' = [req EXCEPT ![r].at = AfterFetch(req[r].goal), ![r].body = body]
        PROVE  OpenSound'
    <3>1. req \in [Requests -> Request]
      BY DEF SoundInv, CacheInv, Shape
    <3>2. req'[r].at = AfterFetch(req[r].goal)
      BY <2>2, <3>1 DEF Request
    <3>3. QED
      BY <2>2, <3>1, <3>2, HolderSound DEF AfterFetch
  <2>3. QED
    BY <1>5, <2>1, <2>2 DEF Fetch
<1>6. CASE Write(r)
  BY <1>6, MovedSound DEF Write
<1>7. CASE Commit(r)
  <2>1. CASE gate = r /\ Refuse(r)
    BY <2>1, RefusedSound
  <2>2. CASE /\ gate = r /\ Accepted(req[r].body)
             /\ damaged' = IF req[r].body = "good" THEN damaged \ {req[r].goal}
                                                   ELSE damaged \union {req[r].goal}
             /\ req' = [req EXCEPT ![r] = AfterCheck(r)]
    BY <2>2, CheckedSound DEF Accepted
  <2>3. QED
    BY <1>7, <2>1, <2>2 DEF Commit
<1>8. CASE Open(r)
  BY <1>8, MovedSound DEF Open
<1>9. QED
  BY <1>1, <1>2, <1>3, <1>4, <1>5, <1>6, <1>7, <1>8 DEF Work

\* Files are damaged only while the gate is open.
LEMMA OthersSound ==
  ASSUME SoundInv, Next, ~\E r \in Requests : Work(r)
  PROVE  OpenSound'
<1> USE DEF SoundInv, CacheInv, Shape
<1>1. ASSUME NEW r \in Requests, Ask(r) \/ Cancel(r) \/ Release(r) PROVE OpenSound'
  <2>1. damaged' = damaged /\ \A other \in Requests \ {r} : req'[other] = req[other]
    BY <1>1 DEF Ask, Cancel, Release, files
  <2>2. CASE req' = [req EXCEPT ![r] = Idle]
    BY <2>1, <2>2 DEF OpenSound, Idle
  <2>3. ASSUME NEW k, req' = [req EXCEPT ![r] = [Idle EXCEPT !.at = "waiting", !.ask = k]]
        PROVE  OpenSound'
    <3>1. req'[r] = [at |-> "waiting", ask |-> k, goal |-> NoKey, body |-> None]
      BY <2>3 DEF Idle
    <3>2. QED
      BY <2>1, <3>1 DEF OpenSound
  <2>4. QED
    BY <1>1, <2>2, <2>3 DEF Ask, Cancel, Release
<1>2. ASSUME NEW r \in Requests, Enter(r) PROVE OpenSound'
  <2>1. /\ damaged' = damaged /\ req' = [req EXCEPT ![r].at = "prepare"]
    BY <1>2 DEF Enter, Goto, files
  <2>2. req'[r].at = "prepare" /\ \A other \in Requests \ {r} : req'[other] = req[other]
    BY <2>1 DEF Request
  <2>3. QED
    BY <2>1, <2>2 DEF OpenSound
<1>3. ASSUME NEW r \in Requests, Abort(r) PROVE OpenSound'
  BY <1>3, RefusedSound DEF Abort
<1>4. ASSUME NEW k \in Keys, Damage(k) PROVE OpenSound'
  <2>1. \A r \in Requests : req[r].at # "open"
    BY <1>4, CacheAssumption DEF Damage, Alone, Inside
  <2>2. QED
    BY <1>4, <2>1 DEF Damage, OpenSound
<1>5. CASE Crash
  BY <1>5 DEF Crash, OpenSound, Idle
<1>6. QED
  BY <1>1, <1>2, <1>3, <1>4, <1>5 DEF Next, Work

\* The places a request may come to by each kind of step.
LEMMA RefusedPlace ==
  ASSUME SoundInv, NEW q \in Requests, NEW r \in Requests, Refuse(q)
  PROVE  req'[r].at \in {"idle", req[r].at}
BY DEF Refuse, Idle, SoundInv, CacheInv, Shape

LEMMA MovedPlace ==
  ASSUME SoundInv, NEW q \in Requests, NEW r \in Requests, NEW place, Goto(q, place)
  PROVE  req'[r].at \in {place, req[r].at}
BY DEF Goto, SoundInv, CacheInv, Shape, Request

LEMMA CheckedPlace ==
  ASSUME SoundInv, NEW q \in Requests, NEW r \in Requests,
         req' = [req EXCEPT ![q] = AfterCheck(q)]
  PROVE  req'[r].at \in {"open", "check", req[r].at}
<1>1. req \in [Requests -> Request]
  BY DEF SoundInv, CacheInv, Shape
<1>2. AfterCheck(q).at \in {"open", "check"}
  <2>1. \/ AfterCheck(q) = [Idle EXCEPT !.at = "open", !.ask = req[q].ask]
        \/ AfterCheck(q) = [Idle EXCEPT !.at = "check", !.ask = req[q].ask, !.goal = req[q].ask]
    BY DEF AfterCheck
  <2>2. QED
    BY <2>1 DEF Idle
<1>3. QED
  BY <1>1, <1>2

\* A request begins to be served only when it opens the file.
LEMMA ServesVerified ==
  ASSUME SoundInv, Next, NEW r \in Requests,
         req[r].at # "serving", req'[r].at = "serving"
  PROVE  req[r].ask \in Stored \ damaged
<1>0. req \in [Requests -> Request]
  BY DEF SoundInv, CacheInv, Shape
<1>1. ASSUME NEW q \in Requests, Open(q) PROVE req[r].ask \in Stored \ damaged
  <2>1. /\ req[q].at = "open" /\ req[q].ask \in Stored
        /\ req' = [req EXCEPT ![q].at = "serving"]
    BY <1>1 DEF Open, Goto
  <2>2. q = r
    BY <1>0, <2>1
  <2>3. QED
    BY <2>1, <2>2 DEF SoundInv, OpenSound
<1>2. ASSUME NEW q \in Requests, Ask(q) \/ Enter(q) \/ Cancel(q) \/ Abort(q) \/ Release(q)
      PROVE  FALSE
  <2>1. CASE Ask(q)
    <3>1. PICK k \in Keys : req' = [req EXCEPT ![q] = [Idle EXCEPT !.at = "waiting", !.ask = k]]
      BY <2>1 DEF Ask
    <3>2. CASE q = r
      <4>1. req'[r] = [at |-> "waiting", ask |-> k, goal |-> NoKey, body |-> None]
        BY <1>0, <3>1, <3>2 DEF Idle
      <4>2. QED
        BY <4>1
    <3>3. CASE q # r
      BY <1>0, <3>1, <3>3
    <3>4. QED
      BY <3>2, <3>3
  <2>2. CASE Enter(q)
    BY <2>2, MovedPlace DEF Enter
  <2>3. CASE Abort(q)
    BY <2>3, RefusedPlace DEF Abort
  <2>4. CASE Cancel(q) \/ Release(q)
    BY <1>0, <2>4 DEF Cancel, Release, Idle
  <2>5. QED
    BY <1>2, <2>1, <2>2, <2>3, <2>4
<1>3. ASSUME NEW q \in Requests, Prepare(q) \/ Check(q) \/ Discard(q) \/ MakeRoom(q)
      PROVE  FALSE
  <2>1. CASE Prepare(q)
    <3>1. req' = [req EXCEPT ![q].at = "check", ![q].goal = Manifest(req[q].ask)]
      BY <2>1 DEF Prepare
    <3>2. req'[r].at \in {"check", req[r].at}
      BY <1>0, <3>1 DEF Request
    <3>3. QED
      BY <3>2
  <2>2. CASE Check(q)
    BY <2>2, CheckedPlace DEF Check
  <2>3. CASE Discard(q)
    BY <2>3, RefusedPlace, MovedPlace DEF Discard, AfterDiscard
  <2>4. CASE MakeRoom(q)
    BY <2>4, RefusedPlace, MovedPlace DEF MakeRoom, AfterRoom
  <2>5. QED
    BY <1>3, <2>1, <2>2, <2>3, <2>4
<1>4. ASSUME NEW q \in Requests, Fetch(q) \/ Write(q) \/ Commit(q)
      PROVE  FALSE
  <2>1. CASE Fetch(q)
    <3>1. CASE Refuse(q)
      BY <3>1, RefusedPlace
    <3>2. ASSUME NEW body, req' = [req EXCEPT ![q].at = AfterFetch(req[q].goal), ![q].body = body]
          PROVE  FALSE
      <4>1. req'[r].at \in {AfterFetch(req[q].goal), req[r].at}
        BY <1>0, <3>2 DEF Request
      <4>2. QED
        BY <4>1 DEF AfterFetch
    <3>3. QED
      BY <2>1, <3>1, <3>2 DEF Fetch
  <2>2. CASE Write(q)
    BY <2>2, MovedPlace DEF Write
  <2>3. CASE Commit(q)
    BY <2>3, RefusedPlace, CheckedPlace DEF Commit
  <2>4. QED
    BY <1>4, <2>1, <2>2, <2>3
<1>5. ASSUME NEW k \in Keys, Damage(k) PROVE FALSE
  BY <1>5 DEF Damage
<1>6. CASE Crash
  BY <1>6 DEF Crash, Idle
<1>7. QED
  BY <1>1, <1>2, <1>3, <1>4, <1>5, <1>6 DEF Next

\* Only verified files are served, for any number of concurrent requests: neither a
\* damaged file nor a download that was cut off or altered (validAgentBinary, the
\* comparison before the rename in openAgentAsset).
THEOREM VerifiedServed == Spec => OnlyVerifiedServed
<1>1. Init => SoundInv
  BY CacheInit DEF SoundInv, OpenSound, Init
<1>2. SoundInv /\ [Next]_vars => SoundInv'
  <2> SUFFICES ASSUME SoundInv, [Next]_vars PROVE SoundInv'
    OBVIOUS
  <2>1. CacheInv'
    BY CacheNext DEF SoundInv
  <2>2. CASE UNCHANGED vars
    BY <2>1, <2>2 DEF SoundInv, OpenSound, vars
  <2>3. CASE Next
    BY <2>1, <2>3, WorkSound, OthersSound DEF SoundInv
  <2>4. QED
    BY <2>2, <2>3
<1>3. SoundInv /\ [Next]_vars =>
        [\A r \in Requests : req[r].at # "serving" /\ req'[r].at = "serving"
           => req[r].ask \in Stored \ damaged]_vars
  BY ServesVerified
<1>4. QED
  BY <1>1, <1>2, <1>3, PTL DEF Spec, OnlyVerifiedServed

-----------------------------------------------------------------------------
\* Arithmetic of sizes and numbers of files.
LEMMA Product ==
  ASSUME NEW a \in Nat, NEW m \in Nat, NEW n \in Nat, m <= n
  PROVE  a * m \in Nat /\ a * m <= a * n /\ a * (m + 1) = a * m + a
OBVIOUS

\* The files of a kind are counted.
LEMMA FilesCount ==
  ASSUME NEW S, IsFiniteSet(S), NEW T \in SUBSET S, NEW kind
  PROVE  /\ FilesOf(S, kind) \in Nat /\ FilesOf(T, kind) \in Nat
         /\ FilesOf(T, kind) <= FilesOf(S, kind)
<1> DEFINE A == {k \in S : k[2] = kind}
           B == {k \in T : k[2] = kind}
<1>1. A \subseteq S /\ B \subseteq A
  OBVIOUS
<1>2. IsFiniteSet(A)
  BY <1>1, FS_Subset
<1>3. IsFiniteSet(B) /\ Cardinality(B) <= Cardinality(A)
  BY <1>1, <1>2, FS_Subset
<1>4. Cardinality(A) \in Nat /\ Cardinality(B) \in Nat
  BY <1>2, <1>3, FS_CardinalityType
<1> QED BY <1>3, <1>4 DEF FilesOf

\* One more file counts once, and only for its kind.
LEMMA FilesAdd ==
  ASSUME NEW S, IsFiniteSet(S), NEW x, NEW kind
  PROVE  /\ x[2] # kind => FilesOf(S \union {x}, kind) = FilesOf(S, kind)
         /\ x[2] = kind => FilesOf(S \union {x}, kind) \in {FilesOf(S, kind), FilesOf(S, kind) + 1}
<1> DEFINE A == {k \in S : k[2] = kind}
           B == {k \in S \union {x} : k[2] = kind}
<1>1. A \subseteq S
  OBVIOUS
<1>2. IsFiniteSet(A)
  BY <1>1, FS_Subset
<1>3. CASE x[2] # kind
  <2>1. A = B
    BY <1>3
  <2> QED BY <1>3, <2>1 DEF FilesOf
<1>4. CASE x[2] = kind
  <2>1. B = A \union {x}
    BY <1>4
  <2> HIDE DEF A, B
  <2>2. Cardinality(A \union {x}) \in {Cardinality(A), Cardinality(A) + 1}
    BY <1>2, FS_AddElement
  <2> QED BY <1>4, <2>1, <2>2 DEF FilesOf, A, B
<1> QED BY <1>3, <1>4

\* Fewer files take less.
LEMMA BytesMono ==
  ASSUME NEW S, IsFiniteSet(S), NEW T \in SUBSET S
  PROVE  Bytes(S) \in Nat /\ Bytes(T) \in Nat /\ Bytes(T) <= Bytes(S)
<1>1. /\ SizeOf["manifest"] \in Nat /\ SizeOf["sums"] \in Nat /\ SizeOf["binary"] \in Nat
      /\ Foreign \in Nat
  BY CacheAssumption DEF Kinds
<1>2. \A kind : /\ FilesOf(S, kind) \in Nat /\ FilesOf(T, kind) \in Nat
                /\ FilesOf(T, kind) <= FilesOf(S, kind)
  BY FilesCount
<1>3. /\ SizeOf["manifest"] * FilesOf(T, "manifest") \in Nat
      /\ SizeOf["manifest"] * FilesOf(S, "manifest") \in Nat
      /\ SizeOf["manifest"] * FilesOf(T, "manifest") <= SizeOf["manifest"] * FilesOf(S, "manifest")
  BY <1>1, <1>2, Product
<1>4. /\ SizeOf["sums"] * FilesOf(T, "sums") \in Nat
      /\ SizeOf["sums"] * FilesOf(S, "sums") \in Nat
      /\ SizeOf["sums"] * FilesOf(T, "sums") <= SizeOf["sums"] * FilesOf(S, "sums")
  BY <1>1, <1>2, Product
<1>5. /\ SizeOf["binary"] * FilesOf(T, "binary") \in Nat
      /\ SizeOf["binary"] * FilesOf(S, "binary") \in Nat
      /\ SizeOf["binary"] * FilesOf(T, "binary") <= SizeOf["binary"] * FilesOf(S, "binary")
  BY <1>1, <1>2, Product
<1> QED BY <1>1, <1>3, <1>4, <1>5 DEF Bytes

\* One more file takes its size.
LEMMA BytesAdd ==
  ASSUME NEW S, IsFiniteSet(S), NEW x \in Keys
  PROVE  Bytes(S \union {x}) <= Bytes(S) + Size(x) /\ Size(x) \in Nat
<1>1. /\ SizeOf["manifest"] \in Nat /\ SizeOf["sums"] \in Nat /\ SizeOf["binary"] \in Nat
      /\ Foreign \in Nat
  BY CacheAssumption DEF Kinds
<1>2. S \in SUBSET S /\ \A kind : FilesOf(S, kind) \in Nat
  BY FilesCount
<1>3. x[2] \in {"manifest", "sums", "binary"}
  BY DEF Keys, Kinds
<1>4. /\ SizeOf["manifest"] * FilesOf(S, "manifest") \in Nat
      /\ SizeOf["manifest"] * (FilesOf(S, "manifest") + 1)
           = SizeOf["manifest"] * FilesOf(S, "manifest") + SizeOf["manifest"]
  BY <1>1, <1>2, Product
<1>5. /\ SizeOf["sums"] * FilesOf(S, "sums") \in Nat
      /\ SizeOf["sums"] * (FilesOf(S, "sums") + 1)
           = SizeOf["sums"] * FilesOf(S, "sums") + SizeOf["sums"]
  BY <1>1, <1>2, Product
<1>6. /\ SizeOf["binary"] * FilesOf(S, "binary") \in Nat
      /\ SizeOf["binary"] * (FilesOf(S, "binary") + 1)
           = SizeOf["binary"] * FilesOf(S, "binary") + SizeOf["binary"]
  BY <1>1, <1>2, Product
<1>7. CASE x[2] = "manifest"
  <2>1. /\ FilesOf(S \union {x}, "sums") = FilesOf(S, "sums")
        /\ FilesOf(S \union {x}, "binary") = FilesOf(S, "binary")
        /\ FilesOf(S \union {x}, "manifest") \in {FilesOf(S, "manifest"), FilesOf(S, "manifest") + 1}
    BY <1>7, FilesAdd
  <2> QED BY <1>1, <1>4, <1>5, <1>6, <1>7, <2>1 DEF Bytes, Size
<1>8. CASE x[2] = "sums"
  <2>1. /\ FilesOf(S \union {x}, "manifest") = FilesOf(S, "manifest")
        /\ FilesOf(S \union {x}, "binary") = FilesOf(S, "binary")
        /\ FilesOf(S \union {x}, "sums") \in {FilesOf(S, "sums"), FilesOf(S, "sums") + 1}
    BY <1>8, FilesAdd
  <2> QED BY <1>1, <1>4, <1>5, <1>6, <1>8, <2>1 DEF Bytes, Size
<1>9. CASE x[2] = "binary"
  <2>1. /\ FilesOf(S \union {x}, "manifest") = FilesOf(S, "manifest")
        /\ FilesOf(S \union {x}, "sums") = FilesOf(S, "sums")
        /\ FilesOf(S \union {x}, "binary") \in {FilesOf(S, "binary"), FilesOf(S, "binary") + 1}
    BY <1>9, FilesAdd
  <2> QED BY <1>1, <1>4, <1>5, <1>6, <1>9, <2>1 DEF Bytes, Size
<1> QED BY <1>3, <1>7, <1>8, <1>9

-----------------------------------------------------------------------------
\* The directory holds finitely many files.
Sized == IsFiniteSet(Stored) /\ temp \in Nat /\ leftover \in Nat

\* Whoever goes on to write has room for what it writes.
Reserved == \A r \in Requests :
  req[r].at = "write" \/ (req[r].at = "fetch" /\ IsBinary(req[r].goal)) =>
    Bytes(Stored) + leftover + Size(req[r].goal) <= Capacity

\* The file that is about to get its name is the temporary one.
Weighed == \A r \in Requests : req[r].at = "commit" => temp = Size(req[r].goal)

Room == Sized /\ Reserved /\ Weighed

\* What a step may do to the space in use.
Growth == Usage' > Usage => Usage' <= Capacity

\* A step of the holder of the gate.
LEMMA HolderRoom ==
  ASSUME CacheInv, Room, NEW r \in Requests, gate = r,
         \A other \in Requests \ {r} : req'[other] = req[other],
         IsFiniteSet(Stored'), temp' \in Nat, leftover' \in Nat,
         req'[r].at = "write" \/ (req'[r].at = "fetch" /\ IsBinary(req'[r].goal)) =>
           Bytes(Stored') + leftover' + Size(req'[r].goal) <= Capacity,
         req'[r].at = "commit" => temp' = Size(req'[r].goal)
  PROVE  Room'
<1>1. \A other \in Requests \ {r} : req[other].at \notin {"write", "fetch", "commit"}
  BY DEF CacheInv, Alone, Inside
<1>2. Reserved'
  BY <1>1 DEF Reserved
<1>3. Weighed'
  BY <1>1 DEF Weighed
<1> QED BY <1>2, <1>3 DEF Room, Sized

\* What removing files leaves.
LEMMA Removed == ASSUME CacheInv, NEW E, RemoveFiles(E) PROVE Stored' = Stored \ E
BY DEF RemoveFiles, Stored, CacheInv, Shape

\* The space in use when no file is added.
LEMMA LessUsed ==
  ASSUME Room, Stored' \subseteq Stored, temp' \in Nat, leftover' \in Nat,
         temp' + leftover' <= temp + leftover
  PROVE  Growth /\ IsFiniteSet(Stored')
<1>1. IsFiniteSet(Stored) /\ temp \in Nat /\ leftover \in Nat
  BY DEF Room, Sized
<1>2. Bytes(Stored) \in Nat /\ Bytes(Stored') \in Nat /\ Bytes(Stored') <= Bytes(Stored)
  BY <1>1, BytesMono
<1>3. IsFiniteSet(Stored')
  BY <1>1, FS_Subset
<1>4. PICK b \in Nat, c \in Nat : b = Bytes(Stored) /\ c = Bytes(Stored') /\ c <= b
  BY <1>2
<1>5. PICK t \in Nat, l \in Nat : t = temp' /\ l = leftover' /\ t + l <= temp + leftover
  OBVIOUS
<1>6. Usage = b + temp + leftover
  BY <1>4 DEF Usage
<1>7. Usage' = c + t + l
  BY <1>4, <1>5 DEF Usage
<1>8. c + t + l <= b + temp + leftover
  <2>1. PICK u \in Nat, v \in Nat : u = temp /\ v = leftover
    BY <1>1
  <2>2. c <= b /\ t + l <= u + v
    BY <1>4, <1>5, <2>1
  <2>3. c + t + l <= b + u + v
    BY <2>2
  <2> QED BY <2>1, <2>3
<1>9. ~(Usage' > Usage)
  <2>1. PICK v : v = Usage' /\ v = c + t + l
    BY <1>7
  <2> QED BY <1>1, <1>4, <1>5, <1>6, <1>8, <2>1
<1> QED BY <1>3, <1>9 DEF Growth

\* Every error return.
LEMMA RefusedRoom ==
  ASSUME CacheInv, Room, NEW r \in Requests, gate = r, Refuse(r),
         Stored' \subseteq Stored, leftover' = leftover
  PROVE  Room' /\ Growth
<1>1. temp' = 0 /\ temp \in Nat /\ leftover \in Nat
  BY DEF Refuse, Room, Sized
<1>2. Growth /\ IsFiniteSet(Stored')
  BY <1>1, LessUsed
<1>3. req' = [req EXCEPT ![r] = Idle] /\ req \in [Requests -> Request]
  BY DEF Refuse, CacheInv, Shape
<1>4. req'[r].at = "idle" /\ \A other \in Requests \ {r} : req'[other] = req[other]
  BY <1>3 DEF Idle
<1> QED BY <1>1, <1>2, <1>4, HolderRoom

\* Moving on inside the gate.
LEMMA MovedRoom ==
  ASSUME CacheInv, Room, NEW r \in Requests, gate = r, NEW place, Goto(r, place)
  PROVE  /\ req'[r].at = place /\ req'[r].goal = req[r].goal
         /\ \A other \in Requests \ {r} : req'[other] = req[other]
<1>1. req' = [req EXCEPT ![r].at = place] /\ req \in [Requests -> Request]
  BY DEF Goto, CacheInv, Shape
<1> QED BY <1>1 DEF Request

\* A request that has its file goes on to nothing that writes.
LEMMA CheckedRoom ==
  ASSUME CacheInv, NEW r \in Requests, req' = [req EXCEPT ![r] = AfterCheck(r)]
  PROVE  /\ req'[r].at \in {"open", "check"}
         /\ \A other \in Requests \ {r} : req'[other] = req[other]
<1>1. req \in [Requests -> Request]
  BY DEF CacheInv, Shape
<1>2. AfterCheck(r).at \in {"open", "check"}
  <2>1. \/ AfterCheck(r) = [Idle EXCEPT !.at = "open", !.ask = req[r].ask]
        \/ AfterCheck(r) = [Idle EXCEPT !.at = "check", !.ask = req[r].ask, !.goal = req[r].ask]
    BY DEF AfterCheck
  <2> QED BY <2>1 DEF Idle
<1> QED BY <1>1, <1>2

\* prepare only removes: temporary files of an earlier process, and stored files.
LEMMA PrepareRoom == ASSUME CacheInv, Room, NEW r \in Requests, Prepare(r) PROVE Room' /\ Growth
<1>1. /\ gate = r /\ temp' = temp /\ leftover' = IF initialized THEN leftover ELSE 0
      /\ req' = [req EXCEPT ![r].at = "check", ![r].goal = Manifest(req[r].ask)]
      /\ temp \in Nat /\ leftover \in Nat
  BY DEF Prepare, Room, Sized
<1>2. PICK E : RemoveFiles(E)
  BY DEF Prepare
<1>3. Stored' \subseteq Stored
  BY <1>2, Removed
<1>4. leftover' \in Nat /\ temp' + leftover' <= temp + leftover
  <2>1. PICK l : l = (IF initialized THEN leftover ELSE 0) /\ l = leftover'
    BY <1>1
  <2>2. l \in Nat /\ temp + l <= temp + leftover
    BY <1>1, <2>1
  <2> QED BY <1>1, <2>1, <2>2
<1>5. Growth /\ IsFiniteSet(Stored')
  BY <1>1, <1>3, <1>4, LessUsed
<1>6. req'[r].at = "check" /\ \A other \in Requests \ {r} : req'[other] = req[other]
  <2>1. req \in [Requests -> Request]
    BY DEF CacheInv, Shape
  <2> QED BY <1>1, <2>1 DEF Request
<1> QED BY <1>1, <1>4, <1>5, <1>6, HolderRoom

\* A valid file is used as it is.
LEMMA CheckRoom == ASSUME CacheInv, Room, NEW r \in Requests, Check(r) PROVE Room' /\ Growth
<1>1. /\ gate = r /\ temp' = temp /\ leftover' = leftover /\ mtime' = mtime
      /\ req' = [req EXCEPT ![r] = AfterCheck(r)] /\ temp \in Nat /\ leftover \in Nat
  BY DEF Check, files, Room, Sized
<1>2. Stored' \subseteq Stored
  BY <1>1 DEF Stored
<1>3. Growth /\ IsFiniteSet(Stored')
  BY <1>1, <1>2, LessUsed
<1> QED BY <1>1, <1>3, CheckedRoom, HolderRoom

\* An invalid file is removed; a download without a reservation is metadata.
LEMMA DiscardRoom == ASSUME CacheInv, Room, NEW r \in Requests, Discard(r) PROVE Room' /\ Growth
<1>1. gate = r /\ leftover' = leftover /\ temp \in Nat /\ leftover \in Nat
  BY DEF Discard, Room, Sized
<1>2. CASE Refuse(r) /\ UNCHANGED files
  <2>1. Stored' \subseteq Stored
    BY <1>2 DEF Stored, files
  <2> QED BY <1>1, <1>2, <2>1, RefusedRoom
<1>3. CASE RemoveFiles({req[r].goal}) /\ Goto(r, AfterDiscard(req[r].goal)) /\ temp' = temp
  <2>1. Stored' \subseteq Stored
    BY <1>3, Removed
  <2>2. Growth /\ IsFiniteSet(Stored')
    BY <1>1, <1>3, <2>1, LessUsed
  <2>3. /\ req'[r].at = AfterDiscard(req[r].goal) /\ req'[r].goal = req[r].goal
        /\ \A other \in Requests \ {r} : req'[other] = req[other]
    BY <1>1, <1>3, MovedRoom
  <2>4. /\ req'[r].at \notin {"write", "commit"}
        /\ ~(req'[r].at = "fetch" /\ IsBinary(req'[r].goal))
    BY <2>3 DEF AfterDiscard
  <2> QED BY <1>1, <1>3, <2>2, <2>3, <2>4, HolderRoom
<1> QED BY <1>2, <1>3 DEF Discard

\* makeRoom reserves what the request is about to write.
LEMMA MakeRoomRoom == ASSUME CacheInv, Room, NEW r \in Requests, MakeRoom(r) PROVE Room' /\ Growth
<1> DEFINE k == req[r].goal
<1>1. gate = r /\ leftover' = leftover /\ temp \in Nat /\ leftover \in Nat /\ req[r].at = "room"
  BY DEF MakeRoom, Room, Sized
<1>2. CASE Refuse(r) /\ UNCHANGED files
  <2>1. Stored' \subseteq Stored
    BY <1>2 DEF Stored, files
  <2> QED BY <1>1, <1>2, <2>1, RefusedRoom
<1>3. ASSUME NEW E, RemoveFiles(E), Refuse(r) PROVE Room' /\ Growth
  <2>1. Stored' \subseteq Stored
    BY <1>3, Removed
  <2> QED BY <1>1, <1>3, <2>1, RefusedRoom
<1>4. ASSUME NEW E, RemoveFiles(E), Fits(E, leftover + Size(k)), Goto(r, AfterRoom(k)), temp' = temp
      PROVE  Room' /\ Growth
  <2>1. Stored' = Stored \ E
    BY <1>4, Removed
  <2>2. Growth /\ IsFiniteSet(Stored')
    BY <1>1, <1>4, <2>1, LessUsed
  <2>3. /\ req'[r].at = AfterRoom(k) /\ req'[r].goal = k
        /\ \A other \in Requests \ {r} : req'[other] = req[other]
    BY <1>1, <1>4, MovedRoom
  <2>4. req'[r].at # "commit"
    BY <2>3 DEF AfterRoom
  <2>5. Bytes(Stored') + leftover' + Size(k) <= Capacity
    <3>1. Bytes(Stored') \in Nat
      BY <2>2, BytesMono
    <3>2. k \in Keys
      BY <1>1 DEF CacheInv, Asking
    <3>3. Size(k) \in Nat
      BY <2>2, <3>2, BytesAdd
    <3>4. PICK b \in Nat, n \in Nat : b = Bytes(Stored') /\ b = Bytes(Stored \ E) /\ n = Size(k)
      BY <2>1, <3>1, <3>3
    <3>5. b + (leftover + n) <= Capacity
      BY <1>4, <3>4 DEF Fits
    <3>6. b + leftover + n <= Capacity
      BY <1>1, <3>4, <3>5, CacheAssumption
    <3> QED BY <1>1, <3>4, <3>6
  <2> QED BY <1>1, <1>4, <2>2, <2>3, <2>4, <2>5, HolderRoom
<1> QED BY <1>2, <1>3, <1>4 DEF MakeRoom

\* The download of a binary keeps the reservation.
LEMMA FetchRoom == ASSUME CacheInv, Room, NEW r \in Requests, Fetch(r) PROVE Room' /\ Growth
<1> DEFINE k == req[r].goal
<1>1. /\ gate = r /\ leftover' = leftover /\ mtime' = mtime /\ req[r].at = "fetch"
      /\ temp \in Nat /\ leftover \in Nat /\ req \in [Requests -> Request]
  BY DEF Fetch, files, Room, Sized, CacheInv, Shape
<1>2. Stored' = Stored
  BY <1>1 DEF Stored
<1>3. CASE Refuse(r)
  BY <1>1, <1>2, <1>3, RefusedRoom
<1>4. ASSUME NEW body, temp' = temp, req' = [req EXCEPT ![r].at = AfterFetch(k), ![r].body = body]
      PROVE  Room' /\ Growth
  <2>1. Growth /\ IsFiniteSet(Stored')
    BY <1>1, <1>2, <1>4, LessUsed
  <2>2. /\ req'[r].at = AfterFetch(k) /\ req'[r].goal = k
        /\ \A other \in Requests \ {r} : req'[other] = req[other]
    BY <1>1, <1>4 DEF Request
  <2>3. req'[r].at \notin {"fetch", "commit"}
    BY <2>2 DEF AfterFetch
  <2>4. req'[r].at = "write" => Bytes(Stored') + leftover' + Size(k) <= Capacity
    BY <1>1, <1>2, <2>2 DEF AfterFetch, Room, Reserved
  <2> QED BY <1>1, <1>4, <2>1, <2>2, <2>3, <2>4, HolderRoom
<1> QED BY <1>3, <1>4 DEF Fetch

\* What is written was reserved.
LEMMA WriteRoom == ASSUME CacheInv, Room, NEW r \in Requests, Write(r) PROVE Room' /\ Growth
<1> DEFINE k == req[r].goal
<1>1. /\ gate = r /\ leftover' = leftover /\ mtime' = mtime /\ req[r].at = "write"
      /\ temp' = Size(k) /\ Goto(r, "commit") /\ temp \in Nat /\ leftover \in Nat
      /\ IsFiniteSet(Stored)
  BY DEF Write, files, Room, Sized
<1>2. Stored' = Stored
  BY <1>1 DEF Stored
<1>3. k \in Keys
  BY <1>1 DEF CacheInv, Asking
<1>4. Size(k) \in Nat /\ Bytes(Stored) \in Nat
  BY <1>1, <1>3, BytesAdd, BytesMono
<1>5. /\ req'[r].at = "commit" /\ req'[r].goal = k
      /\ \A other \in Requests \ {r} : req'[other] = req[other]
  BY <1>1, MovedRoom
<1>6. Room'
  BY <1>1, <1>2, <1>4, <1>5, HolderRoom
<1>7. Bytes(Stored) + leftover + Size(k) <= Capacity
  BY <1>1 DEF Room, Reserved
<1>8. PICK b \in Nat, n \in Nat : b = Bytes(Stored) /\ b = Bytes(Stored') /\ n = Size(k) /\ n = temp'
  BY <1>1, <1>2, <1>4
<1>9. Usage' = b + n + leftover
  BY <1>1, <1>8 DEF Usage
<1>10. b + n + leftover <= Capacity
  BY <1>1, <1>7, <1>8, CacheAssumption
<1> QED BY <1>6, <1>9, <1>10 DEF Growth

\* The temporary file becomes a stored one of the same size.
LEMMA CommitRoom == ASSUME CacheInv, Room, NEW r \in Requests, Commit(r) PROVE Room' /\ Growth
<1> DEFINE k == req[r].goal
<1>1. /\ gate = r /\ leftover' = leftover /\ req[r].at = "commit"
      /\ temp \in Nat /\ leftover \in Nat /\ IsFiniteSet(Stored)
  BY DEF Commit, Room, Sized
<1>2. CASE Refuse(r) /\ UNCHANGED files
  <2>1. Stored' \subseteq Stored
    BY <1>2 DEF Stored, files
  <2> QED BY <1>1, <1>2, <2>1, RefusedRoom
<1>3. CASE /\ mtime' = [mtime EXCEPT ![k] = Latest + 1] /\ temp' = 0
           /\ req' = [req EXCEPT ![r] = AfterCheck(r)]
  <2>1. k \in Keys /\ temp = Size(k)
    BY <1>1 DEF CacheInv, Asking, Room, Weighed
  <2>2. Stored' \subseteq Stored \union {k}
    BY <1>3 DEF Stored, CacheInv, Shape
  <2>3. IsFiniteSet(Stored \union {k})
    BY <1>1, FS_AddElement
  <2>4. IsFiniteSet(Stored') /\ Bytes(Stored') \in Nat /\ Bytes(Stored') <= Bytes(Stored \union {k})
    BY <2>2, <2>3, BytesMono, FS_Subset
  <2>5. /\ Bytes(Stored \union {k}) <= Bytes(Stored) + temp /\ Bytes(Stored) \in Nat
        /\ Bytes(Stored \union {k}) \in Nat
    BY <1>1, <2>1, <2>3, BytesAdd, BytesMono
  <2>6. PICK b \in Nat, c \in Nat : b = Bytes(Stored) /\ c = Bytes(Stored') /\ c <= b + temp
    BY <1>1, <2>4, <2>5
  <2>7. Usage = b + temp + leftover
    BY <2>6 DEF Usage
  <2>8. Usage' = c + 0 + leftover
    BY <1>1, <1>3, <2>6 DEF Usage
  <2>9. ~(Usage' > Usage)
    <3>1. PICK v : v = Usage' /\ v = c + 0 + leftover
      BY <2>8
    <3> QED BY <1>1, <2>6, <2>7, <3>1
  <2>10. Room'
    BY <1>1, <1>3, <2>4, CheckedRoom, HolderRoom
  <2> QED BY <2>9, <2>10 DEF Growth
<1> QED BY <1>2, <1>3 DEF Commit

\* Serving takes no space.
LEMMA OpenRoom == ASSUME CacheInv, Room, NEW r \in Requests, Open(r) PROVE Room' /\ Growth
<1>1. /\ gate = r /\ leftover' = leftover /\ mtime' = mtime /\ temp' = temp
      /\ Goto(r, "serving") /\ temp \in Nat /\ leftover \in Nat
  BY DEF Open, files, Room, Sized
<1>2. Stored' \subseteq Stored
  BY <1>1 DEF Stored
<1>3. Growth /\ IsFiniteSet(Stored')
  BY <1>1, <1>2, LessUsed
<1>4. req'[r].at = "serving" /\ \A other \in Requests \ {r} : req'[other] = req[other]
  BY <1>1, MovedRoom
<1> QED BY <1>1, <1>3, <1>4, HolderRoom

\* Steps that leave the directory alone and bring nobody to a download.
LEMMA AsideRoom ==
  ASSUME CacheInv, Room, UNCHANGED <<mtime, temp, leftover>>,
         \A r \in Requests : req'[r] = req[r] \/ req'[r].at \notin {"write", "fetch", "commit"}
  PROVE  Room' /\ Growth
<1>1. temp \in Nat /\ leftover \in Nat /\ Stored' = Stored
  BY DEF Room, Sized, Stored
<1>2. Growth /\ IsFiniteSet(Stored')
  BY <1>1, LessUsed
<1>3. Reserved'
  BY <1>1 DEF Room, Reserved
<1>4. Weighed'
  BY DEF Room, Weighed
<1> QED BY <1>1, <1>2, <1>3, <1>4 DEF Room, Sized

\* Requests outside of the gate, and error returns.
LEMMA OthersRoom ==
  ASSUME CacheInv, Room, NEW r \in Requests,
         Ask(r) \/ Enter(r) \/ Cancel(r) \/ Abort(r) \/ Release(r)
  PROVE  Room' /\ Growth
<1>0. req \in [Requests -> Request]
  BY DEF CacheInv, Shape
<1>1. CASE Ask(r)
  <2>1. PICK k \in Keys : req' = [req EXCEPT ![r] = [Idle EXCEPT !.at = "waiting", !.ask = k]]
    BY <1>1 DEF Ask
  <2>2. [Idle EXCEPT !.at = "waiting", !.ask = k].at = "waiting"
    BY DEF Idle
  <2>3. \A q \in Requests : req'[q] = req[q] \/ req'[q].at = "waiting"
    BY <1>0, <2>1, <2>2
  <2> QED BY <1>1, <2>3, AsideRoom DEF Ask, files
<1>2. CASE Enter(r)
  <2>1. \A q \in Requests : req'[q] = req[q] \/ req'[q].at = "prepare"
    BY <1>0, <1>2 DEF Enter, Goto, Request
  <2> QED BY <1>2, <2>1, AsideRoom DEF Enter, files
<1>3. CASE Cancel(r) \/ Release(r)
  <2>1. \A q \in Requests : req'[q] = req[q] \/ req'[q].at = "idle"
    BY <1>0, <1>3 DEF Cancel, Release, Idle
  <2> QED BY <1>3, <2>1, AsideRoom DEF Cancel, Release, files
<1>4. CASE Abort(r)
  <2>1. gate = r /\ Refuse(r) /\ leftover' = leftover /\ Stored' \subseteq Stored
    BY <1>4 DEF Abort, files, Stored
  <2> QED BY <2>1, RefusedRoom
<1> QED BY <1>1, <1>2, <1>3, <1>4

\* A crash leaves the temporary file behind.
LEMMA CrashRoom == ASSUME CacheInv, Room, Crash PROVE Room' /\ Growth
<1>1. /\ temp' = 0 /\ leftover' = leftover + temp /\ mtime' = mtime
      /\ req' = [r \in Requests |-> Idle] /\ temp \in Nat /\ leftover \in Nat
  BY DEF Crash, files, Room, Sized
<1>2. Stored' \subseteq Stored
  BY <1>1 DEF Stored
<1>3. PICK l \in Nat : l = leftover' /\ l = leftover + temp
  BY <1>1
<1>4. temp' + leftover' <= temp + leftover
  <2>1. 0 + l <= temp + leftover
    BY <1>1, <1>3
  <2> QED BY <1>1, <1>3, <2>1
<1>5. Growth /\ IsFiniteSet(Stored')
  BY <1>1, <1>2, <1>3, <1>4, LessUsed
<1>6. \A r \in Requests : req'[r].at = "idle"
  BY <1>1 DEF Idle
<1> QED BY <1>1, <1>3, <1>5, <1>6 DEF Room, Sized, Reserved, Weighed

\* Every step keeps the reservation, and grows only within the capacity.
LEMMA NextRoom == ASSUME CacheInv, Room, [Next]_vars PROVE Room' /\ [Growth]_vars
<1>1. CASE UNCHANGED vars
  <2>1. Room'
    BY <1>1, AsideRoom DEF vars
  <2> QED BY <1>1, <2>1
<1>2. ASSUME NEW r \in Requests,
             \/ Ask(r) \/ Enter(r) \/ Cancel(r) \/ Abort(r) \/ Release(r)
             \/ Prepare(r) \/ Check(r) \/ Discard(r) \/ MakeRoom(r) \/ Fetch(r)
             \/ Write(r) \/ Commit(r) \/ Open(r)
      PROVE  Room' /\ Growth
  BY <1>2, OthersRoom, PrepareRoom, CheckRoom, DiscardRoom, MakeRoomRoom, FetchRoom,
     WriteRoom, CommitRoom, OpenRoom
<1>3. ASSUME NEW k \in Keys, Damage(k) PROVE Room' /\ Growth
  BY <1>3, AsideRoom DEF Damage
<1> QED BY <1>1, <1>2, <1>3, CrashRoom DEF Next

\* The space in use grows only within the capacity, for any number of concurrent
\* requests, any sizes and any number of crashes: what a request writes was reserved
\* by makeRoom, and nobody used it up in the meantime.
THEOREM StaysWithinCapacity == Spec => NeverOutgrows
<1>1. Init => Room
  <2> SUFFICES ASSUME Init PROVE Room
    OBVIOUS
  <2>1. PICK S \in SUBSET Found : mtime = [k \in Keys |-> IF k \in S THEN 1 ELSE 0]
    BY DEF Init
  <2>2. Stored \subseteq Found
    BY <2>1 DEF Stored
  <2>3. IsFiniteSet(Stored)
    BY <2>2, FS_Subset, CacheAssumption
  <2>4. \A r \in Requests : req[r].at = "idle"
    BY DEF Init, Idle
  <2> QED BY <2>3, <2>4 DEF Room, Sized, Reserved, Weighed, Init
<1>2. CacheInv /\ Room /\ [Next]_vars => Room' /\ [Growth]_vars
  BY NextRoom
<1>3. [][Growth]_vars => NeverOutgrows
  BY DEF Growth, NeverOutgrows
<1> QED BY <1>1, <1>2, <1>3, CacheInit, CacheNext, PTL DEF Spec
=============================================================================
