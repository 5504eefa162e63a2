---------------------------- MODULE ReleaseCache ----------------------------
(* The hub's cache of agent releases.  Requests for a release file take     *)
(* turns at the gate: the holder checks the cached manifest and the file    *)
(* that was asked for, discards what is not valid, makes room, downloads,   *)
(* verifies and renames, and takes a lease on the file before it leaves the *)
(* gate.  The file is then served without the gate, while other requests    *)
(* evict and download.                                                      *)
EXTENDS Integers, FiniteSets, FiniteSetsExt, Functions

CONSTANTS
  Requests,    \* handlers that may run at the same time
  Versions,    \* releases
  SizeOf,      \* bytes of each kind of file
  Capacity,    \* cfg.agentCacheBytes
  Foreign,     \* bytes of files in the directory that are not the cache's
  Found,       \* the managed files an earlier process may have left
  MaxAsk,      \* bound: requests
  MaxDamage,   \* bound: files damaged on the disk
  MaxCrash     \* bound: restarts of the hub

None == "none"
Kinds == {"manifest", "sums", "binary"}
Keys == Versions \X Kinds
Size(k) == SizeOf[k[2]]

ASSUME CacheAssumption ==
  /\ SizeOf \in [Kinds -> Nat \ {0}]
  /\ Capacity \in Nat
  /\ Foreign \in 0 .. Capacity
  /\ Found \subseteq Keys /\ IsFiniteSet(Found)
  /\ IsFiniteSet(Requests) /\ None \notin Requests

VARIABLES
  mtime,        \* modification time of each stored file, 0: there is none
  damaged,      \* stored files whose content is no longer what was released
  temp,         \* bytes in the temporary file of the request inside the gate
  leftover,     \* bytes in temporary files of an earlier process
  refs,         \* leases on each file
  initialized,  \* this process has removed what an earlier one left
  gate,         \* the request inside the gate, or None
  req,          \* each request: where it is, what it asked for, what it works on
  asks, hurts, crashes   \* counters for the bounds

vars == <<mtime, damaged, temp, leftover, refs, initialized, gate, req, asks, hurts, crashes>>

NoKey == <<None, None>>
Inside == {"prepare", "check", "room", "fetch", "write", "commit", "open"}
Places == {"idle", "waiting", "serving"} \union Inside
Idle == [at |-> "idle", ask |-> NoKey, goal |-> NoKey, body |-> None]

Stored == {k \in Keys : mtime[k] > 0}
IsBinary(k) == k[2] = "binary"
Manifest(k) == <<k[1], "manifest">>

\* What the files in the directory take, as makeRoom counts them: files of one
\* kind have one size.
FilesOf(S, kind) == Cardinality({k \in S : k[2] = kind})
Bytes(S) ==
  SizeOf["manifest"] * FilesOf(S, "manifest") + SizeOf["sums"] * FilesOf(S, "sums")
    + SizeOf["binary"] * FilesOf(S, "binary") + Foreign
Usage == Bytes(Stored) + temp + leftover

\* Type invariant: the directory, the leases and the requests.
TypeOK ==
  /\ mtime \in [Keys -> Nat]
  /\ damaged \subseteq Stored
  /\ temp \in Nat
  /\ leftover \in Nat
  /\ refs \in [Keys -> Nat]
  /\ initialized \in BOOLEAN
  /\ gate \in Requests \union {None}
  /\ req \in [Requests -> [at : Places, ask : Keys \union {NoKey},
                           goal : Keys \union {NoKey}, body : {None, "good", "bad"}]]

Init ==
  /\ \E S \in SUBSET Found : mtime = [k \in Keys |-> IF k \in S THEN 1 ELSE 0]
  /\ damaged = {}
  /\ temp = 0
  /\ leftover = 0
  /\ refs = [k \in Keys |-> 0]
  /\ initialized = FALSE
  /\ gate = None
  /\ req = [r \in Requests |-> Idle]
  /\ asks = 0 /\ hurts = 0 /\ crashes = 0

bounds == <<asks, hurts, crashes>>
files == <<mtime, damaged>>

-----------------------------------------------------------------------------
\* Mutant: the last lease does not protect a file.
EvictableBusy == {k \in Stored : refs[k] <= 1}

\* Files that may be removed: no request is being served from them.
Evictable == {k \in Stored : refs[k] = 0}

\* With E removed there is room for rest bytes that are not in stored files.
Fits(E, rest) == Bytes(Stored \ E) + rest <= Capacity

\* The files makeRoom removes: the oldest evictable ones, one after the other,
\* until the others leave room or nothing is left to remove.
Victims(rest) ==
  {E \in SUBSET Evictable :
     /\ \A k \in E, other \in Evictable \ E : mtime[k] <= mtime[other]
     /\ E # Evictable => Fits(E, rest)
     /\ E # {} => \E last \in E :
          /\ \A k \in E : mtime[k] <= mtime[last]
          /\ ~Fits(E \ {last}, rest)}

RemoveFiles(E) ==
  /\ mtime' = [k \in Keys |-> IF k \in E THEN 0 ELSE mtime[k]]
  /\ damaged' = damaged \ E

Goto(r, place) == req' = [req EXCEPT ![r].at = place]

\* Mutant: an error return leaves the gate shut.
RefuseShut(r) ==
  /\ req' = [req EXCEPT ![r] = Idle]
  /\ gate' = gate
  /\ temp' = 0

\* Every error return: the deferred calls remove the temporary file and open the gate.
Refuse(r) ==
  /\ req' = [req EXCEPT ![r] = Idle]
  /\ gate' = None
  /\ temp' = 0

-----------------------------------------------------------------------------
\* handleAgentStable, handleAgentAsset: a request for one file of one release.
Ask(r) ==
  /\ req[r].at = "idle"
  /\ asks < MaxAsk
  /\ asks' = asks + 1
  /\ \E k \in Keys :
       req' = [req EXCEPT ![r] = [Idle EXCEPT !.at = "waiting", !.ask = k]]
  /\ UNCHANGED <<files, temp, refs, leftover, initialized, gate, hurts, crashes>>

Enter(r) ==
  /\ req[r].at = "waiting"
  /\ gate = None
  /\ gate' = r
  /\ Goto(r, "prepare")
  /\ UNCHANGED <<files, temp, refs, leftover, initialized, bounds>>

\* The client goes away while its request waits.
Cancel(r) ==
  /\ req[r].at = "waiting"
  /\ req' = [req EXCEPT ![r] = Idle]
  /\ UNCHANGED <<files, temp, refs, leftover, initialized, gate, bounds>>

\* A cancelled context, an unreachable upstream or an error of the file system.
Abort(r) ==
  /\ gate = r
  /\ Refuse(r)
  /\ UNCHANGED <<files, refs, leftover, initialized, bounds>>

\* prepare: once per process the temporary files are removed; then makeRoom(0).
Prepare(r) ==
  /\ gate = r
  /\ req[r].at = "prepare"
  /\ initialized' = TRUE
  /\ leftover' = IF initialized THEN leftover ELSE 0
  /\ \E E \in Victims(leftover') :
       /\ Fits(E, leftover')
       /\ RemoveFiles(E)
  /\ req' = [req EXCEPT ![r].at = "check", ![r].goal = Manifest(req[r].ask)]
  /\ UNCHANGED <<temp, refs, gate, bounds>>

\* Mutant: a stored file is not verified again.
ValidIfStored(k) == k \in Stored

\* A stored file is used only when its content is what the manifest says.
Valid(k) == k \in Stored \ damaged

\* With the manifest at hand the request goes on to the file it asked for.
AfterCheck(r) ==
  IF req[r].goal = req[r].ask
  THEN [Idle EXCEPT !.at = "open", !.ask = req[r].ask]
  ELSE [Idle EXCEPT !.at = "check", !.ask = req[r].ask, !.goal = req[r].ask]

Check(r) ==
  /\ gate = r
  /\ req[r].at = "check"
  /\ Valid(req[r].goal)
  /\ req' = [req EXCEPT ![r] = AfterCheck(r)]
  /\ UNCHANGED <<files, temp, refs, leftover, initialized, gate, bounds>>

\* Mutant: a binary is downloaded before there is room for it.
AfterDiscardUnreserved(k) == "fetch"

\* A binary reserves its size before the download, metadata after it.
AfterDiscard(k) == IF IsBinary(k) THEN "room" ELSE "fetch"
AfterRoom(k) == IF IsBinary(k) THEN "fetch" ELSE "write"
AfterFetch(k) == IF IsBinary(k) THEN "write" ELSE "room"

\* discard: an invalid file is removed unless it is being served.
Discard(r) ==
  LET k == req[r].goal IN
  /\ gate = r
  /\ req[r].at = "check"
  /\ ~Valid(k)
  /\ \/ /\ refs[k] = 0
        /\ RemoveFiles({k})
        /\ Goto(r, AfterDiscard(k))
        /\ UNCHANGED <<temp, gate>>
     \/ /\ refs[k] # 0
        /\ Refuse(r)
        /\ UNCHANGED files
  /\ UNCHANGED <<refs, leftover, initialized, bounds>>

\* makeRoom(size): a file larger than the cache evicts nothing, one that does
\* not fit beside the leased files is refused after everything else is gone.
MakeRoom(r) ==
  LET k == req[r].goal IN
  /\ gate = r
  /\ req[r].at = "room"
  /\ \/ /\ Size(k) > Capacity
        /\ Refuse(r)
        /\ UNCHANGED files
     \/ /\ Size(k) <= Capacity
        /\ \E E \in Victims(leftover + Size(k)) :
             /\ RemoveFiles(E)
             /\ IF Fits(E, leftover + Size(k))
                THEN Goto(r, AfterRoom(k)) /\ UNCHANGED <<temp, gate>>
                ELSE Refuse(r)
  /\ UNCHANGED <<refs, leftover, initialized, bounds>>

\* The upstream's answer.  Metadata is read whole and refused when invalid;
\* the body of a binary is judged when it has been written.
Fetch(r) ==
  LET k == req[r].goal IN
  /\ gate = r
  /\ req[r].at = "fetch"
  /\ \E body \in {"good", "bad"} :
       IF body = "bad" /\ ~IsBinary(k)
       THEN Refuse(r)
       ELSE /\ req' = [req EXCEPT ![r].at = AfterFetch(k), ![r].body = body]
            /\ UNCHANGED <<temp, gate>>
  /\ UNCHANGED <<files, refs, leftover, initialized, bounds>>

\* CopyN stores at most the announced size, whatever the upstream sends.
Write(r) ==
  /\ gate = r
  /\ req[r].at = "write"
  /\ temp' = Size(req[r].goal)
  /\ Goto(r, "commit")
  /\ UNCHANGED <<files, refs, leftover, initialized, gate, bounds>>

Accepted(body) == body = "good"

Latest == Max({mtime[k] : k \in Keys})

\* Size and digest of a binary are compared, then the file gets its name.
Commit(r) ==
  LET k == req[r].goal IN
  /\ gate = r
  /\ req[r].at = "commit"
  /\ \/ /\ Accepted(req[r].body)
        /\ mtime' = [mtime EXCEPT ![k] = Latest + 1]
        /\ damaged' = IF req[r].body = "good" THEN damaged \ {k} ELSE damaged \union {k}
        /\ temp' = 0
        /\ req' = [req EXCEPT ![r] = AfterCheck(r)]
        /\ UNCHANGED gate
     \/ /\ ~Accepted(req[r].body)
        /\ Refuse(r)
        /\ UNCHANGED files
  /\ UNCHANGED <<refs, leftover, initialized, bounds>>

\* The lease is registered before the gate opens.
Open(r) ==
  LET k == req[r].ask IN
  /\ gate = r
  /\ req[r].at = "open"
  /\ k \in Stored
  /\ refs' = [refs EXCEPT ![k] = @ + 1]
  /\ gate' = None
  /\ Goto(r, "serving")
  /\ UNCHANGED <<files, temp, leftover, initialized, bounds>>

Release(r) ==
  /\ req[r].at = "serving"
  /\ refs' = [refs EXCEPT ![req[r].ask] = @ - 1]
  /\ req' = [req EXCEPT ![r] = Idle]
  /\ UNCHANGED <<files, temp, leftover, initialized, gate, bounds>>

\* A stored file is damaged while no request is at work on the directory.
Damage(k) ==
  /\ gate = None
  /\ k \in Stored \ damaged
  /\ hurts < MaxDamage
  /\ hurts' = hurts + 1
  /\ damaged' = damaged \union {k}
  /\ UNCHANGED <<mtime, temp, refs, leftover, initialized, gate, req, asks, crashes>>

\* The hub ends at any point and starts again: the directory is all that is left.
Crash ==
  /\ crashes < MaxCrash
  /\ crashes' = crashes + 1
  /\ refs' = [k \in Keys |-> 0]
  /\ initialized' = FALSE
  /\ gate' = None
  /\ req' = [r \in Requests |-> Idle]
  /\ temp' = 0
  /\ leftover' = leftover + temp
  /\ UNCHANGED <<files, asks, hurts>>

Work(r) == Prepare(r) \/ Check(r) \/ Discard(r) \/ MakeRoom(r) \/ Fetch(r)
             \/ Write(r) \/ Commit(r) \/ Open(r)

Next ==
  \/ \E r \in Requests :
       \/ Ask(r) \/ Enter(r) \/ Cancel(r) \/ Abort(r) \/ Release(r)
       \/ Prepare(r) \/ Check(r) \/ Discard(r) \/ MakeRoom(r) \/ Fetch(r)
       \/ Write(r) \/ Commit(r) \/ Open(r)
  \/ \E k \in Keys : Damage(k)
  \/ Crash

Spec == Init /\ [][Next]_vars

\* Every request to the upstream ends within its timeout, and a Go channel
\* serves the senders that wait on it in their order.
Fairness == \A r \in Requests : WF_vars(Work(r)) /\ SF_vars(Enter(r))

FairSpec == Spec /\ Fairness

-----------------------------------------------------------------------------
\* A file stays on the disk as long as a request is being served from it,
\* whatever other requests discard or evict in the meantime.
ServedOnDisk == \A r \in Requests : req[r].at = "serving" => req[r].ask \in Stored

\* Stored files, temporary files of this and of an earlier process and foreign
\* files together never grow beyond the capacity; a directory that was too full
\* from the start only shrinks.
NeverOutgrows == [][Usage' > Usage => Usage' <= Capacity]_vars

\* A request begins to serve only a file whose content was verified: neither a
\* damaged file nor a download that was cut off or altered.
OnlyVerifiedServed ==
  [][\A r \in Requests : req[r].at # "serving" /\ req'[r].at = "serving"
       => req[r].ask \in Stored \ damaged]_vars

\* A request at the gate is answered, whatever happens to the ones before it.
Answered == \A r \in Requests : req[r].at = "waiting" ~> req[r].at \in {"idle", "serving"}
=============================================================================
