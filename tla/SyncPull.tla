------------------------------ MODULE SyncPull ------------------------------
(***************************************************************************)
(* The app's local cache and GET /sync: the handler's two reads of the     *)
(* change table (hub/api.go handleSync), the page loop of the app          *)
(* (app/lib/state/providers.dart SyncCoordinator) and the transaction that *)
(* applies a page (app/lib/cache/assistant_cache.dart), while the hub      *)
(* commits changes and the retention job trims the window.                 *)
(***************************************************************************)
EXTENDS Integers, Sequences

CONSTANTS
  Objects,    \* messages, faults, sources, rules, settings: one row each
  Keep,       \* cfg.changesMinSeq
  PageLimit,  \* limit of a page (200)
  MaxPages,   \* pages of one syncAll (100)
  MaxSeq      \* bound: changes in all

ASSUME SyncOK ==
  /\ {Keep, PageLimit, MaxPages, MaxSeq} \subseteq Nat
  /\ Keep > 0 /\ PageLimit > 0 /\ MaxPages > 0

VARIABLES
  hist,     \* every change ever committed: [obj, del], its number its index
  low,      \* table changes holds the numbers low+1..Len(hist)
  cache,    \* the app's tables: the change an object was last written by, 0 if absent
  cursor,   \* sync_state.cursor, persistent
  call,     \* the running syncAll: idle, ask, max (between the reads), answer
  since,    \* its request
  page,     \* the answer: [from, to, cursor, hasMore], rows from+1..to
  pages,    \* guard
  told,     \* the changes the app was given (history)
  raced     \* the changes committed between the two reads of an empty page (history)

vars == <<hist, low, cache, cursor, call, since, page, pages, told, raced>>

NoPage == [from |-> 0, to |-> 0, cursor |-> 0, hasMore |-> FALSE]

Init ==
  /\ hist = <<>> /\ low = 0
  /\ cache = [o \in Objects |-> 0]
  /\ cursor = 0
  /\ call = "idle" /\ since = 0 /\ page = NoPage /\ pages = 0
  /\ told = {} /\ raced = {}

n == Len(hist)

-----------------------------------------------------------------------------
(* The hub's writes.                                                       *)

\* insertChangeObj, or insertTombstone when del; a tombstone needs a row to delete.
Write(o, del) ==
  /\ n < MaxSeq
  /\ del => \E i \in 1..n : /\ hist[i].obj = o /\ ~hist[i].del
                            /\ \A j \in i+1..n : hist[j].obj # o
  /\ hist' = Append(hist, [obj |-> o, del |-> del])
  /\ raced' = IF call = "max" THEN raced \cup {n + 1} ELSE raced
  /\ UNCHANGED <<low, cache, cursor, call, since, page, pages, told>>

\* runRetention on the change table
Trim(c) ==
  /\ low < c /\ c <= n - Keep
  /\ low' = c
  /\ UNCHANGED <<hist, cache, cursor, call, since, page, pages, told, raced>>

-----------------------------------------------------------------------------
(* GET /sync                                                               *)

\* syncAll starts at the stored cursor; _running keeps it to one at a time.
StartSync ==
  /\ call = "idle"
  /\ call' = "ask" /\ since' = cursor /\ pages' = 0
  /\ UNCHANGED <<hist, low, cache, cursor, page, told, raced>>

\* Mutant: the row that shows there is more is counted into the cursor.
ReadRowsOvershoot ==
  LET from == IF since < low THEN low ELSE since
      to   == IF n - from > PageLimit THEN from + PageLimit ELSE n
  IN  /\ call = "ask"
      /\ page' = [from |-> from, to |-> to, cursor |-> to + 1, hasMore |-> n - from > PageLimit]
      /\ call' = IF to > from THEN "answer" ELSE "max"
      /\ UNCHANGED <<hist, low, cache, cursor, since, pages, told, raced>>

\* The SELECT of up to limit + 1 rows.
ReadRows ==
  LET from == IF since < low THEN low ELSE since
      to   == IF n - from > PageLimit THEN from + PageLimit ELSE n
  IN  /\ call = "ask"
      /\ page' = [from |-> from, to |-> to, cursor |-> to, hasMore |-> n - from > PageLimit]
      /\ call' = IF to > from THEN "answer" ELSE "max"
      /\ UNCHANGED <<hist, low, cache, cursor, since, pages, told, raced>>

\* An empty page: maxChangeSeq is a second read, on a later state of the table.
ReadMax ==
  /\ call = "max"
  /\ page' = [page EXCEPT !.to = page.from, !.cursor = IF n > since THEN n ELSE since]
  /\ call' = "answer"
  /\ UNCHANGED <<hist, low, cache, cursor, since, pages, told, raced>>

-----------------------------------------------------------------------------
(* The app.                                                                *)

\* Mutant: tombstones are ignored.
AppliedNoTombstone(c, o, a, b) ==
  LET I == {i \in a+1..b : hist[i].obj = o /\ ~hist[i].del}
  IN  IF I = {} THEN c ELSE CHOOSE i \in I : \A j \in I : j <= i

\* _applyChanges: INSERT OR REPLACE, or a deletion, in the order of the numbers.
Latest(o, a, b) == {i \in a+1..b : hist[i].obj = o /\ \A j \in i+1..b : hist[j].obj # o}
Applied(c, o, a, b) ==
  IF Latest(o, a, b) = {} THEN c
  ELSE LET i == CHOOSE i \in Latest(o, a, b) : TRUE IN IF hist[i].del THEN 0 ELSE i

\* applySyncPage, one transaction with the cursor, and the end of the loop body.
ApplyPage ==
  /\ call = "answer"
  /\ cache' = [o \in Objects |-> Applied(cache[o], o, page.from, page.to)]
  /\ told' = told \cup (page.from + 1 .. page.to)
  /\ cursor' = page.cursor
  /\ since' = page.cursor
  /\ pages' = pages + 1
  /\ call' = IF page.hasMore /\ pages + 1 < MaxPages THEN "ask" ELSE "idle"
  /\ page' = NoPage
  /\ UNCHANGED <<hist, low, raced>>

\* The request fails, or the app is closed, at any point.
Abort ==
  /\ call # "idle"
  /\ call' = "idle" /\ page' = NoPage
  /\ UNCHANGED <<hist, low, cache, cursor, since, pages, told, raced>>

Next ==
  \/ \E o \in Objects, del \in BOOLEAN : Write(o, del)
  \/ \E c \in 1..MaxSeq : Trim(c)
  \/ StartSync \/ ReadRows \/ ReadMax \/ ApplyPage \/ Abort

Spec == Init /\ [][Next]_vars

-----------------------------------------------------------------------------
\* Type invariant: the change table, the cache and the call in progress.
TypeOK ==
  /\ hist \in Seq([obj : Objects, del : BOOLEAN]) /\ n <= MaxSeq
  /\ low \in 0..n
  /\ cache \in [Objects -> 0..n]
  /\ cursor \in 0..n /\ since \in 0..n
  /\ call \in {"idle", "ask", "max", "answer"}
  /\ page \in [from : 0..n, to : 0..n, cursor : 0..n, hasMore : BOOLEAN]
  /\ pages \in 0..MaxPages
  /\ told \subseteq 1..n /\ raced \subseteq 1..n

\* Pages, aborted and repeated calls, and changes committed between two pages never
\* leave the cache behind or ahead of what it was given: a row is the last change
\* of its object that the app was given, or absent if that one is a tombstone
\* (handleSync, applySyncPage).
CacheFaithful ==
  \A o \in Objects :
    LET given == {i \in told : hist[i].obj = o}
    IN  IF given = {} THEN cache[o] = 0
        ELSE \E i \in given : /\ \A j \in given : j <= i
                              /\ cache[o] = IF hist[i].del THEN 0 ELSE i

Feed == INSTANCE ChangeFeed
          WITH pos <- cursor, seen <- {i \in told \cup raced : i <= cursor}

\* Over pages, aborted calls, commits and trimming at any time the sync is a change feed
\* (module ChangeFeed) whose cursor never goes back, but for one kind of change: what is
\* committed between the two reads of an empty page.  A client that was away for longer
\* than the window misses what has left it and nothing else (handleSync, applySyncPage).
SyncIsFeed == Feed!FeedInit /\ [][Feed!Append \/ Feed!Forget \/ Feed!Advance]_Feed!feedVars

=============================================================================
