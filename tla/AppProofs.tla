----------------------------- MODULE AppProofs ------------------------------
(***************************************************************************)
(* Proofs about the two parts of the app that receive changes, for every   *)
(* value of the constants.  SyncPull: the cache is what the app was given, *)
(* and the sync is a change feed.  NativeNotify: the native service skips  *)
(* no change, posts nothing of a muted fault, and shows the end of a fault *)
(* although the row with its cursor is written by coroutines that do not   *)
(* wait for each other.                                                    *)
(***************************************************************************)
EXTENDS SyncPull, NativeNotify, WellFoundedInduction, TLAPS

Entries == [obj : Objects, del : BOOLEAN]
PageType == [from : Nat, to : Nat, cursor : Nat, hasMore : BOOLEAN]

\* What is known of an answer under way.  It starts at the cursor, or behind the changes
\* that have left the window by then; an empty one is followed, up to the number the
\* second read finds, by changes committed between the reads.
AnswerFits ==
  /\ call # "idle" => since = cursor /\ pages < MaxPages
  /\ call \in {"max", "answer"} =>
       /\ since <= page.from /\ page.from <= page.to
       /\ page.from > since => page.from <= low
  /\ call = "max" => page.from + 1 .. n \subseteq raced
  /\ call = "answer" =>
       /\ page.to <= page.cursor /\ page.cursor <= n
       /\ page.to + 1 .. page.cursor \subseteq raced

SInv ==
  /\ TypeOK
  /\ told \subseteq 1..cursor
  /\ AnswerFits
  /\ CacheFaithful

LEMMA ConstantsFit ==
  /\ Keep \in Nat /\ PageLimit \in Nat /\ MaxPages \in Nat /\ MaxSeq \in Nat
  /\ Keep > 0 /\ PageLimit > 0 /\ MaxPages > 0
BY SyncOK

\* A non-empty set of numbers up to b has a greatest element.
LEMMA GreatestNatural ==
  ASSUME NEW b \in Nat, NEW T, T \subseteq 0..b, T # {}
  PROVE  \E x \in T : \A y \in T : y <= x
<1> DEFINE R == OpToRel(<, Nat)
           U == {b - y : y \in T}
<1>1. IsWellFoundedOn(R, Nat)
  BY NatLessThanWellFounded
<1>2. \A x, y \in Nat : y < x => <<y, x>> \in R
  BY DEF OpToRel
<1>3. U \subseteq Nat /\ U # {}
  <2>1. \A y \in T : b - y \in Nat
    OBVIOUS
  <2> QED BY <2>1
<1>4. \A y \in T : b - y \in U
  OBVIOUS
<1>5. \A u \in U : \E x \in T : u = b - x
  OBVIOUS
<1> HIDE DEF R, U
<1>6. \E u \in U : \A v \in U : ~(<<v, u>> \in R)
  BY <1>1, <1>3, WFMin
<1>7. PICK u \in U : \A v \in U : ~(<<v, u>> \in R)
  BY <1>6
<1>8. PICK x \in T : u = b - x
  BY <1>5
<1>9. ASSUME NEW y \in T PROVE y <= x
  <2>1. u \in Nat /\ b - y \in Nat /\ ~(<<b - y, u>> \in R)
    BY <1>3, <1>4, <1>7
  <2>2. ~(b - y < u)
    BY <1>2, <2>1, Zenon
  <2> QED BY <1>8, <2>2
<1> QED BY <1>9

-----------------------------------------------------------------------------
(* Each step keeps the invariant and is a step of the feed.                *)

FeedStep == [Feed!Append \/ Feed!Forget \/ Feed!Advance]_Feed!feedVars

LEMMA InitSInv == Init => SInv /\ Feed!FeedInit
<1> SUFFICES ASSUME Init PROVE SInv /\ Feed!FeedInit
  OBVIOUS
<1>1. n = 0
  BY DEF Init, n
<1>2. TypeOK
  <2>1. hist \in Seq([obj : Objects, del : BOOLEAN])
    BY DEF Init
  <2>2. page \in [from : 0..n, to : 0..n, cursor : 0..n, hasMore : BOOLEAN]
    BY <1>1 DEF Init, NoPage
  <2>3. cache \in [Objects -> 0..n]
    BY <1>1 DEF Init
  <2> QED BY <1>1, <2>1, <2>2, <2>3, ConstantsFit DEF Init, TypeOK
<1>3. AnswerFits /\ CacheFaithful
  BY DEF Init, AnswerFits, CacheFaithful
<1>4. Feed!FeedInit
  BY <1>1 DEF Init, Feed!FeedInit
<1> QED BY <1>2, <1>3, <1>4 DEF SInv, Init

\* A commit lengthens the log and leaves every earlier change as it is.
LEMMA WriteStep ==
  ASSUME SInv, NEW o \in Objects, NEW del \in BOOLEAN, Write(o, del)
  PROVE  SInv' /\ FeedStep
<1> DEFINE c == [obj |-> o, del |-> del]
<1>1. /\ hist \in Seq(Entries) /\ c \in Entries /\ hist' = Append(hist, c)
      /\ UNCHANGED <<low, cache, cursor, call, since, page, pages, told>>
      /\ raced' = IF call = "max" THEN raced \cup {n + 1} ELSE raced
      /\ n \in Nat /\ n < MaxSeq
  BY DEF SInv, TypeOK, Write, Entries, n
<1>2. n' = n + 1 /\ hist' \in Seq(Entries) /\ \A i \in 1..n : hist'[i] = hist[i]
  BY <1>1 DEF n
<1>3. TypeOK'
  <2>1. n' <= MaxSeq /\ 0..n \subseteq 0..n' /\ 1..n \subseteq 1..n' /\ n + 1 \in 1..n'
    BY <1>1, <1>2, ConstantsFit
  <2>2. low' \in 0..n' /\ cursor' \in 0..n' /\ since' \in 0..n'
    BY <1>1, <2>1 DEF SInv, TypeOK
  <2>3. cache' \in [Objects -> 0..n']
    BY <1>1, <2>1 DEF SInv, TypeOK
  <2>4. page' \in [from : 0..n', to : 0..n', cursor : 0..n', hasMore : BOOLEAN]
    BY <1>1, <2>1 DEF SInv, TypeOK
  <2>5. told' \subseteq 1..n' /\ raced' \subseteq 1..n'
    BY <1>1, <2>1 DEF SInv, TypeOK
  <2> QED BY <1>1, <1>2, <2>1, <2>2, <2>3, <2>4, <2>5 DEF SInv, TypeOK, Entries
<1>4. AnswerFits'
  <2>1. call = "max" => page.from + 1 .. n' \subseteq raced'
    <3> SUFFICES ASSUME call = "max", NEW i \in page.from + 1 .. n' PROVE i \in raced'
      OBVIOUS
    <3>1. page.from \in Nat
      BY <1>1 DEF SInv, TypeOK
    <3>2. i = n + 1 \/ i \in page.from + 1 .. n
      BY <1>1, <1>2, <3>1
    <3> QED BY <1>1, <3>2 DEF SInv, AnswerFits
  <2>2. call = "answer" => page.cursor <= n'
    BY <1>1, <1>2 DEF SInv, TypeOK
  <2> QED BY <1>1, <2>1, <2>2 DEF SInv, AnswerFits
<1>5. told \subseteq 1..n
  BY DEF SInv, TypeOK
<1>6. CacheFaithful'
  <2>1. \A i \in told : hist'[i] = hist[i]
    BY <1>2, <1>5
  <2>2. \A p \in Objects : {i \in told' : hist'[i].obj = p} = {i \in told : hist[i].obj = p}
    BY <1>1, <2>1
  <2>3. ASSUME NEW p \in Objects
        PROVE  LET given == {i \in told' : hist'[i].obj = p} IN
               IF given = {} THEN cache'[p] = 0
               ELSE \E i \in given : /\ \A j \in given : j <= i
                                    /\ cache'[p] = IF hist'[i].del THEN 0 ELSE i
    <3> DEFINE G == {i \in told : hist[i].obj = p}
    <3>1. {i \in told' : hist'[i].obj = p} = G /\ cache'[p] = cache[p]
      BY <1>1, <2>2
    <3>2. \A i \in G : hist'[i] = hist[i]
      BY <2>1
    <3>3. IF G = {} THEN cache[p] = 0
          ELSE \E i \in G : /\ \A j \in G : j <= i
                           /\ cache[p] = IF hist[i].del THEN 0 ELSE i
      BY DEF SInv, CacheFaithful
    <3> HIDE DEF G
    <3> QED BY <3>1, <3>2, <3>3
  <2> QED BY <2>3 DEF CacheFaithful
<1>7. Feed!Append
  <2>1. n' \in Nat /\ n' > n
    BY <1>1, <1>2
  <2>2. cursor < n + 1 /\ cursor' = cursor /\ told' = told
    BY <1>1 DEF SInv, TypeOK
  <2>3. {i \in told' \cup raced' : i <= cursor'} = {i \in told \cup raced : i <= cursor}
    <3>1. cursor \in Nat
      BY <1>1 DEF SInv, TypeOK
    <3>2. ~(n + 1 <= cursor)
      BY <1>1, <2>2, <3>1
    <3> QED BY <1>1, <2>2, <3>2
  <2> QED BY <1>1, <2>1, <2>3 DEF Feed!Append
<1> QED BY <1>1, <1>3, <1>4, <1>6, <1>7 DEF SInv, FeedStep

\* runRetention moves the window on.
LEMMA TrimStep ==
  ASSUME SInv, NEW c \in 1..MaxSeq, Trim(c)
  PROVE  SInv' /\ FeedStep
<1>1. /\ low' = c /\ low < c /\ c <= n - Keep
      /\ UNCHANGED <<hist, cache, cursor, call, since, page, pages, told, raced>>
  BY DEF Trim
<1>2. n' = n /\ n \in Nat /\ low \in Nat /\ c \in Nat /\ c <= n
  BY <1>1, ConstantsFit DEF SInv, TypeOK, n
<1>3. TypeOK'
  <2>1. low' \in 0..n
    BY <1>1, <1>2
  <2> QED BY <1>1, <1>2, <2>1 DEF SInv, TypeOK
<1>4. page.from \in Nat
  BY DEF SInv, TypeOK
<1>5. AnswerFits'
  BY <1>1, <1>2, <1>4 DEF SInv, AnswerFits
<1>6. CacheFaithful'
  <2>1. CacheFaithful /\ hist' = hist /\ told' = told /\ cache' = cache
    BY <1>1 DEF SInv
  <2> QED BY <2>1 DEF CacheFaithful
<1>7. Feed!Forget
  BY <1>1, <1>2 DEF Feed!Forget
<1> QED BY <1>1, <1>3, <1>5, <1>6, <1>7 DEF SInv, FeedStep

\* The hub's reads and the app's bookkeeping leave log, window, cursor and cache alone.
LEMMA QuietStep ==
  ASSUME SInv, UNCHANGED <<hist, low, cache, cursor, told, raced>>, TypeOK', AnswerFits'
  PROVE  SInv' /\ FeedStep
<1>1. n' = n
  BY DEF n
<1>2. CacheFaithful'
  BY DEF SInv, CacheFaithful
<1> QED BY <1>1, <1>2 DEF SInv, FeedStep, Feed!feedVars

LEMMA StartStep ==
  ASSUME SInv, StartSync
  PROVE  SInv' /\ FeedStep
<1>1. n' = n
  BY DEF StartSync, n
<1>2. TypeOK'
  BY <1>1, ConstantsFit DEF StartSync, SInv, TypeOK
<1>3. AnswerFits'
  BY ConstantsFit DEF StartSync, AnswerFits
<1> QED BY <1>2, <1>3, QuietStep DEF StartSync

LEMMA AbortStep ==
  ASSUME SInv, Abort
  PROVE  SInv' /\ FeedStep
<1>1. n' = n /\ n \in Nat
  BY DEF Abort, n, SInv, TypeOK
<1>2. page' \in [from : 0..n', to : 0..n', cursor : 0..n', hasMore : BOOLEAN]
  BY <1>1 DEF Abort, NoPage
<1>3. TypeOK'
  BY <1>1, <1>2 DEF Abort, SInv, TypeOK
<1>4. AnswerFits'
  BY DEF Abort, AnswerFits
<1> QED BY <1>3, <1>4, QuietStep DEF Abort

LEMMA ReadRowsStep ==
  ASSUME SInv, ReadRows
  PROVE  SInv' /\ FeedStep
<1> DEFINE from == IF since < low THEN low ELSE since
           to == IF n - from > PageLimit THEN from + PageLimit ELSE n
           more == n - from > PageLimit
<1>1. /\ call = "ask" /\ page' = [from |-> from, to |-> to, cursor |-> to, hasMore |-> more]
      /\ call' = IF to > from THEN "answer" ELSE "max"
      /\ UNCHANGED <<hist, low, cache, cursor, since, pages, told, raced>>
  BY DEF ReadRows
<1>2. n \in Nat /\ low \in 0..n /\ since \in 0..n /\ PageLimit \in Nat /\ n' = n /\ since = cursor
  BY <1>1, ConstantsFit DEF SInv, TypeOK, AnswerFits, n
<1>3. from \in 0..n /\ since <= from /\ (from > since => from <= low) /\ more \in BOOLEAN
  BY <1>2
<1> HIDE DEF from
<1>4. to \in 0..n /\ from <= to
  BY <1>2, <1>3
<1> HIDE DEF more
<1>5. ~(to > from) => to = n
  BY <1>2, <1>3, ConstantsFit
<1> HIDE DEF to
<1>6. page'.from = from /\ page'.to = to /\ page'.cursor = to
  BY <1>1
<1>7. page' \in [from : 0..n', to : 0..n', cursor : 0..n', hasMore : BOOLEAN]
  BY <1>1, <1>2, <1>3, <1>4
<1>8. TypeOK'
  BY <1>1, <1>2, <1>7 DEF SInv, TypeOK
<1>9. AnswerFits'
  <2>1. call' = "max" => from + 1 .. n \subseteq raced
    BY <1>1, <1>2, <1>3, <1>4, <1>5
  <2>2. to + 1 .. to = {}
    BY <1>4
  <2> QED BY <1>1, <1>2, <1>3, <1>4, <1>6, <2>1, <2>2 DEF SInv, AnswerFits
<1> QED BY <1>1, <1>8, <1>9, QuietStep

LEMMA ReadMaxStep ==
  ASSUME SInv, ReadMax
  PROVE  SInv' /\ FeedStep
<1> DEFINE top == IF n > since THEN n ELSE since
<1>1. /\ call = "max" /\ page' = [page EXCEPT !.to = page.from, !.cursor = top]
      /\ call' = "answer"
      /\ UNCHANGED <<hist, low, cache, cursor, since, pages, told, raced>>
  BY DEF ReadMax
<1>2. n \in Nat /\ since \in 0..n /\ n' = n
  BY <1>1 DEF SInv, TypeOK, n
<1>3. top = n
  BY <1>2
<1> HIDE DEF top
<1>4. /\ page \in [from : 0..n, to : 0..n, cursor : 0..n, hasMore : BOOLEAN]
      /\ page.from \in 0..n /\ page.hasMore \in BOOLEAN
  BY DEF SInv, TypeOK
<1>5. page' = [from |-> page.from, to |-> page.from, cursor |-> n, hasMore |-> page.hasMore]
  BY <1>1, <1>3, <1>4
<1>6. page' \in [from : 0..n', to : 0..n', cursor : 0..n', hasMore : BOOLEAN]
  BY <1>2, <1>4, <1>5
<1>7. TypeOK'
  BY <1>1, <1>2, <1>6 DEF SInv, TypeOK
<1>8. page'.from = page.from /\ page'.to = page.from /\ page'.cursor = n
  BY <1>5
<1>9. AnswerFits'
  <2>1. /\ since = cursor /\ pages < MaxPages /\ since <= page.from
        /\ page.from > since => page.from <= low
        /\ page.from + 1 .. n \subseteq raced
    BY <1>1 DEF SInv, AnswerFits
  <2>2. page.from <= page.from /\ page.from <= n /\ n <= n
    BY <1>2, <1>4
  <2> QED BY <1>1, <1>2, <1>8, <2>1, <2>2 DEF AnswerFits
<1> QED BY <1>1, <1>7, <1>9, QuietStep

\* _applyChanges: the last change of an object on a page decides.
OnPage(o, a, b) == {i \in a + 1 .. b : hist[i].obj = o}

LEMMA LastOnPage ==
  ASSUME NEW o \in Objects, NEW a \in Nat, NEW b \in Nat,
         NEW i \in OnPage(o, a, b), \A j \in OnPage(o, a, b) : j <= i
  PROVE  Applied(cache[o], o, a, b) = IF hist[i].del THEN 0 ELSE i
<1> DEFINE L == Latest(o, a, b)
<1>1. i \in a + 1 .. b /\ hist[i].obj = o
  BY DEF OnPage
<1>2. ASSUME NEW j \in i + 1 .. b PROVE hist[j].obj # o
  <2>1. j \in a + 1 .. b /\ ~(j <= i)
    BY <1>1
  <2> QED BY <2>1 DEF OnPage
<1>3. i \in L
  BY <1>1, <1>2 DEF Latest
<1>4. ASSUME NEW j \in L PROVE j = i
  <2>1. j \in OnPage(o, a, b) /\ j \in Nat /\ \A k \in j + 1 .. b : hist[k].obj # o
    BY DEF Latest, OnPage
  <2>2. j <= i /\ ~(i \in j + 1 .. b)
    BY <1>1, <2>1
  <2> QED BY <1>1, <2>1, <2>2
<1>5. (CHOOSE k \in L : TRUE) = i
  BY <1>3, <1>4
<1> QED BY <1>3, <1>5 DEF Applied

LEMMA NothingOnPage ==
  ASSUME NEW o \in Objects, NEW a, NEW b, OnPage(o, a, b) = {}
  PROVE  Applied(cache[o], o, a, b) = cache[o]
<1>1. Latest(o, a, b) = {}
  BY DEF Latest, OnPage
<1> QED BY <1>1 DEF Applied

LEMMA PageHasLast ==
  ASSUME NEW o \in Objects, NEW a \in Nat, NEW b \in Nat, OnPage(o, a, b) # {}
  PROVE  \E i \in OnPage(o, a, b) : \A j \in OnPage(o, a, b) : j <= i
<1>1. OnPage(o, a, b) \subseteq 0..b
  BY DEF OnPage
<1> QED BY <1>1, GreatestNatural

LEMMA ApplyStep ==
  ASSUME SInv, ApplyPage
  PROVE  SInv' /\ FeedStep
<1> DEFINE a == page.from
           b == page.to
           c == page.cursor
           got == a + 1 .. b
<1>1. /\ call = "answer" /\ told' = told \cup got /\ cursor' = c /\ since' = c
      /\ cache' = [o \in Objects |-> Applied(cache[o], o, a, b)]
      /\ pages' = pages + 1 /\ page' = NoPage
      /\ call' = IF page.hasMore /\ pages + 1 < MaxPages THEN "ask" ELSE "idle"
      /\ UNCHANGED <<hist, low, raced>>
  BY DEF ApplyPage
<1>2. /\ n \in Nat /\ n' = n /\ a \in 0..n /\ b \in 0..n /\ c \in 0..n /\ low \in 0..n
      /\ cursor \in 0..n /\ told \subseteq 1..cursor /\ raced \subseteq 1..n
      /\ cache \in [Objects -> 0..n] /\ pages \in 0..MaxPages /\ MaxPages \in Nat
  BY <1>1, ConstantsFit DEF SInv, TypeOK, n
<1>3. /\ cursor <= a /\ a <= b /\ b <= c /\ (a > cursor => a <= low)
      /\ b + 1 .. c \subseteq raced /\ pages < MaxPages
  BY <1>1 DEF SInv, AnswerFits
<1> HIDE DEF a, b, c
<1>4. told' \subseteq 1..c
  BY <1>1, <1>2, <1>3
<1>5. ASSUME NEW o \in Objects
      PROVE  LET given == {i \in told' : hist[i].obj = o} IN
             IF given = {} THEN cache'[o] = 0
             ELSE \E i \in given : /\ \A j \in given : j <= i
                                  /\ cache'[o] = IF hist[i].del THEN 0 ELSE i
  <2> DEFINE G == {i \in told : hist[i].obj = o}
             S == OnPage(o, a, b)
             N == {i \in told' : hist[i].obj = o}
  <2>1. N = G \cup S /\ cache'[o] = Applied(cache[o], o, a, b)
    BY <1>1 DEF OnPage
  <2>2. \A i \in G, j \in S : i <= j
    BY <1>2, <1>3 DEF OnPage
  <2>3. CASE S = {}
    <3>1. cache'[o] = cache[o]
      BY <2>1, <2>3, NothingOnPage
    <3>2. IF G = {} THEN cache[o] = 0
          ELSE \E i \in G : /\ \A j \in G : j <= i
                           /\ cache[o] = IF hist[i].del THEN 0 ELSE i
      BY DEF SInv, CacheFaithful
    <3>3. N = G
      BY <2>1, <2>3
    <3> QED BY <3>1, <3>2, <3>3
  <2>4. CASE S # {}
    <3>0. a \in Nat /\ b \in Nat
      BY <1>2
    <3>1. PICK i \in S : \A j \in S : j <= i
      BY <2>4, <3>0, PageHasLast
    <3>2. Applied(cache[o], o, a, b) = IF hist[i].del THEN 0 ELSE i
      BY <3>0, <3>1, LastOnPage
    <3>3. i \in N /\ \A j \in N : j <= i
      BY <2>1, <2>2, <3>1
    <3> QED BY <2>1, <3>2, <3>3
  <2> QED BY <2>3, <2>4
<1>6. CacheFaithful'
  BY <1>1, <1>5 DEF CacheFaithful
<1>7. cache' \in [Objects -> 0..n]
  <2> SUFFICES ASSUME NEW o \in Objects PROVE Applied(cache[o], o, a, b) \in 0..n
    BY <1>1
  <2> DEFINE S == OnPage(o, a, b)
  <2>1. CASE S = {}
    BY <1>2, <2>1, NothingOnPage
  <2>2. CASE S # {}
    <3>0. a \in Nat /\ b \in Nat
      BY <1>2
    <3>1. PICK i \in S : \A j \in S : j <= i
      BY <2>2, <3>0, PageHasLast
    <3>2. Applied(cache[o], o, a, b) = IF hist[i].del THEN 0 ELSE i
      BY <3>0, <3>1, LastOnPage
    <3>3. i \in 0..n
      BY <1>2 DEF OnPage
    <3> QED BY <1>2, <3>2, <3>3
  <2> QED BY <2>1, <2>2
<1>8. page' \in [from : 0..n, to : 0..n, cursor : 0..n, hasMore : BOOLEAN]
  BY <1>1, <1>2 DEF NoPage
<1>9. TypeOK'
  <2>1. told' \subseteq 1..n /\ pages' \in 0..MaxPages
    BY <1>1, <1>2, <1>3, <1>4
  <2> QED BY <1>1, <1>2, <1>7, <1>8, <2>1 DEF SInv, TypeOK
<1>10. AnswerFits'
  BY <1>1 DEF AnswerFits
<1>11. FeedStep
  <2> DEFINE old == {i \in told \cup raced : i <= cursor}
             new == {i \in told' \cup raced' : i <= cursor'}
             rest == (cursor + 1 .. c) \ new
  <2>1. \A i \in new : i \in old \/ i \in cursor + 1 .. c
    BY <1>1, <1>2, <1>3
  <2>2. \A i \in old : i \in new
    <3> TAKE i \in old
    <3>1. i \in told \cup raced /\ i \in Nat /\ i <= cursor
      BY <1>2
    <3>2. i <= c
      BY <1>2, <1>3, <3>1
    <3> QED BY <1>1, <3>1, <3>2
  <2>3. rest \subseteq cursor + 1 .. low
    <3> SUFFICES ASSUME NEW i \in cursor + 1 .. c, i \notin new PROVE i <= low
      BY <1>2
    <3>1. i \notin got /\ i \notin b + 1 .. c
      BY <1>1, <1>2, <1>3
    <3>2. i <= a
      BY <1>2, <1>3, <3>1
    <3> QED BY <1>2, <1>3, <3>2
  <2>4. new = old \cup ((cursor + 1 .. c) \ rest)
    BY <2>1, <2>2
  <2>5. CASE c = cursor
    <3>1. cursor + 1 .. c = {} /\ new = old /\ n' = n /\ low' = low /\ cursor' = cursor
      BY <1>1, <1>2, <2>4, <2>5
    <3> QED BY <3>1 DEF FeedStep, Feed!feedVars
  <2>6. CASE c # cursor
    <3>1. cursor' \in cursor + 1 .. n /\ n' = n /\ low' = low
      BY <1>1, <1>2, <1>3, <2>6
    <3>2. rest \in SUBSET (cursor + 1 .. low) /\ new = old \cup ((cursor + 1 .. cursor') \ rest)
      BY <1>1, <2>3, <2>4
    <3> HIDE DEF rest
    <3>3. Feed!Advance
      BY <3>1, <3>2 DEF Feed!Advance
    <3> QED BY <3>3 DEF FeedStep
  <2> QED BY <2>5, <2>6
<1> QED BY <1>1, <1>4, <1>6, <1>9, <1>10, <1>11 DEF SInv

LEMMA NextSInv == SInv /\ [Next]_vars => SInv' /\ FeedStep
<1> SUFFICES ASSUME SInv, [Next]_vars PROVE SInv' /\ FeedStep
  OBVIOUS
<1>1. CASE UNCHANGED vars
  <2>1. TypeOK' /\ AnswerFits'
    BY <1>1 DEF vars, SInv, TypeOK, AnswerFits, n
  <2> QED BY <1>1, <2>1, QuietStep DEF vars
<1> QED BY <1>1, WriteStep, TrimStep, StartStep, ReadRowsStep, ReadMaxStep, ApplyStep, AbortStep
    DEF Next

\* Every reachable state of the sync is well typed.
THEOREM SyncTypeCorrect == Spec => []TypeOK
<1>1. SInv => TypeOK
  BY DEF SInv
<1> QED BY <1>1, InitSInv, NextSInv, PTL DEF Spec

\* After any pages, aborts and commits a cached row is the last change of its object the
\* app was given.
THEOREM CacheIsFaithful == Spec => []CacheFaithful
<1>1. SInv => CacheFaithful
  BY DEF SInv
<1> QED BY <1>1, InitSInv, NextSInv, PTL DEF Spec

\* GET /sync and the page loop implement the change feed, for any page size and window.
THEOREM SyncImplementsFeed == Spec => SyncIsFeed
<1>1. SInv /\ [Next]_vars => [Feed!Append \/ Feed!Forget \/ Feed!Advance]_Feed!feedVars
  BY NextSInv DEF FeedStep
<1> QED BY <1>1, InitSInv, NextSInv, PTL DEF Spec, SyncIsFeed

-----------------------------------------------------------------------------
(* The native service: types and ranges.                                   *)

\* Types, and what ties the positions together: an idle stream loop holds no row, a busy
\* one is one behind the connection, and no cursor is beyond the last change.
NotifyShape ==
  /\ NotifyTypeOK
  /\ IF sse.at = "idle" THEN sse = Idle ELSE sse.n \in 1..Len(log) /\ next = sse.n + 1
  /\ cfg.cursor <= Len(log) /\ sse.row.cursor <= Len(log) /\ bridge.row.cursor <= Len(log)
  /\ next <= Len(log) + 1

LEMMA NotifyConstants ==
  /\ Kinds \subseteq AllKinds /\ NoFault \notin Faults
  /\ MaxPerWindow \in Nat /\ MaxPerWindow > 0
  /\ MaxChanges \in Nat /\ MaxNights \in Nat /\ MaxCalls \in Nat /\ MaxBreaks \in Nat
BY NotifyOK

LEMMA StartShape == NotifyInit => NotifyShape
<1> SUFFICES ASSUME NotifyInit PROVE NotifyShape
  OBVIOUS
<1>1. log = <<>> /\ Len(log) = 0 /\ log \in Seq(Changes) /\ held = <<>> /\ Len(held) = 0
      /\ held \in Seq(1..MaxChanges)
  BY DEF NotifyInit
<1>2. cfg \in Row /\ cfg.cursor = 0 /\ Idle.row \in Row /\ Idle.row.cursor = 0
  BY NotifyConstants DEF NotifyInit, Row, Idle
<1>3. outcome \in [1..MaxChanges -> Outcomes]
  BY DEF NotifyInit, Outcomes
<1>4. hits \in [Faults -> 0..MaxPerWindow] /\ shown \in [Faults -> {"nothing", "open", "resolved"}]
  BY NotifyConstants DEF NotifyInit
<1>5. sse \in StreamStates /\ sse = Idle /\ sse.at = "idle" /\ bridge \in BridgeStates
      /\ bridge.row = Idle.row /\ sse.row = Idle.row
  BY <1>2, NotifyConstants DEF NotifyInit, Idle, NoCall, StreamStates, BridgeStates
<1>6. ticker \in TickerStates /\ ticker.counted <= Len(held)
  BY <1>1 DEF NotifyInit, Started, TickerStates
<1>7. night \in BOOLEAN /\ up \in BOOLEAN /\ muted \subseteq Faults /\ next = 0
      /\ next \in 0..(MaxChanges + 1)
  <2>1. night \in BOOLEAN /\ up \in BOOLEAN /\ muted \subseteq Faults /\ next = 0
    BY Zenon DEF NotifyInit
  <2> QED BY <2>1, NotifyConstants
<1>8. Len(log) <= MaxChanges /\ \A i \in 1..Len(held) : held[i] <= Len(log)
  BY <1>1, NotifyConstants
<1>9. NotifyTypeOK
  BY <1>1, <1>2, <1>3, <1>4, <1>5, <1>6, <1>7, <1>8 DEF NotifyTypeOK
<1> QED BY <1>1, <1>2, <1>5, <1>7, <1>9 DEF NotifyShape

LEMMA NumbersShape ==
  ASSUME NotifyShape
  PROVE  /\ Len(log) \in Nat /\ Len(log) <= MaxChanges /\ Len(held) \in Nat
         /\ cfg.cursor \in Nat /\ cfg.dnd \in BOOLEAN /\ cfg.cursor <= Len(log)
         /\ sse.n \in Nat /\ sse.n <= MaxChanges /\ sse.row \in Row
         /\ sse.row.cursor \in Nat /\ sse.row.cursor <= Len(log)
         /\ bridge.row \in Row /\ bridge.busy \in BOOLEAN
         /\ bridge.row.cursor \in Nat /\ bridge.row.cursor <= Len(log)
         /\ next \in Nat /\ next <= Len(log) + 1
         /\ ticker.counted \in Nat /\ ticker.was \in BOOLEAN
<1>1. Len(log) \in Nat /\ Len(log) <= MaxChanges /\ Len(held) \in Nat
  BY DEF NotifyShape, NotifyTypeOK
<1>2. cfg.cursor \in Nat /\ cfg.dnd \in BOOLEAN /\ cfg.cursor <= Len(log)
  BY NotifyConstants DEF NotifyShape, NotifyTypeOK, Row
<1>3. sse.n \in Nat /\ sse.n <= MaxChanges /\ sse.row \in Row
  BY NotifyConstants DEF NotifyShape, NotifyTypeOK, StreamStates
<1>4. bridge.row \in Row /\ bridge.busy \in BOOLEAN
  BY DEF NotifyShape, NotifyTypeOK, BridgeStates
<1>5. sse.row.cursor \in Nat /\ bridge.row.cursor \in Nat
  BY <1>3, <1>4, NotifyConstants DEF Row
<1>6. next \in Nat
  BY NotifyConstants DEF NotifyShape, NotifyTypeOK
<1>7. ticker.counted \in Nat /\ ticker.was \in BOOLEAN
  BY DEF NotifyShape, NotifyTypeOK, TickerStates
<1> QED BY <1>1, <1>2, <1>3, <1>4, <1>5, <1>6, <1>7 DEF NotifyShape

LEMMA ConnectShape == ASSUME NotifyShape, Connect \/ Disconnect PROVE NotifyShape'
<1>1. /\ next' \in 0..(MaxChanges + 1) /\ next' <= Len(log) + 1 /\ sse = Idle /\ sse.at = "idle"
      /\ UNCHANGED <<log, night, cfg, muted, held, shown, up, hits, sse, ticker, bridge, outcome>>
  BY NumbersShape, NotifyConstants DEF Connect, Disconnect, dbVars, Idle
<1> QED BY <1>1 DEF NotifyShape, NotifyTypeOK

LEMMA SaveCursorShape == ASSUME NotifyShape, SaveCursor PROVE NotifyShape'
<1>1. /\ cfg' = sse.row /\ sse' = [sse EXCEPT !.at = "handle"] /\ sse.at = "cursor"
      /\ UNCHANGED <<log, night, muted, held, shown, up, hits, next, ticker, bridge, outcome>>
  BY DEF SaveCursor
<1>2. sse' \in StreamStates /\ sse'.at = "handle" /\ sse'.n = sse.n /\ sse'.row = sse.row
  BY <1>1 DEF NotifyShape, NotifyTypeOK, StreamStates
<1> QED BY <1>1, <1>2, NumbersShape DEF NotifyShape, NotifyTypeOK

LEMMA DeliverShape == ASSUME NotifyShape, Deliver PROVE NotifyShape'
<1> DEFINE r == IF next > cfg.cursor THEN [cfg EXCEPT !.cursor = next] ELSE cfg
<1>1. /\ next \in 1..MaxChanges /\ next' = next + 1
      /\ sse' = [at |-> "cursor", n |-> next, row |-> r]
      /\ UNCHANGED <<night, cfg, muted, held, shown, up, hits, ticker, bridge, outcome>>
  BY DEF Deliver, dbVars
<1>2. log' \in Seq(Changes) /\ Len(log') <= MaxChanges /\ Len(log') >= Len(log) /\ Len(log') >= next
      /\ Len(log') \in Nat
  <2>1. log \in Seq(Changes)
    BY DEF NotifyShape, NotifyTypeOK
  <2>2. CASE next <= Len(log) /\ UNCHANGED log
    BY <2>1, <2>2, NumbersShape
  <2>3. CASE next = Len(log) + 1 /\ \E c \in Changes : log' = Append(log, c)
    BY <1>1, <2>1, <2>3, NumbersShape
  <2> QED BY <2>2, <2>3 DEF Deliver
<1>3. r \in Row /\ r.cursor <= Len(log')
  <2>1. cfg \in [cursor : 0..MaxChanges, dnd : BOOLEAN]
    BY DEF NotifyShape, NotifyTypeOK, Row
  <2>2. [cfg EXCEPT !.cursor = next] \in Row /\ [cfg EXCEPT !.cursor = next].cursor = next
    BY <1>1, <2>1 DEF Row
  <2> QED BY <1>1, <1>2, <2>1, <2>2, NumbersShape DEF Row
<1>4. sse' \in StreamStates /\ sse'.at = "cursor" /\ sse'.n = next /\ sse'.row = r
  BY <1>1, <1>3 DEF StreamStates
<1>5. \A i \in 1..Len(held) : held[i] <= Len(log')
  BY <1>2, NumbersShape, NotifyConstants DEF NotifyShape, NotifyTypeOK
<1> HIDE DEF r
<1>6. next' \in 0..(MaxChanges + 1) /\ next' <= Len(log') + 1 /\ next \in 1..Len(log')
  <2>1. PICK h : h = Len(log')
    OBVIOUS
  <2>2. h \in Nat /\ h >= next /\ next \in Nat /\ next > 0 /\ next <= MaxChanges
    BY <1>1, <1>2, <2>1, NumbersShape, NotifyConstants
  <2> QED BY <1>1, <2>1, <2>2, NotifyConstants
<1>7. NotifyTypeOK'
  BY <1>1, <1>2, <1>4, <1>5, <1>6 DEF NotifyShape, NotifyTypeOK
<1>8. cfg.cursor <= Len(log') /\ bridge.row.cursor <= Len(log')
  BY <1>2, NumbersShape
<1> QED BY <1>1, <1>3, <1>4, <1>6, <1>7, <1>8 DEF NotifyShape

LEMMA CallBridgeShape == ASSUME NotifyShape, NEW on \in BOOLEAN, CallBridge(on) PROVE NotifyShape'
<1>1. /\ bridge' = [busy |-> TRUE, row |-> [cfg EXCEPT !.dnd = on]]
      /\ UNCHANGED <<log, night, cfg, muted, held, shown, up, hits, next, sse, ticker, outcome>>
  BY DEF CallBridge, dbVars
<1>2. bridge' \in BridgeStates /\ bridge'.row.cursor = cfg.cursor
  BY <1>1 DEF NotifyShape, NotifyTypeOK, Row, BridgeStates
<1> QED BY <1>1, <1>2 DEF NotifyShape, NotifyTypeOK

LEMMA SaveBridgeShape == ASSUME NotifyShape, SaveBridge PROVE NotifyShape'
<1>1. /\ bridge' = NoCall /\ cfg' = bridge.row
      /\ UNCHANGED <<log, night, muted, held, shown, up, hits, next, sse, ticker, outcome>>
  BY DEF SaveBridge
<1>2. bridge' \in BridgeStates /\ bridge'.row.cursor = 0
  BY <1>1, NotifyConstants DEF NoCall, Idle, Row, BridgeStates
<1> QED BY <1>1, <1>2, NumbersShape DEF NotifyShape, NotifyTypeOK

LEMMA IdleFits ==
  Idle \in StreamStates /\ Idle.at = "idle" /\ Idle.n = 0 /\ Idle.row.cursor = 0
<1>1. Idle.row \in Row /\ Idle.row.cursor = 0
  BY NotifyConstants DEF Idle, Row
<1> QED BY <1>1, NotifyConstants DEF Idle, StreamStates

\* What was made of the change in hand is noted; the rest of the table stays.
LEMMA MadeFits ==
  ASSUME NotifyShape, sse.at # "idle", NEW what \in Outcomes
  PROVE  /\ Made(what) \in [1..MaxChanges -> Outcomes]
         /\ Made(what)[sse.n] = what
         /\ \A i \in 1..MaxChanges : i # sse.n => Made(what)[i] = outcome[i]
<1>1. outcome \in [1..MaxChanges -> Outcomes] /\ sse.n \in 1..MaxChanges
  BY NumbersShape DEF NotifyShape, NotifyTypeOK
<1> QED BY <1>1 DEF Made

\* The change in hand: what the stream delivered.
LEMMA ChangeFits ==
  ASSUME NotifyShape, sse.at # "idle"
  PROVE  /\ sse.n \in 1..Len(log) /\ next = sse.n + 1 /\ Change \in Changes
         /\ Change.fault \in Faults \cup {NoFault}
         /\ Change.kind \in Incident \cup {"mute", "unmute"} => Change.fault \in Faults
<1>1. sse.n \in 1..Len(log) /\ next = sse.n + 1 /\ log \in Seq(Changes)
  BY DEF NotifyShape, NotifyTypeOK
<1>2. Change \in Changes
  BY <1>1 DEF Change
<1> HIDE DEF Change
<1>3. /\ Change.fault \in Faults \cup {NoFault}
      /\ Change.fault = NoFault <=> Change.kind \in Settings \cup {"new_message", "maintenance"}
  BY <1>2 DEF Changes
<1> QED BY <1>1, <1>2, <1>3, NotifyConstants DEF Incident, Settings

LEMMA MaintenanceShape == ASSUME NotifyShape, HandleMaintenance PROVE NotifyShape'
<1>1. /\ sse' = Idle /\ outcome' = Made("done") /\ sse.at # "idle" /\ "done" \in Outcomes
      /\ UNCHANGED <<log, night, cfg, muted, held, shown, up, hits, next, ticker, bridge>>
  BY DEF HandleMaintenance, dbVars, Outcomes
<1> QED BY <1>1, IdleFits, MadeFits, NumbersShape DEF NotifyShape, NotifyTypeOK

LEMMA FaultShape == ASSUME NotifyShape, HandleFault PROVE NotifyShape'
<1>1. /\ sse' = Idle /\ outcome' = Made("done") /\ sse.at # "idle" /\ "done" \in Outcomes
      /\ UNCHANGED <<log, night, cfg, held, shown, up, hits, next, ticker, bridge>>
  BY DEF HandleFault, Outcomes
<1>2. muted' \subseteq Faults
  <2>1. muted \subseteq Faults /\ Change.fault \in Faults
    BY ChangeFits DEF HandleFault, NotifyShape, NotifyTypeOK
  <2> QED BY <2>1 DEF HandleFault
<1> QED BY <1>1, <1>2, IdleFits, MadeFits, NumbersShape DEF NotifyShape, NotifyTypeOK

LEMMA SettingsShape == ASSUME NotifyShape, HandleSettings PROVE NotifyShape'
<1> DEFINE r == [cfg EXCEPT !.dnd = (Change.kind = "dnd_on")]
<1>1. /\ sse' = [sse EXCEPT !.at = "settings", !.row = r] /\ sse.at # "idle"
      /\ UNCHANGED <<log, night, cfg, muted, held, shown, up, hits, next, ticker, bridge, outcome>>
  BY DEF HandleSettings, dbVars
<1>2. r \in Row /\ r.cursor = cfg.cursor
  BY DEF NotifyShape, NotifyTypeOK, Row
<1> HIDE DEF r
<1>3. sse' \in StreamStates /\ sse'.at = "settings" /\ sse'.n = sse.n /\ sse'.row = r
  BY <1>1, <1>2 DEF NotifyShape, NotifyTypeOK, StreamStates
<1> QED BY <1>1, <1>2, <1>3, NumbersShape DEF NotifyShape, NotifyTypeOK

LEMMA SaveSettingsShape == ASSUME NotifyShape, SaveSettings PROVE NotifyShape'
<1>1. /\ sse' = Idle /\ outcome' = Made("done") /\ sse.at # "idle" /\ "done" \in Outcomes
      /\ cfg' = sse.row
      /\ UNCHANGED <<log, night, muted, held, shown, up, hits, next, ticker, bridge>>
  BY DEF SaveSettings, Outcomes
<1> QED BY <1>1, IdleFits, MadeFits, NumbersShape DEF NotifyShape, NotifyTypeOK

LEMMA MessageShape == ASSUME NotifyShape, HandleMessage PROVE NotifyShape'
<1>1. /\ sse.at # "idle" /\ "muted" \in Outcomes
      /\ UNCHANGED <<log, night, cfg, muted, held, shown, up, hits, next, ticker, bridge>>
  BY DEF HandleMessage, dbVars, Outcomes
<1>2. CASE sse' = Idle /\ outcome' = Made("muted")
  BY <1>1, <1>2, IdleFits, MadeFits, NumbersShape DEF NotifyShape, NotifyTypeOK
<1>3. CASE sse' = [sse EXCEPT !.at = IF Active THEN "hold" ELSE "post"] /\ UNCHANGED outcome
  <2>1. PICK place \in {"hold", "post"} : sse' = [sse EXCEPT !.at = place]
    BY <1>3
  <2>2. sse' \in StreamStates /\ sse'.at # "idle" /\ sse'.n = sse.n /\ sse'.row = sse.row
    BY <2>1 DEF NotifyShape, NotifyTypeOK, StreamStates
  <2> QED BY <1>1, <1>3, <2>2, NumbersShape DEF NotifyShape, NotifyTypeOK
<1> QED BY <1>2, <1>3 DEF HandleMessage

LEMMA HoldShape == ASSUME NotifyShape, Hold PROVE NotifyShape'
<1>1. /\ sse' = Idle /\ outcome' = Made("held") /\ sse.at # "idle" /\ "held" \in Outcomes
      /\ held' = Append(held, sse.n)
      /\ UNCHANGED <<log, night, cfg, muted, shown, up, hits, next, ticker, bridge>>
  BY DEF Hold, Outcomes
<1>2. /\ held' \in Seq(1..MaxChanges) /\ Len(held') = Len(held) + 1
      /\ \A i \in 1..Len(held') : held'[i] <= Len(log)
  <2>1. held \in Seq(1..MaxChanges) /\ sse.n \in 1..MaxChanges /\ sse.n <= Len(log)
        /\ \A i \in 1..Len(held) : held[i] <= Len(log)
    BY <1>1, ChangeFits, NumbersShape DEF NotifyShape, NotifyTypeOK
  <2> QED BY <1>1, <2>1
<1>3. ticker.counted <= Len(held')
  BY <1>2, NumbersShape DEF NotifyShape, NotifyTypeOK
<1>4. outcome' \in [1..MaxChanges -> Outcomes]
  BY <1>1, MadeFits
<1>5. NotifyTypeOK'
  BY <1>1, <1>2, <1>3, <1>4, IdleFits DEF NotifyShape, NotifyTypeOK
<1> QED BY <1>1, <1>5, IdleFits, NumbersShape DEF NotifyShape

LEMMA PostShape == ASSUME NotifyShape, Post PROVE NotifyShape'
<1>1. /\ sse' = Idle /\ sse.at # "idle" /\ {"debounced", "posted"} \subseteq Outcomes
      /\ UNCHANGED <<log, night, cfg, muted, held, up, next, ticker, bridge>>
  BY DEF Post, dbVars, Outcomes
<1>2. outcome' \in [1..MaxChanges -> Outcomes]
  BY <1>1, MadeFits DEF Post
<1>3. hits' \in [Faults -> 0..MaxPerWindow]
  <2>1. hits \in [Faults -> 0..MaxPerWindow]
    BY DEF NotifyShape, NotifyTypeOK
  <2>2. CASE UNCHANGED hits
    BY <2>1, <2>2
  <2>3. CASE Debounced /\ hits[Change.fault] < MaxPerWindow
             /\ hits' = [hits EXCEPT ![Change.fault] = @ + 1]
    <3>1. PICK f \in Faults : f = Change.fault
      BY <1>1, <2>3, ChangeFits DEF Debounced, Incident
    <3> QED BY <2>1, <2>3, <3>1, NotifyConstants
  <2>4. Debounced => Change.fault \in Faults
    BY <1>1, ChangeFits DEF Debounced, Incident
  <2>5. Debounced /\ ~(hits[Change.fault] >= MaxPerWindow) => hits[Change.fault] < MaxPerWindow
    BY <2>1, <2>4, NotifyConstants
  <2> QED BY <2>2, <2>3, <2>5, Zenon DEF Post
<1>4. shown' \in [Faults -> {"nothing", "open", "resolved"}]
  BY DEF NotifyShape, NotifyTypeOK, Post
<1> QED BY <1>1, <1>2, <1>3, <1>4, IdleFits, NumbersShape DEF NotifyShape, NotifyTypeOK

LEMMA ExpireShape == ASSUME NotifyShape, NEW f \in Faults, Expire(f) PROVE NotifyShape'
<1>1. UNCHANGED <<log, night, cfg, muted, held, shown, up, next, sse, ticker, bridge, outcome>>
  BY DEF Expire, dbVars
<1>2. hits' \in [Faults -> 0..MaxPerWindow]
  BY NotifyConstants DEF NotifyShape, NotifyTypeOK, Expire
<1> QED BY <1>1, <1>2 DEF NotifyShape, NotifyTypeOK

LEMMA TickShape == ASSUME NotifyShape, Tick \/ CountHeld PROVE NotifyShape'
<1>1. UNCHANGED <<log, night, cfg, muted, held, shown, up, hits, next, sse, bridge, outcome>>
  BY DEF Tick, CountHeld, dbVars
<1>2. ticker \in TickerStates /\ ticker.counted <= Len(held) /\ Active \in BOOLEAN
  BY NumbersShape, Zenon DEF NotifyShape, NotifyTypeOK, Active
<1>3. ticker' \in TickerStates /\ ticker'.counted <= Len(held)
  <2>1. CASE \E place \in {"flush", "sleep"}, was \in BOOLEAN :
                ticker' = [ticker EXCEPT !.at = place, !.was = was]
    BY <1>2, <2>1 DEF TickerStates
  <2>2. CASE ticker' = [was |-> FALSE, at |-> "sleep", counted |-> 0]
    BY <2>2, NumbersShape DEF TickerStates
  <2>3. CASE ticker' = [ticker EXCEPT !.at = "clear", !.counted = Len(held)]
    <3>1. ticker' = [was |-> ticker.was, at |-> "clear", counted |-> Len(held)]
      BY <1>2, <2>3 DEF TickerStates
    <3>2. ticker' \in TickerStates
      BY <3>1, NumbersShape, Zenon DEF TickerStates
    <3> QED BY <3>1, <3>2, NumbersShape
  <2>4. [ticker EXCEPT !.at = "flush"] = [ticker EXCEPT !.at = "flush", !.was = ticker.was]
    BY <1>2 DEF TickerStates
  <2>5. CASE ticker' = [ticker EXCEPT !.at = "flush"]
    BY <2>1, <2>4, <2>5, NumbersShape
  <2>6. CASE ticker' = [ticker EXCEPT !.at = "sleep", !.was = Active]
    BY <1>2, <2>1, <2>6
  <2> QED BY <2>2, <2>3, <2>5, <2>6 DEF Tick, CountHeld
<1> QED BY <1>1, <1>3 DEF NotifyShape, NotifyTypeOK

LEMMA ClearShape == ASSUME NotifyShape, ClearHeld PROVE NotifyShape'
<1>1. /\ held' = <<>> /\ Len(held') = 0 /\ held' \in Seq(1..MaxChanges)
      /\ UNCHANGED <<log, night, cfg, muted, shown, up, hits, next, sse, bridge>>
  BY DEF ClearHeld
<1>2. ticker' \in TickerStates /\ ticker'.counted <= Len(held')
  BY <1>1 DEF ClearHeld, TickerStates
<1>3. outcome' \in [1..MaxChanges -> Outcomes]
  BY DEF ClearHeld, NotifyShape, NotifyTypeOK, Outcomes
<1> QED BY <1>1, <1>2, <1>3 DEF NotifyShape, NotifyTypeOK

LEMMA ClockShape == ASSUME NotifyShape, NightFalls \/ DayBreaks PROVE NotifyShape'
<1>1. UNCHANGED <<log, cfg, muted, held, shown, up, hits, next, sse, ticker, bridge, outcome>>
  BY DEF NightFalls, DayBreaks, dbVars
<1>2. night' \in BOOLEAN
  BY Zenon DEF NightFalls, DayBreaks
<1> QED BY <1>1, <1>2 DEF NotifyShape, NotifyTypeOK

LEMMA StartedFits ==
  /\ Started \in TickerStates /\ Started.counted = 0
  /\ [Started EXCEPT !.at = "off"] \in TickerStates /\ [Started EXCEPT !.at = "off"].counted = 0
BY DEF Started, TickerStates

LEMMA StartShapes == ASSUME NotifyShape, Start PROVE NotifyShape'
<1>1. ticker' = Started
      /\ UNCHANGED <<log, night, cfg, muted, held, shown, hits, next, sse, bridge, outcome>>
  BY DEF Start, dbVars
<1>2. up' \in BOOLEAN
  BY Zenon DEF Start
<1> QED BY <1>1, <1>2, StartedFits, NumbersShape DEF NotifyShape, NotifyTypeOK

LEMMA KillShape == ASSUME NotifyShape, Kill PROVE NotifyShape'
<1>1. /\ next' = 0 /\ sse' = Idle /\ bridge' = NoCall /\ ticker' = [Started EXCEPT !.at = "off"]
      /\ UNCHANGED <<log, night, cfg, muted, held, shown>>
  BY DEF Kill, dbVars
<1>2. up' \in BOOLEAN
  BY Zenon DEF Kill
<1>3. bridge' \in BridgeStates /\ bridge'.row.cursor = 0
  BY <1>1, NotifyConstants DEF NoCall, Idle, Row, BridgeStates
<1>4. hits' \in [Faults -> 0..MaxPerWindow]
  BY NotifyConstants DEF Kill
<1>5. outcome' \in [1..MaxChanges -> Outcomes]
  <2>1. "killed" \in Outcomes /\ outcome \in [1..MaxChanges -> Outcomes]
        /\ (sse # Idle => sse.at # "idle")
    BY DEF Outcomes, NotifyShape, NotifyTypeOK
  <2> QED BY <2>1, MadeFits DEF Kill
<1>6. next' \in 0..(MaxChanges + 1) /\ next' <= Len(log) + 1
  BY <1>1, NumbersShape, NotifyConstants
<1> QED BY <1>1, <1>2, <1>3, <1>4, <1>5, <1>6, StartedFits, IdleFits, NumbersShape
        DEF NotifyShape, NotifyTypeOK

LEMMA NextShape == NotifyShape /\ [NotifyNext]_notifyVars => NotifyShape'
<1> SUFFICES ASSUME NotifyShape, [NotifyNext]_notifyVars PROVE NotifyShape'
  OBVIOUS
<1>1. CASE UNCHANGED notifyVars
  <2>1. UNCHANGED <<log, night, cfg, muted, held, shown, up, hits, next, sse, ticker, bridge, outcome>>
    BY <1>1 DEF notifyVars
  <2> QED BY <2>1 DEF NotifyShape, NotifyTypeOK
<1>2. CASE StreamLoop
  BY <1>2, ConnectShape, DeliverShape, SaveCursorShape, MaintenanceShape, FaultShape,
     SettingsShape, SaveSettingsShape, MessageShape, HoldShape, PostShape DEF StreamLoop
<1>3. CASE Ticker
  BY <1>3, TickShape, ClearShape DEF Ticker
<1> QED BY <1>1, <1>2, <1>3, ConnectShape, ExpireShape, CallBridgeShape, SaveBridgeShape,
           ClockShape, KillShape, StartShapes DEF NotifyNext

-----------------------------------------------------------------------------
(* The cursor.                                                             *)

\* Every change up to c was handled or is in hand; in the second form the change in
\* hand counts only once the row with its number has been written.
Met(c) == \A i \in 1..c : outcome[i] # "none" \/ i = sse.n
MetForGood(c) == \A i \in 1..c : outcome[i] # "none" \/ (i = sse.n /\ sse.at # "cursor")

\* Every copy of the row, the stored one, the bridge's and the stream loop's, has a cursor
\* that may be written, and the connection is past what is stored.
Tracked ==
  /\ MetForGood(cfg.cursor)
  /\ bridge.busy => MetForGood(bridge.row.cursor) /\ bridge.row.cursor <= cfg.cursor
  /\ sse.at = "settings" => MetForGood(sse.row.cursor)
  /\ sse.at = "cursor" => Met(sse.row.cursor) /\ cfg.cursor < sse.n
  /\ sse.at \in {"cursor", "settings"} => cfg.cursor <= sse.row.cursor
  /\ next > 0 => /\ Met(next - 1)
                 /\ cfg.cursor <= next - 1 /\ sse.row.cursor <= next - 1

LEMMA SameTracked ==
  ASSUME NotifyShape, Tracked, UNCHANGED <<cfg, next, sse, bridge>>,
         \A i \in 1..MaxChanges : outcome[i] # "none" => outcome'[i] # "none"
  PROVE  Tracked'
<1>1. ASSUME NEW c \in Nat, c <= MaxChanges
      PROVE  (Met(c) => Met(c)') /\ (MetForGood(c) => MetForGood(c)')
  BY <1>1, NotifyConstants DEF Met, MetForGood
<1>2. next > 0 => next - 1 \in Nat /\ next - 1 <= MaxChanges
  BY NumbersShape, NotifyConstants
<1>3. cfg.cursor <= MaxChanges /\ bridge.row.cursor <= MaxChanges /\ sse.row.cursor <= MaxChanges
  BY NumbersShape, NotifyConstants
<1> QED BY <1>1, <1>2, <1>3, NumbersShape DEF Tracked

\* The change in hand is finished; the row in hand, if any, is written.
LEMMA FinishTracked ==
  ASSUME NotifyShape, Tracked, NEW what \in Outcomes \ {"none"},
         sse.at \notin {"idle", "cursor"}, sse' = Idle, outcome' = Made(what),
         UNCHANGED <<next, bridge>>,
         UNCHANGED cfg \/ (sse.at = "settings" /\ cfg' = sse.row)
  PROVE  Tracked'
<1>1. ASSUME NEW c \in Nat, c <= MaxChanges, Met(c)
      PROVE  \A i \in 1..c : outcome'[i] # "none"
  <2>1. \A i \in 1..c : i \in 1..MaxChanges
    BY <1>1, NotifyConstants
  <2> QED BY <1>1, <2>1, MadeFits DEF Met
<1>2. \A c : MetForGood(c) => Met(c)
  BY DEF Met, MetForGood
<1>3. PICK b : b = cfg'.cursor
  OBVIOUS
<1>4. b \in Nat /\ b <= MaxChanges /\ MetForGood(b) /\ cfg.cursor <= b
      /\ b <= next - 1 /\ next > 0
  BY <1>3, NumbersShape, NotifyConstants, ChangeFits DEF Tracked
<1>5. next - 1 \in Nat /\ next - 1 <= MaxChanges
  BY <1>4, NumbersShape, NotifyConstants
<1>6. MetForGood(cfg.cursor)' /\ (bridge.busy => MetForGood(bridge.row.cursor)') /\ Met(next - 1)'
  <2>1. MetForGood(cfg.cursor)'
    BY <1>1, <1>2, <1>3, <1>4 DEF MetForGood
  <2>2. bridge.busy => MetForGood(bridge.row.cursor)'
    <3>1. PICK d : d = bridge.row.cursor
      OBVIOUS
    <3>2. bridge.busy => d \in Nat /\ d <= MaxChanges /\ Met(d)
      BY <1>2, <3>1, NumbersShape, NotifyConstants DEF Tracked
    <3> QED BY <1>1, <3>1, <3>2 DEF MetForGood
  <2>3. Met(next - 1)'
    BY <1>1, <1>4, <1>5 DEF Tracked, Met
  <2> QED BY <2>1, <2>2, <2>3
<1>7. bridge.busy => bridge.row.cursor <= b
  BY <1>4, NumbersShape DEF Tracked
<1> QED BY <1>3, <1>4, <1>5, <1>6, <1>7, IdleFits DEF Tracked

LEMMA ConnectTracked == ASSUME NotifyShape, Tracked, Connect \/ Disconnect PROVE Tracked'
<1>1. /\ sse = Idle /\ UNCHANGED <<cfg, sse, bridge, outcome>>
      /\ next' = 0 \/ next' = cfg.cursor + 1
  BY DEF Connect, Disconnect, dbVars
<1>2. \A c : (Met(c) <=> Met(c)') /\ (MetForGood(c) <=> MetForGood(c)') /\ (MetForGood(c) => Met(c))
  BY <1>1 DEF Met, MetForGood
<1>3. cfg.cursor \in Nat /\ sse.row.cursor = 0 /\ (cfg.cursor + 1) - 1 = cfg.cursor
  BY <1>1, IdleFits, NumbersShape
<1> QED BY <1>1, <1>2, <1>3, IdleFits DEF Tracked

LEMMA DeliverTracked == ASSUME NotifyShape, Tracked, Deliver PROVE Tracked'
<1>1. /\ sse = Idle /\ next > 0 /\ next' = next + 1 /\ UNCHANGED <<cfg, bridge, outcome>>
      /\ sse' = [at |-> "cursor", n |-> next,
                 row |-> IF next > cfg.cursor THEN [cfg EXCEPT !.cursor = next] ELSE cfg]
  BY NotifyConstants DEF Deliver, dbVars
<1>2. cfg.cursor <= next - 1 /\ cfg.cursor < next /\ next' - 1 = next /\ next' > 0
  BY <1>1, NumbersShape DEF Tracked
<1>3. sse'.at = "cursor" /\ sse'.n = next /\ sse'.row.cursor = next
  BY <1>1, <1>2 DEF NotifyShape, NotifyTypeOK, Row
<1>4. \A c \in Nat : MetForGood(c) => MetForGood(c)'
  BY <1>1, <1>3, IdleFits DEF MetForGood
<1>5. Met(next - 1)' /\ Met(sse.row.cursor)'
  <2>1. \A i \in 1..next - 1 : outcome[i] # "none"
    <3>1. Met(next - 1) /\ sse.n = 0
      BY <1>1, IdleFits DEF Tracked
    <3> QED BY <3>1, NumbersShape DEF Met
  <2>2. \A i \in 1..next : i = next \/ i \in 1..next - 1
    BY NumbersShape
  <2>3. \A i \in 1..next : outcome'[i] # "none" \/ i = sse'.n
    BY <1>1, <1>3, <2>1, <2>2
  <2> QED BY <1>2, <1>3, <2>3 DEF Met
<1>6. sse'.row.cursor <= next' - 1 /\ cfg'.cursor <= next' - 1 /\ cfg'.cursor < sse'.n
      /\ cfg'.cursor <= sse'.row.cursor
  BY <1>1, <1>2, <1>3, NumbersShape
<1> QED BY <1>1, <1>3, <1>4, <1>5, <1>6, NumbersShape DEF Tracked

LEMMA SaveCursorTracked == ASSUME NotifyShape, Tracked, SaveCursor PROVE Tracked'
<1>1. /\ cfg' = sse.row /\ sse.at = "cursor" /\ UNCHANGED <<next, bridge, outcome>>
      /\ sse' = [sse EXCEPT !.at = "handle"]
  BY DEF SaveCursor
<1>2. sse'.at = "handle" /\ sse'.n = sse.n /\ sse'.row = sse.row
  BY <1>1 DEF NotifyShape, NotifyTypeOK, StreamStates
<1>3. \A c : (Met(c) => MetForGood(c)' /\ Met(c)') /\ (MetForGood(c) => MetForGood(c)')
  BY <1>1, <1>2 DEF Met, MetForGood
<1>4. bridge.busy => bridge.row.cursor <= sse.row.cursor
  BY <1>1, NumbersShape DEF Tracked
<1> QED BY <1>1, <1>2, <1>3, <1>4 DEF Tracked

\* The stream loop goes on with the change in hand, with its row or a fresh copy.
LEMMA StepTracked ==
  ASSUME NotifyShape, Tracked, sse.at = "handle", NEW place \in {"settings", "hold", "post"},
         sse'.at = place, sse'.n = sse.n, sse'.row.cursor \in {sse.row.cursor, cfg.cursor},
         place = "settings" => sse'.row.cursor = cfg.cursor,
         UNCHANGED <<cfg, next, bridge, outcome>>
  PROVE  Tracked'
<1>1. \A c : (Met(c) => Met(c)') /\ (MetForGood(c) => MetForGood(c)')
  BY DEF Met, MetForGood
<1> QED BY <1>1, NumbersShape DEF Tracked

LEMMA CallBridgeTracked ==
  ASSUME NotifyShape, Tracked, NEW on \in BOOLEAN, CallBridge(on) PROVE Tracked'
<1>1. /\ bridge' = [busy |-> TRUE, row |-> [cfg EXCEPT !.dnd = on]]
      /\ UNCHANGED <<cfg, next, sse, outcome>>
  BY DEF CallBridge, dbVars
<1>2. bridge'.row.cursor = cfg.cursor
  BY <1>1 DEF NotifyShape, NotifyTypeOK, Row
<1>3. \A c : (Met(c) => Met(c)') /\ (MetForGood(c) => MetForGood(c)')
  BY <1>1 DEF Met, MetForGood
<1> QED BY <1>1, <1>2, <1>3, NumbersShape DEF Tracked

LEMMA SaveBridgeTracked == ASSUME NotifyShape, Tracked, SaveBridge PROVE Tracked'
<1>1. cfg' = bridge.row /\ bridge.busy /\ bridge' = NoCall /\ UNCHANGED <<next, sse, outcome>>
  BY DEF SaveBridge
<1>2. ~bridge'.busy
  BY <1>1 DEF NoCall
<1>3. \A c : (Met(c) => Met(c)') /\ (MetForGood(c) => MetForGood(c)')
  BY <1>1 DEF Met, MetForGood
<1>4. PICK b : b = bridge.row.cursor
  OBVIOUS
<1>5. b \in Nat /\ b <= cfg.cursor /\ cfg'.cursor = b /\ MetForGood(b)
  BY <1>1, <1>4, NumbersShape DEF Tracked
<1>6. /\ sse.at = "cursor" => b < sse.n
      /\ sse.at \in {"cursor", "settings"} => b <= sse.row.cursor
      /\ next > 0 => b <= next - 1
  BY <1>5, NumbersShape DEF Tracked
<1> QED BY <1>1, <1>2, <1>3, <1>5, <1>6 DEF Tracked

LEMMA KillTracked == ASSUME NotifyShape, Tracked, Kill PROVE Tracked'
<1>1. /\ next' = 0 /\ sse' = Idle /\ bridge' = NoCall /\ UNCHANGED cfg
      /\ outcome' = IF sse = Idle \/ sse.at = "cursor" THEN outcome ELSE Made("killed")
  BY DEF Kill, dbVars
<1>2. ASSUME NEW i \in 1..cfg.cursor PROVE outcome'[i] # "none"
  <2>1. outcome[i] # "none" \/ (i = sse.n /\ sse.at # "cursor")
    BY DEF Tracked, MetForGood
  <2>2. i \in 1..MaxChanges /\ i # 0
    BY NumbersShape, NotifyConstants
  <2>3. CASE sse = Idle \/ sse.at = "cursor"
    BY <1>1, <2>1, <2>2, <2>3, IdleFits
  <2>4. CASE ~(sse = Idle \/ sse.at = "cursor")
    <3>1. sse.at # "idle" /\ "killed" \in Outcomes /\ "killed" # "none"
      BY <2>4 DEF NotifyShape, Outcomes
    <3>2. outcome' = Made("killed")
      BY <1>1, <2>4
    <3> QED BY <2>1, <2>2, <3>1, <3>2, MadeFits
  <2> QED BY <2>3, <2>4
<1>3. ~bridge'.busy
  BY <1>1 DEF NoCall
<1>4. MetForGood(cfg.cursor)'
  BY <1>1, <1>2 DEF MetForGood
<1> QED BY <1>1, <1>3, <1>4, IdleFits DEF Tracked

LEMMA FinishingTracked ==
  ASSUME NotifyShape, Tracked,
         HandleMaintenance \/ HandleFault \/ SaveSettings \/ Hold \/ Post
  PROVE  Tracked'
<1>1. \E what \in Outcomes \ {"none"} : outcome' = Made(what)
  BY DEF HandleMaintenance, HandleFault, SaveSettings, Hold, Post, Outcomes
<1>2. /\ sse.at \notin {"idle", "cursor"} /\ sse' = Idle /\ UNCHANGED <<next, bridge>>
      /\ UNCHANGED cfg \/ (sse.at = "settings" /\ cfg' = sse.row)
  BY DEF HandleMaintenance, HandleFault, SaveSettings, Hold, Post, dbVars
<1> QED BY <1>1, <1>2, FinishTracked

LEMMA MessageTracked == ASSUME NotifyShape, Tracked, HandleMessage PROVE Tracked'
<1>1. sse.at = "handle" /\ UNCHANGED <<cfg, next, bridge>> /\ "muted" \in Outcomes \ {"none"}
  BY DEF HandleMessage, dbVars, Outcomes
<1>2. CASE sse' = Idle /\ outcome' = Made("muted")
  BY <1>1, <1>2, FinishTracked
<1>3. CASE sse' = [sse EXCEPT !.at = IF Active THEN "hold" ELSE "post"] /\ UNCHANGED outcome
  <2>1. PICK place \in {"hold", "post"} : sse' = [sse EXCEPT !.at = place]
    BY <1>3
  <2>2. sse'.at = place /\ sse'.n = sse.n /\ sse'.row = sse.row
    BY <2>1 DEF NotifyShape, NotifyTypeOK, StreamStates
  <2> QED BY <1>1, <1>3, <2>2, StepTracked
<1> QED BY <1>2, <1>3 DEF HandleMessage

LEMMA SettingsTracked == ASSUME NotifyShape, Tracked, HandleSettings PROVE Tracked'
<1> DEFINE r == [cfg EXCEPT !.dnd = (Change.kind = "dnd_on")]
<1>1. /\ sse' = [sse EXCEPT !.at = "settings", !.row = r] /\ sse.at = "handle"
      /\ UNCHANGED <<cfg, next, bridge, outcome>>
  BY DEF HandleSettings, dbVars
<1>2. r.cursor = cfg.cursor
  BY DEF NotifyShape, NotifyTypeOK, Row
<1> HIDE DEF r
<1>3. sse'.at = "settings" /\ sse'.n = sse.n /\ sse'.row = r
  BY <1>1 DEF NotifyShape, NotifyTypeOK, StreamStates
<1> QED BY <1>1, <1>2, <1>3, StepTracked

\* Steps that leave the stream loop, the bridge and the stored row alone.
LEMMA ElsewhereStep ==
  ASSUME NotifyShape,
         \/ Ticker \/ NightFalls \/ DayBreaks \/ Start \/ UNCHANGED notifyVars
         \/ \E f \in Faults : Expire(f)
  PROVE  /\ UNCHANGED <<log, cfg, muted, shown, next, sse, bridge>>
         /\ \A i \in 1..MaxChanges :
              outcome'[i] = outcome[i] \/ (outcome[i] = "held" /\ outcome'[i] \in {"summarised", "raced"})
<1>1. UNCHANGED <<log, cfg, muted, shown, next, sse, bridge>>
  BY DEF Ticker, Tick, CountHeld, ClearHeld, NightFalls, DayBreaks, Start, notifyVars, Expire, dbVars
<1>2. CASE ClearHeld
  BY <1>1, <1>2 DEF ClearHeld
<1>3. CASE ~ClearHeld
  <2>1. UNCHANGED outcome
    BY <1>3 DEF Ticker, Tick, CountHeld, NightFalls, DayBreaks, Start, notifyVars, Expire
  <2> QED BY <1>1, <2>1
<1> QED BY <1>2, <1>3

LEMMA NextTracked == NotifyShape /\ Tracked /\ [NotifyNext]_notifyVars => Tracked'
<1> SUFFICES ASSUME NotifyShape, Tracked, [NotifyNext]_notifyVars PROVE Tracked'
  OBVIOUS
<1>1. CASE StreamLoop
  BY <1>1, ConnectTracked, DeliverTracked, SaveCursorTracked, FinishingTracked,
     SettingsTracked, MessageTracked DEF StreamLoop
<1>2. CASE \/ Ticker \/ NightFalls \/ DayBreaks \/ Start \/ UNCHANGED notifyVars
           \/ \E f \in Faults : Expire(f)
  BY <1>2, ElsewhereStep, SameTracked
<1> QED BY <1>1, <1>2, ConnectTracked, CallBridgeTracked, SaveBridgeTracked, KillTracked DEF NotifyNext

LEMMA InitTracked == NotifyInit => Tracked
<1> SUFFICES ASSUME NotifyInit PROVE Tracked
  OBVIOUS
<1>1. cfg.cursor = 0 /\ ~bridge.busy /\ sse.at = "idle" /\ next = 0
  BY IdleFits DEF NotifyInit, NoCall
<1> QED BY <1>1 DEF Tracked, MetForGood

\* The tables, the coroutines and the histories of the native service keep their types,
\* and the held rows and the ticker's count never point beyond what was delivered.
THEOREM NotifyTypeCorrect == NotifySpec => []NotifyTypeOK
<1>1. NotifyShape => NotifyTypeOK
  BY DEF NotifyShape
<1> QED BY <1>1, StartShape, NextShape, PTL DEF NotifySpec

\* No change up to the stored cursor was left out, although the stream loop, the settings
\* event and the bridge each write back a row that they read some steps before
\* (handleSseEvent, onSettingsEvent, ConfigStore.update).
THEOREM NoChangeSkipped == NotifySpec => []NothingSkipped
<1>1. Tracked => NothingSkipped
  BY DEF Tracked, MetForGood, NothingSkipped
<1> QED BY <1>1, StartShape, NextShape, InitTracked, NextTracked, PTL DEF NotifySpec

-----------------------------------------------------------------------------
(* Mutes.                                                                  *)

\* What the stream loop is about to post or hold is not muted.
InHand == sse.at \in {"hold", "post"} => Change.fault \notin muted

LEMMA ElsewhereSilent ==
  ASSUME NotifyShape, InHand,
         \/ Ticker \/ NightFalls \/ DayBreaks \/ Start \/ UNCHANGED notifyVars
         \/ \E f \in Faults : Expire(f)
  PROVE  InHand' /\ Silence
<1>1. InHand'
  BY ElsewhereStep DEF InHand, Change
<1>2. ASSUME NEW i \in 1..Len(log), outcome'[i] # outcome[i] PROVE outcome'[i] \notin {"posted", "held"}
  <2>1. i \in 1..MaxChanges
    BY NumbersShape, NotifyConstants
  <2> QED BY <1>2, <2>1, ElsewhereStep
<1> QED BY <1>1, <1>2 DEF Silence

LEMMA StreamSilent == ASSUME NotifyShape, InHand, StreamLoop PROVE InHand' /\ Silence
<1> USE DEF Silence
<1>1. CASE Connect
  BY <1>1 DEF Connect, InHand, Change, dbVars
<1>2. CASE Deliver
  BY <1>2 DEF Deliver, InHand
<1>3. CASE SaveCursor
  <2>1. sse'.at = "handle"
    BY <1>3 DEF SaveCursor, NotifyShape, NotifyTypeOK, StreamStates
  <2> QED BY <1>3, <2>1 DEF SaveCursor, InHand
<1>4. CASE HandleSettings
  <2>1. sse'.at = "settings"
    BY <1>4 DEF HandleSettings, NotifyShape, NotifyTypeOK, StreamStates
  <2> QED BY <1>4, <2>1 DEF HandleSettings, InHand
<1>5. ASSUME NEW what \in Outcomes, sse.at # "idle", sse' = Idle, outcome' = Made(what),
             what \in {"posted", "held"} => sse.at \in {"hold", "post"}
      PROVE  InHand' /\ Silence
  <2>1. InHand'
    BY <1>5, IdleFits DEF InHand
  <2>2. \A i \in 1..Len(log) : i \in 1..MaxChanges
    BY NumbersShape, NotifyConstants
  <2>3. ASSUME NEW i \in 1..Len(log), outcome'[i] # outcome[i], outcome'[i] \in {"posted", "held"}
        PROVE  log[i].fault \notin muted
    <3>1. i = sse.n /\ outcome'[i] = what
      BY <1>5, <2>2, <2>3, MadeFits
    <3> QED BY <1>5, <2>3, <3>1 DEF InHand, Change
  <2> QED BY <2>1, <2>3
<1>6. CASE HandleMaintenance \/ HandleFault \/ SaveSettings
  <2>1. sse.at # "idle" /\ sse' = Idle /\ outcome' = Made("done") /\ "done" \in Outcomes
    BY <1>6 DEF HandleMaintenance, HandleFault, SaveSettings, Outcomes
  <2> QED BY <1>5, <2>1
<1>7. CASE HandleMessage
  <2>1. CASE Silenced
    <3>1. sse.at # "idle" /\ sse' = Idle /\ outcome' = Made("muted") /\ "muted" \in Outcomes
      BY <1>7, <2>1 DEF HandleMessage, Outcomes
    <3> QED BY <1>5, <3>1
  <2>2. CASE ~Silenced
    <3>1. UNCHANGED <<log, muted, outcome>> /\ Change.fault \notin muted
      BY <1>7, <2>2 DEF HandleMessage, Silenced, dbVars
    <3>2. sse'.n = sse.n
      BY <1>7, <2>2 DEF HandleMessage, NotifyShape, NotifyTypeOK, StreamStates
    <3> QED BY <3>1, <3>2 DEF InHand, Change
  <2> QED BY <2>1, <2>2
<1>8. CASE Hold \/ Post
  <2>1. PICK what \in {"held", "posted", "debounced"} : outcome' = Made(what)
    BY <1>8 DEF Hold, Post
  <2>2. sse.at \in {"hold", "post"} /\ sse' = Idle /\ what \in Outcomes
    BY <1>8 DEF Hold, Post, Outcomes
  <2> QED BY <1>5, <2>1, <2>2
<1> QED BY <1>1, <1>2, <1>3, <1>4, <1>6, <1>7, <1>8 DEF StreamLoop

LEMMA OthersSilent ==
  ASSUME NotifyShape, InHand,
         Disconnect \/ SaveBridge \/ Kill \/ \E on \in BOOLEAN : CallBridge(on)
  PROVE  InHand' /\ Silence
<1>1. CASE ~Kill
  <2>1. UNCHANGED <<log, muted, sse, outcome>>
    BY <1>1 DEF Disconnect, SaveBridge, CallBridge, dbVars
  <2> QED BY <2>1 DEF InHand, Change, Silence
<1>2. CASE Kill
  <2>1. InHand'
    BY <1>2, IdleFits DEF Kill, InHand
  <2>2. ASSUME NEW i \in 1..Len(log), outcome'[i] # outcome[i] PROVE outcome'[i] \notin {"posted", "held"}
    <3>1. sse.at # "idle" /\ outcome' = Made("killed") /\ "killed" \in Outcomes
      BY <1>2, <2>2 DEF Kill, NotifyShape, Outcomes
    <3>2. i \in 1..MaxChanges
      BY NumbersShape, NotifyConstants
    <3> QED BY <2>2, <3>1, <3>2, MadeFits
  <2> QED BY <2>1, <2>2 DEF Silence
<1> QED BY <1>1, <1>2

LEMMA NextSilent == NotifyShape /\ InHand /\ [NotifyNext]_notifyVars => InHand' /\ Silence
BY StreamSilent, ElsewhereSilent, OthersSilent DEF NotifyNext

\* From the step that handles a mute to the one that undoes it nothing of the fault is
\* posted or held, redelivered messages included (onMessageEvent, onFaultEvent).
THEOREM MutedFaultsSilent == NotifySpec => MutedSilent
<1>1. NotifyInit => InHand
  BY IdleFits DEF NotifyInit, InHand
<1>2. NotifyShape /\ InHand /\ [NotifyNext]_notifyVars => [Silence]_notifyVars
  BY NextSilent
<1>3. NotifyShape /\ InHand /\ [NotifyNext]_notifyVars => InHand'
  BY NextSilent
<1> QED BY <1>1, <1>2, <1>3, StartShape, NextShape, PTL DEF NotifySpec, MutedSilent

-----------------------------------------------------------------------------
(* The end of a fault.                                                     *)

\* The last incident of the fault is its end, at i.
EndsAt(i, f) ==
  /\ log[i].fault = f /\ log[i].kind = "incident_resolved"
  /\ \A j \in i + 1..Len(log) : log[j].fault = f => log[j].kind \notin Incident

\* The end was handled, and yet the notification shows something else.
Overwritten(i, f) ==
  EndsAt(i, f) /\ outcome[i] \in {"posted", "debounced"} /\ shown[f] # "resolved"

\* The stream has yet to bring the change i, or brings it again.
Ahead(i) ==
  \/ next = 0 /\ cfg.cursor < i
  \/ next \in 1..i
  \/ next = i + 1 /\ sse.at # "idle"

\* Only a redelivery overwrites an end, and it goes on to that end; nothing was made of
\* changes that are not there.
Pending ==
  /\ \A i \in 1..Len(log), f \in Faults : Overwritten(i, f) => Ahead(i)
  /\ \A i \in Len(log) + 1..MaxChanges : outcome[i] = "none"

\* Steps that handle no change.
LEMMA SamePending ==
  ASSUME NotifyShape, Pending, UNCHANGED <<log, shown>>,
         \A i \in 1..MaxChanges :
           \/ outcome'[i] = outcome[i]
           \/ outcome[i] # "none" /\ outcome'[i] \notin {"posted", "debounced"},
         \A i \in 1..Len(log) : Ahead(i) => Ahead(i)'
  PROVE  Pending'
<1>1. \A i \in 1..Len(log) : i \in 1..MaxChanges
  BY NumbersShape, NotifyConstants
<1>2. \A i \in Len(log) + 1..MaxChanges : i \in 1..MaxChanges
  BY NumbersShape
<1>3. ASSUME NEW i \in 1..Len(log), NEW f \in Faults, Overwritten(i, f)' PROVE Ahead(i)'
  <2>1. Overwritten(i, f)
    BY <1>1, <1>3 DEF Overwritten, EndsAt
  <2> QED BY <2>1 DEF Pending
<1> QED BY <1>2, <1>3 DEF Pending

\* The change in hand is finished: an end posts itself, and what comes before the last
\* incident of the fault is followed by it.
LEMMA FinishPending ==
  ASSUME NotifyShape, Pending, sse.at # "idle", NEW what \in Outcomes, outcome' = Made(what),
         UNCHANGED <<log, next>>,
         \A f \in Faults : shown'[f] = shown[f] \/ (Change.fault = f /\ Change.kind \in Incident),
         what \in {"posted", "debounced"} /\ Change.kind = "incident_resolved"
           => shown'[Change.fault] = "resolved"
  PROVE  Pending'
<1>1. sse.n \in 1..Len(log) /\ next = sse.n + 1
  BY ChangeFits
<1>2. \A i \in 1..Len(log) : i \in 1..MaxChanges
  BY NumbersShape, NotifyConstants
<1>3. \A i \in Len(log) + 1..MaxChanges : i \in 1..MaxChanges /\ i # sse.n
  BY <1>1, NumbersShape
<1>4. ASSUME NEW i \in 1..Len(log), NEW f \in Faults, Overwritten(i, f)' PROVE Ahead(i)'
  <2>1. EndsAt(i, f)
    BY <1>4 DEF Overwritten, EndsAt
  <2>2. CASE sse.n < i
    <3>1. next \in 1..i
      BY <1>1, <2>2, NumbersShape
    <3> QED BY <3>1 DEF Ahead
  <2>3. CASE sse.n = i
    <3>1. outcome'[i] = what /\ Change.fault = f /\ Change.kind = "incident_resolved"
      BY <2>1, <2>3, MadeFits DEF EndsAt, Change
    <3> QED BY <1>4, <3>1 DEF Overwritten
  <2>4. CASE sse.n > i
    <3>1. sse.n \in i + 1..Len(log)
      BY <1>1, <2>4
    <3>2. Change.fault = f => Change.kind \notin Incident
      BY <2>1, <3>1 DEF EndsAt, Change
    <3>3. outcome'[i] = outcome[i] /\ shown'[f] = shown[f]
      BY <1>2, <2>4, <3>2, MadeFits
    <3>4. Overwritten(i, f)
      BY <1>4, <2>1, <3>3 DEF Overwritten
    <3>5. Ahead(i)
      BY <3>4 DEF Pending
    <3> QED BY <1>1, <2>4, <3>5 DEF Ahead
  <2> QED BY <1>1, <2>2, <2>3, <2>4
<1>5. \A i \in Len(log) + 1..MaxChanges : outcome'[i] = "none"
  BY <1>3, MadeFits DEF Pending
<1> QED BY <1>4, <1>5 DEF Pending

LEMMA FinishingPending ==
  ASSUME NotifyShape, Pending, HandleMaintenance \/ HandleFault \/ SaveSettings \/ Hold
  PROVE  Pending'
<1>1. \E what \in Outcomes \ {"posted", "debounced"} : outcome' = Made(what)
  BY DEF HandleMaintenance, HandleFault, SaveSettings, Hold, Outcomes
<1>2. sse.at # "idle" /\ UNCHANGED <<log, next, shown>>
  BY DEF HandleMaintenance, HandleFault, SaveSettings, Hold
<1> QED BY <1>1, <1>2, FinishPending

LEMMA PostPending == ASSUME NotifyShape, Pending, Post PROVE Pending'
<1>1. PICK what \in {"posted", "debounced"} : outcome' = Made(what)
  BY DEF Post
<1>2. sse.at # "idle" /\ UNCHANGED <<log, next>> /\ what \in Outcomes
  BY DEF Post, Outcomes
<1>3. shown \in [Faults -> {"nothing", "open", "resolved"}]
  BY DEF NotifyShape, NotifyTypeOK
<1>4. \A f \in Faults : shown'[f] = shown[f] \/ (Change.fault = f /\ Change.kind \in Incident)
  BY <1>3 DEF Post
<1>5. Change.kind = "incident_resolved" => shown'[Change.fault] = "resolved"
  <2> SUFFICES ASSUME Change.kind = "incident_resolved" PROVE shown'[Change.fault] = "resolved"
    OBVIOUS
  <2>1. Change.kind \in Incident /\ ~Debounced /\ Change.fault \in Faults
    BY <1>2, ChangeFits DEF Incident, Debounced
  <2>2. shown' = [shown EXCEPT ![Change.fault] = "resolved"]
    BY <2>1 DEF Post
  <2> QED BY <1>3, <2>1, <2>2
<1> QED BY <1>1, <1>2, <1>4, <1>5, FinishPending

LEMMA MessagePending == ASSUME NotifyShape, Pending, HandleMessage PROVE Pending'
<1>1. sse.at # "idle" /\ UNCHANGED <<log, cfg, next, shown>> /\ "muted" \in Outcomes
  BY DEF HandleMessage, dbVars, Outcomes
<1>2. CASE outcome' = Made("muted")
  BY <1>1, <1>2, FinishPending
<1>3. CASE sse' = [sse EXCEPT !.at = IF Active THEN "hold" ELSE "post"] /\ UNCHANGED outcome
  <2>1. sse'.at # "idle"
    BY <1>3 DEF NotifyShape, NotifyTypeOK, StreamStates
  <2> QED BY <1>1, <1>3, <2>1, SamePending DEF Ahead
<1> QED BY <1>2, <1>3 DEF HandleMessage

LEMMA SavingPending ==
  ASSUME NotifyShape, Pending, SaveCursor \/ HandleSettings
  PROVE  Pending'
<1>1. UNCHANGED <<log, next, shown, outcome>> /\ sse.at # "idle"
  BY DEF SaveCursor, HandleSettings
<1>2. sse'.at # "idle"
  BY DEF SaveCursor, HandleSettings, NotifyShape, NotifyTypeOK, StreamStates
<1>3. next # 0
  BY <1>1, ChangeFits, NumbersShape
<1> QED BY <1>1, <1>2, <1>3, SamePending DEF Ahead

LEMMA DeliverPending == ASSUME NotifyShape, Pending, Deliver PROVE Pending'
<1>1. next \in 1..MaxChanges /\ next' = next + 1 /\ sse.at = "idle" /\ sse'.at = "cursor"
      /\ UNCHANGED <<cfg, shown, outcome>>
  BY IdleFits DEF Deliver, dbVars
<1>2. \A i \in 1..MaxChanges : Ahead(i) => Ahead(i)'
  BY <1>1, NumbersShape, NotifyConstants DEF Ahead
<1>3. CASE UNCHANGED log
  <2>1. \A i \in 1..Len(log) : i \in 1..MaxChanges
    BY NumbersShape, NotifyConstants
  <2> QED BY <1>1, <1>2, <1>3, <2>1, SamePending
<1>4. CASE \E c \in Changes : log' = Append(log, c)
  <2>1. Len(log') = Len(log) + 1 /\ \A i \in 1..Len(log) : log'[i] = log[i]
    <3>1. log \in Seq(Changes)
      BY DEF NotifyShape, NotifyTypeOK
    <3> QED BY <1>4, <3>1
  <2>2. Len(log) + 1 <= MaxChanges
    BY <1>1, <1>4, NumbersShape, NextShape, NotifyConstants DEF NotifyShape, NotifyTypeOK, Deliver
  <2>3. ASSUME NEW i \in 1..Len(log'), NEW f \in Faults, Overwritten(i, f)' PROVE Ahead(i)'
    <3>1. CASE i = Len(log) + 1
      <4>1. outcome[i] = "none"
        BY <2>2, <3>1, NumbersShape, NotifyConstants DEF Pending
      <4> QED BY <1>1, <2>3, <4>1 DEF Overwritten
    <3>2. CASE i \in 1..Len(log)
      <4>1. \A j \in i + 1..Len(log) : j \in i + 1..Len(log') /\ log'[j] = log[j]
        BY <2>1, <3>2, NumbersShape
      <4>2. Overwritten(i, f)
        BY <1>1, <2>1, <2>3, <3>2, <4>1 DEF Overwritten, EndsAt
      <4>3. i \in 1..MaxChanges
        BY <3>2, NumbersShape, NotifyConstants
      <4> QED BY <1>2, <3>2, <4>2, <4>3 DEF Pending
    <3> QED BY <2>1, <3>1, <3>2, NumbersShape
  <2>4. \A i \in Len(log') + 1..MaxChanges : i \in Len(log) + 1..MaxChanges
    BY <2>1, NumbersShape
  <2> QED BY <1>1, <2>3, <2>4 DEF Pending
<1> QED BY <1>3, <1>4 DEF Deliver

LEMMA ConnectPending == ASSUME NotifyShape, Tracked, Pending, Connect \/ Disconnect PROVE Pending'
<1>1. UNCHANGED <<log, cfg, shown, sse, outcome>> /\ sse.at = "idle"
  BY IdleFits DEF Connect, Disconnect, dbVars
<1>2. \A i \in 1..Len(log) : Ahead(i) => Ahead(i)'
  <2>1. CASE Connect
    BY <1>1, <2>1, NumbersShape DEF Ahead, Connect
  <2>2. CASE Disconnect
    BY <1>1, <2>2, NumbersShape DEF Ahead, Disconnect, Tracked
  <2> QED BY <2>1, <2>2
<1> QED BY <1>1, <1>2, SamePending

LEMMA BridgePending ==
  ASSUME NotifyShape, Tracked, Pending, SaveBridge \/ \E on \in BOOLEAN : CallBridge(on)
  PROVE  Pending'
<1>1. UNCHANGED <<log, next, shown, sse, outcome>>
  BY DEF SaveBridge, CallBridge
<1>2. PICK b : b = cfg'.cursor
  OBVIOUS
<1>3. b \in Nat /\ b <= cfg.cursor
  BY <1>2, NumbersShape DEF SaveBridge, CallBridge, dbVars, Tracked
<1>4. \A i \in 1..Len(log) : Ahead(i) => Ahead(i)'
  <2>1. \A i \in 1..Len(log) : cfg.cursor < i => b < i
    BY <1>3, NumbersShape
  <2> QED BY <1>1, <1>2, <2>1 DEF Ahead
<1> QED BY <1>1, <1>4, SamePending

LEMMA KillPending == ASSUME NotifyShape, Tracked, Pending, Kill PROVE Pending'
<1>1. /\ next' = 0 /\ sse' = Idle /\ UNCHANGED <<log, cfg, shown>>
      /\ outcome' = IF sse = Idle \/ sse.at = "cursor" THEN outcome ELSE Made("killed")
  BY DEF Kill, dbVars
<1>2. "killed" \in Outcomes /\ (sse.at = "idle" => sse = Idle)
  BY DEF Outcomes, NotifyShape
<1>3. \A i \in 1..Len(log) : Ahead(i) => cfg.cursor < i \/ (i = sse.n /\ sse.at \notin {"idle", "cursor"})
  <2> SUFFICES ASSUME NEW i \in 1..Len(log), Ahead(i)
               PROVE  cfg.cursor < i \/ (i = sse.n /\ sse.at \notin {"idle", "cursor"})
    OBVIOUS
  <2>1. CASE next = 0 /\ cfg.cursor < i
    BY <2>1
  <2>2. CASE next \in 1..i
    BY <2>2, NumbersShape DEF Tracked
  <2>3. CASE next = i + 1 /\ sse.at # "idle"
    BY <2>3, ChangeFits, NumbersShape DEF Tracked
  <2> QED BY <2>1, <2>2, <2>3 DEF Ahead
<1>4. \A i \in 1..Len(log) : i \in 1..MaxChanges
  BY NumbersShape, NotifyConstants
<1>5. ASSUME NEW i \in 1..Len(log), NEW f \in Faults, Overwritten(i, f)' PROVE Ahead(i)'
  <2>1. outcome'[i] = outcome[i] /\ ~(i = sse.n /\ sse.at \notin {"idle", "cursor"})
    <3>1. CASE sse = Idle \/ sse.at = "cursor"
      BY <1>1, <3>1, IdleFits
    <3>2. CASE ~(sse = Idle \/ sse.at = "cursor")
      <4>1. sse.at # "idle" /\ outcome' = Made("killed")
        BY <1>1, <1>2, <3>2
      <4>2. CASE i = sse.n
        BY <1>2, <1>5, <4>1, <4>2, MadeFits DEF Overwritten
      <4>3. CASE i # sse.n
        BY <1>2, <1>4, <4>1, <4>3, MadeFits
      <4> QED BY <4>2, <4>3
    <3> QED BY <3>1, <3>2
  <2>2. Overwritten(i, f)
    BY <1>1, <1>5, <2>1 DEF Overwritten, EndsAt
  <2>3. cfg.cursor < i
    BY <1>3, <2>1, <2>2 DEF Pending
  <2> QED BY <1>1, <2>3 DEF Ahead
<1>6. ASSUME NEW i \in Len(log) + 1..MaxChanges PROVE outcome'[i] = "none"
  <2>1. outcome[i] = "none" /\ i \in 1..MaxChanges
    BY NumbersShape DEF Pending
  <2>2. sse.at # "idle" => i # sse.n
    BY ChangeFits, NumbersShape
  <2>3. CASE sse = Idle \/ sse.at = "cursor"
    BY <1>1, <2>1, <2>3
  <2>4. CASE ~(sse = Idle \/ sse.at = "cursor")
    <3>1. sse.at # "idle" /\ outcome' = Made("killed")
      BY <1>1, <1>2, <2>4
    <3> QED BY <1>2, <2>1, <2>2, <3>1, MadeFits
  <2> QED BY <2>3, <2>4
<1> QED BY <1>1, <1>5, <1>6 DEF Pending

LEMMA NextPending == NotifyShape /\ Tracked /\ Pending /\ [NotifyNext]_notifyVars => Pending'
<1> SUFFICES ASSUME NotifyShape, Tracked, Pending, [NotifyNext]_notifyVars PROVE Pending'
  OBVIOUS
<1>1. CASE StreamLoop
  BY <1>1, ConnectPending, DeliverPending, SavingPending, FinishingPending, MessagePending,
     PostPending DEF StreamLoop
<1>2. CASE \/ Ticker \/ NightFalls \/ DayBreaks \/ Start \/ UNCHANGED notifyVars
           \/ \E f \in Faults : Expire(f)
  <2>1. \A i \in 1..Len(log) : Ahead(i) => Ahead(i)'
    BY <1>2, ElsewhereStep DEF Ahead
  <2>2. /\ UNCHANGED <<log, shown>>
        /\ \A i \in 1..MaxChanges :
             \/ outcome'[i] = outcome[i]
             \/ outcome[i] # "none" /\ outcome'[i] \notin {"posted", "debounced"}
    BY <1>2, ElsewhereStep
  <2> QED BY <2>1, <2>2, SamePending
<1> QED BY <1>1, <1>2, ConnectPending, BridgePending, KillPending DEF NotifyNext

LEMMA LastIncidentFits ==
  ASSUME NotifyShape, NEW f \in Faults, LastIncident(f) > 0
  PROVE  /\ LastIncident(f) \in 1..Len(log)
         /\ log[LastIncident(f)].kind = "incident_resolved" => EndsAt(LastIncident(f), f)
<1>1. Incidents(f) # {}
  BY DEF LastIncident
<1>2. \E i \in Incidents(f) : \A j \in Incidents(f) : j <= i
  <2>1. Incidents(f) \subseteq 0..Len(log) /\ Len(log) \in Nat
    BY NumbersShape DEF Incidents
  <2> QED BY <1>1, <2>1, GreatestNatural
<1>3. PICK k : k = LastIncident(f) /\ k \in Incidents(f) /\ \A j \in Incidents(f) : j <= k
  BY <1>1, <1>2 DEF LastIncident
<1>4. k \in 1..Len(log) /\ log[k].fault = f
  BY <1>3 DEF Incidents
<1>5. ASSUME NEW j \in k + 1..Len(log), log[j].fault = f PROVE log[j].kind \notin Incident
  <2>1. j \in 1..Len(log) /\ ~(j <= k)
    BY <1>4, NumbersShape
  <2> QED BY <1>3, <1>5, <2>1 DEF Incidents
<1> QED BY <1>3, <1>4, <1>5 DEF EndsAt

\* When the stream has caught up, a fault whose end was handled outside of the quiet hours
\* shows that end: what a redelivery overwrites it also brings again, and an end is never
\* debounced (onMessageEvent, FaultDebounce).
THEOREM EndsAreShown == NotifySpec => []ResolvedShown
<1>1. NotifyInit => Pending
  <2> SUFFICES ASSUME NotifyInit PROVE Pending
    OBVIOUS
  <2>1. Len(log) = 0 /\ outcome = [i \in 1..MaxChanges |-> "none"]
    BY DEF NotifyInit
  <2> QED BY <2>1 DEF Pending
<1>2. NotifyShape /\ Pending => ResolvedShown
  <2> SUFFICES ASSUME NotifyShape, Pending, NEW f \in Faults, LastIncident(f) > 0,
                      log[LastIncident(f)].kind = "incident_resolved",
                      sse = Idle, next = Len(log) + 1,
                      outcome[LastIncident(f)] \in {"posted", "debounced"}
               PROVE  shown[f] = "resolved"
    BY DEF ResolvedShown
  <2>1. LastIncident(f) \in 1..Len(log) /\ EndsAt(LastIncident(f), f)
    BY LastIncidentFits
  <2>2. ~Ahead(LastIncident(f))
    BY <2>1, IdleFits, NumbersShape DEF Ahead
  <2> QED BY <2>1, <2>2 DEF Pending, Overwritten
<1> QED BY <1>1, <1>2, StartShape, NextShape, InitTracked, NextTracked, NextPending, PTL
        DEF NotifySpec
=============================================================================
