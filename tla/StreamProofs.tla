---------------------------- MODULE StreamProofs ----------------------------
(***************************************************************************)
(* Proofs about ChangeStream, for any number of writers and any capacity,  *)
(* window and page size: the stream implements the change feed, and        *)
(* nothing is handled more often than the failed reads explain.            *)
(***************************************************************************)
EXTENDS ChangeStream, TLAPS

\* The numbers are those of committed changes.
Numbers ==
  /\ n \in 0..MaxSeq /\ low \in 0..n /\ cursor \in 0..n /\ last \in 0..n
  /\ busyWith \in 0..n /\ fsSince \in 0..n
  /\ told \subseteq 1..n /\ missed \subseteq 1..n
  /\ pub \in [Writers -> Seq(1..n)]
  /\ ch \in Seq(1..n) /\ wire \in Seq(1..n)
  /\ handled \in [1..MaxSeq -> Nat]

Others ==
  /\ conn \in {"off", "checked", "subscribed", "live", "resync"}
  /\ fsPages \in Nat /\ resyncs \in 0..breaks /\ breaks \in 0..MaxBreaks

\* Everything in the window up to the cursor was given to the service, or is excused.
Retained == low + 1 .. cursor \subseteq told \cup missed

\* Nothing is on the wire before the history is read; until then the connection stands
\* where the service stands, and a full sync starts no further on.
Shape ==
  /\ conn # "live" => wire = <<>>
  /\ conn \in {"checked", "subscribed"} => last = cursor
  /\ conn \in {"checked", "subscribed", "resync"} => fsSince <= cursor

Increasing(s) == \A i, j \in 1..Len(s) : i < j => s[i] < s[j]

\* A writer publishes its changes in the order of their numbers.
PubInOrder == \A w \in Writers : Increasing(pub[w])

\* The wire continues the cursor up to last, but for what is excused or gone.
WireFits ==
  conn = "live" =>
    /\ cursor <= last
    /\ Increasing(wire)
    /\ \A i \in 1..Len(wire) : cursor < wire[i] /\ wire[i] <= last
    /\ \A x \in cursor + 1 .. last :
         x <= low \/ x \in missed \/ \E i \in 1..Len(wire) : wire[i] = x

Unpublished(x) == \E w \in Writers : \E i \in 1..Len(pub[w]) : pub[w][i] = x

\* What is past last is still to come, and what comes before its turn leaves its
\* predecessors excused.
ChannelFits ==
  conn = "live" =>
    /\ \A x \in last + 1 .. n :
         x \in missed \/ Unpublished(x) \/ \E i \in 1..Len(ch) : ch[i] = x
    /\ \A j \in 1..Len(ch) : \A x \in last + 1 .. ch[j] - 1 :
         x \in missed \/ \E i \in 1 .. j - 1 : ch[i] = x

\* A full sync asked for by a failed read, which has not set the cursor back yet.
Owing == conn = "resync" /\ low <= cursor /\ fsSince < cursor
Allowed(s) == (IF Owing THEN resyncs - 1 ELSE resyncs) + (IF s <= cursor THEN 1 ELSE 0)
Due(s) == IF busyWith = s THEN handled[s] + 1 ELSE handled[s]
Counted == \A s \in 1..MaxSeq : Due(s) <= Allowed(s)

StreamInv ==
  /\ Numbers /\ Others /\ Retained /\ Shape /\ PubInOrder
  /\ WireFits /\ ChannelFits /\ Counted

StreamStep == [Feed!FeedNext]_Feed!feedVars

LEMMA ConstantsFit ==
  /\ Cap \in Nat /\ Keep \in Nat /\ PageLimit \in Nat /\ MaxPages \in Nat /\ MaxTx \in Nat
  /\ MaxSeq \in Nat /\ MaxBreaks \in Nat /\ Keep > 0 /\ PageLimit > 0 /\ MaxPages > 0
BY StreamOK

LEMMA NumbersFit ==
  ASSUME Numbers
  PROVE  /\ n \in Nat /\ low \in Nat /\ cursor \in Nat /\ last \in Nat /\ n <= MaxSeq
         /\ low <= n /\ cursor <= n /\ last <= n
<1>1. n \in 0..MaxSeq /\ low \in 0..n /\ cursor \in 0..n /\ last \in 0..n
  BY DEF Numbers
<1> QED BY <1>1, ConstantsFit

-----------------------------------------------------------------------------
(* Sequences.                                                              *)

LEMMA TailFacts ==
  ASSUME NEW S, NEW s \in Seq(S), s # <<>>
  PROVE  /\ Len(s) \in Nat /\ Len(s) >= 1
         /\ Head(s) = s[1] /\ Head(s) \in S
         /\ Tail(s) \in Seq(S) /\ Len(Tail(s)) = Len(s) - 1
         /\ \A i \in 1 .. Len(s) - 1 : Tail(s)[i] = s[i + 1]
<1>1. Len(s) \in Nat /\ Len(s) >= 1
  OBVIOUS
<1> QED BY <1>1

LEMMA AppendFacts ==
  ASSUME NEW S, NEW s \in Seq(S), NEW e \in S
  PROVE  /\ Len(s) \in Nat
         /\ Append(s, e) \in Seq(S) /\ Len(Append(s, e)) = Len(s) + 1
         /\ \A i \in 1 .. Len(s) : Append(s, e)[i] = s[i]
         /\ Append(s, e)[Len(s) + 1] = e
OBVIOUS

LEMMA SeqWiden ==
  ASSUME NEW S, NEW T, S \subseteq T, NEW s \in Seq(S)
  PROVE  s \in Seq(T)
OBVIOUS

LEMMA EmptySeq == ASSUME NEW S PROVE <<>> \in Seq(S) /\ Len(<<>>) = 0 /\ Increasing(<<>>)
BY DEF Increasing

\* The numbers a+1..b in order.
LEMMA RunFacts ==
  ASSUME NEW a \in Nat, NEW b \in Nat, a <= b
  PROVE  /\ Run(a, b) \in Seq(1..b) /\ Len(Run(a, b)) = b - a
         /\ \A i \in 1 .. b - a : Run(a, b)[i] = a + i
         /\ Increasing(Run(a, b))
<1>1. (IF b > a THEN b - a ELSE 0) = b - a /\ b - a \in Nat
  OBVIOUS
<1>2. Run(a, b) = [i \in 1 .. b - a |-> a + i]
  BY <1>1 DEF Run
<1>3. \A i \in 1 .. b - a : a + i \in 1..b
  OBVIOUS
<1>4. Run(a, b) \in Seq(1..b) /\ Len(Run(a, b)) = b - a
  BY <1>1, <1>2, <1>3
<1>5. \A i \in 1 .. b - a : Run(a, b)[i] = a + i
  BY <1>2
<1>6. Increasing(Run(a, b))
  BY <1>1, <1>4, <1>5 DEF Increasing
<1> QED BY <1>4, <1>5, <1>6

\* A sequence in order stays so without its head, which is below the rest.
LEMMA TailIncreasing ==
  ASSUME NEW S, S \subseteq Nat, NEW s \in Seq(S), s # <<>>, Increasing(s)
  PROVE  Increasing(Tail(s)) /\ \A i \in 1 .. Len(Tail(s)) : Head(s) < Tail(s)[i]
<1>1. /\ Len(s) \in Nat /\ Head(s) = s[1] /\ Len(Tail(s)) = Len(s) - 1
      /\ \A i \in 1 .. Len(s) - 1 : Tail(s)[i] = s[i + 1]
  BY TailFacts
<1>2. \A i \in 1 .. Len(s) - 1 : 1 < i + 1 /\ 1 \in 1 .. Len(s) /\ i + 1 \in 1 .. Len(s)
  BY <1>1
<1> QED BY <1>1, <1>2 DEF Increasing

-----------------------------------------------------------------------------
(* The hub's side.                                                         *)

LEMMA InitStream == Init => StreamInv /\ Feed!FeedInit
<1> SUFFICES ASSUME Init PROVE StreamInv /\ Feed!FeedInit
  OBVIOUS
<1> USE DEF Init
<1>1. pub \in [Writers -> Seq(1..n)] /\ ch \in Seq(1..n) /\ wire \in Seq(1..n)
  BY EmptySeq
<1>2. Numbers /\ Others
  BY <1>1, ConstantsFit DEF Numbers, Others
<1>3. Retained /\ Shape /\ WireFits /\ ChannelFits
  BY DEF Retained, Shape, WireFits, ChannelFits
<1>4. PubInOrder
  BY EmptySeq DEF PubInOrder
<1>5. Counted
  BY DEF Counted, Due, Allowed, Owing
<1>6. Feed!FeedInit
  BY DEF Feed!FeedInit
<1> QED BY <1>2, <1>3, <1>4, <1>5, <1>6 DEF StreamInv

\* The window and the log move apart from cursor and record.
LEMMA CommitStep ==
  ASSUME StreamInv, NEW w \in Writers, NEW k \in 1..MaxTx, Commit(w, k)
  PROVE  StreamInv' /\ StreamStep
<1>1. /\ pub[w] = <<>> /\ n + k <= MaxSeq /\ n' = n + k
      /\ pub' = [pub EXCEPT ![w] = Run(n, n + k)]
      /\ UNCHANGED <<low, conn, last, ch, wire, cursor, busyWith, fsSince, fsPages, told,
                     missed, handled, resyncs, breaks>>
  BY DEF Commit, connVars, history
<1>2. n \in Nat /\ k \in Nat /\ k >= 1 /\ n' \in Nat /\ n' > n /\ Numbers
  <2>1. Numbers
    BY DEF StreamInv
  <2>2. n \in Nat /\ k \in Nat /\ k >= 1
    BY <2>1, NumbersFit, ConstantsFit
  <2> QED BY <1>1, <2>1, <2>2
<1>3. 0..n \subseteq 0..n' /\ 1..n \subseteq 1..n' /\ n' \in 0..MaxSeq
  BY <1>1, <1>2, ConstantsFit
<1>4. /\ Run(n, n + k) \in Seq(1..n') /\ Len(Run(n, n + k)) = k /\ Increasing(Run(n, n + k))
      /\ \A i \in 1..k : Run(n, n + k)[i] = n + i
  <2>1. ASSUME NEW a \in Nat, NEW b \in Nat
        PROVE  a + b \in Nat /\ a <= a + b /\ (a + b) - a = b
    OBVIOUS
  <2>2. n \in Nat /\ k \in Nat
    BY <1>2
  <2>3. n + k \in Nat /\ n <= n + k /\ (n + k) - n = k
    BY <2>1, <2>2
  <2> QED BY <1>1, <2>2, <2>3, RunFacts
<1>5. pub' \in [Writers -> Seq(1..n')]
  <2>1. \A v \in Writers : pub[v] \in Seq(1..n')
    BY <1>2, <1>3, SeqWiden DEF Numbers
  <2> QED BY <1>1, <1>2, <1>4, <2>1 DEF Numbers
<1>6. Numbers'
  <2>1. ch' \in Seq(1..n') /\ wire' \in Seq(1..n')
    BY <1>1, <1>2, <1>3, SeqWiden DEF Numbers
  <2> QED BY <1>1, <1>2, <1>3, <1>5, <2>1 DEF Numbers
<1>7. Others' /\ Retained' /\ Shape' /\ WireFits' /\ Counted'
  BY <1>1 DEF StreamInv, Others, Retained, Shape, WireFits, Counted, Due, Allowed, Owing
<1>8. \A v \in Writers : pub'[v] = IF v = w THEN Run(n, n + k) ELSE pub[v]
  BY <1>1, <1>2 DEF Numbers
<1>9. PubInOrder'
  BY <1>4, <1>8 DEF StreamInv, PubInOrder
<1>10. ChannelFits'
  <2> SUFFICES ASSUME conn = "live" PROVE ChannelFits'
    BY <1>1 DEF ChannelFits
  <2>1. ASSUME NEW x \in last + 1 .. n'
        PROVE  x \in missed \/ Unpublished(x)' \/ \E i \in 1..Len(ch) : ch[i] = x
    <3>0. last \in Nat
      BY <1>2 DEF Numbers
    <3>1. CASE x \in last + 1 .. n
      <4>1. Unpublished(x) => Unpublished(x)'
        <5> SUFFICES ASSUME NEW v \in Writers, NEW i \in 1..Len(pub[v]), pub[v][i] = x
                     PROVE  Unpublished(x)'
          BY DEF Unpublished
        <5>1. v # w
          BY <1>1
        <5>2. pub'[v] = pub[v]
          BY <1>8, <5>1
        <5> QED BY <5>2 DEF Unpublished
      <4> QED BY <3>1, <4>1 DEF StreamInv, ChannelFits
    <3>2. CASE x > n
      <4>1. x - n \in 1..k /\ x = n + (x - n)
        BY <1>1, <1>2, <3>0, <3>2
      <4>2. Run(n, n + k)[x - n] = x
        BY <1>4, <4>1
      <4>3. pub'[w][x - n] = x /\ x - n \in 1..Len(pub'[w])
        BY <1>4, <1>8, <4>1, <4>2
      <4> QED BY <4>3 DEF Unpublished
    <3> QED BY <1>2, <3>0, <3>1, <3>2
  <2> QED BY <1>1, <2>1 DEF StreamInv, ChannelFits
<1>11. Feed!Append
  BY <1>1, <1>2 DEF Feed!Append
<1> QED BY <1>6, <1>7, <1>9, <1>10, <1>11 DEF StreamInv, StreamStep, Feed!FeedNext

LEMMA TrimStep ==
  ASSUME StreamInv, NEW c \in 1..MaxSeq, Trim(c)
  PROVE  StreamInv' /\ StreamStep
<1>1. /\ low < c /\ c <= n - Keep /\ low' = c
      /\ UNCHANGED <<n, pub, conn, last, ch, wire, cursor, busyWith, fsSince, fsPages, told,
                     missed, handled, resyncs, breaks>>
  BY DEF Trim, connVars, history
<1>2. Numbers /\ n \in Nat /\ low \in Nat /\ c \in Nat /\ c <= n /\ cursor \in Nat
  BY <1>1, ConstantsFit DEF StreamInv, Numbers
<1>3. Numbers' /\ Others' /\ Shape' /\ PubInOrder' /\ ChannelFits'
  BY <1>1, <1>2 DEF StreamInv, Numbers, Others, Shape, PubInOrder, ChannelFits, Unpublished
<1>4. Retained'
  <2>1. low' + 1 .. cursor \subseteq low + 1 .. cursor
    BY <1>1, <1>2
  <2> QED BY <1>1, <2>1 DEF StreamInv, Retained
<1>5. WireFits'
  <2>1. \A x \in Nat : x <= low => x <= low'
    BY <1>1, <1>2
  <2>2. \A x \in cursor + 1 .. last : x \in Nat
    BY <1>2
  <2> QED BY <1>1, <2>1, <2>2 DEF StreamInv, WireFits
<1>6. Counted'
  <2>1. Owing' => Owing
    BY <1>1, <1>2 DEF Owing
  <2>2. resyncs \in Int /\ handled \in [1..MaxSeq -> Nat]
    BY <1>2 DEF StreamInv, Others, Numbers
  <2>3. \A s \in 1..MaxSeq : Allowed(s) <= Allowed(s)' /\ Due(s)' = Due(s)
    BY <1>1, <2>1, <2>2 DEF Allowed, Due
  <2>4. \A s \in 1..MaxSeq : Allowed(s) \in Int /\ Allowed(s)' \in Int /\ Due(s) \in Int
    BY <1>1, <2>2 DEF Allowed, Due
  <2> QED BY <2>3, <2>4 DEF StreamInv, Counted
<1>7. Feed!Forget
  BY <1>1, <1>2 DEF Feed!Forget
<1> QED BY <1>3, <1>4, <1>5, <1>6, <1>7 DEF StreamInv, StreamStep, Feed!FeedNext

\* What a publication adds to the excuses lies ahead of the cursor, and it excuses
\* everything unpublished that it overtakes.
LEMMA PublishStep ==
  ASSUME StreamInv, NEW w \in Writers, Publish(w)
  PROVE  StreamInv' /\ StreamStep
<1> DEFINE h == Head(pub[w])
           M == IF ~Subscribed THEN {}
                ELSE {x \in IF Len(ch) < Cap THEN Overtaken(w, h) ELSE {h} : x > cursor}
<1>1. /\ pub[w] # <<>> /\ pub' = [pub EXCEPT ![w] = Tail(@)]
      /\ ch' = IF Subscribed /\ Len(ch) < Cap THEN Append(ch, h) ELSE ch
      /\ missed' = missed \cup M
      /\ UNCHANGED <<n, low, conn, last, wire, cursor, busyWith, fsSince, fsPages, told,
                     handled, resyncs, breaks>>
  BY DEF Publish
<1>2. Numbers /\ n \in Nat /\ cursor \in Nat /\ last \in Nat /\ pub[w] \in Seq(1..n)
      /\ ch \in Seq(1..n)
  BY ConstantsFit DEF StreamInv, Numbers
<1>3. /\ Len(pub[w]) \in Nat /\ Len(pub[w]) >= 1 /\ h = pub[w][1] /\ h \in 1..n
      /\ Tail(pub[w]) \in Seq(1..n) /\ Len(Tail(pub[w])) = Len(pub[w]) - 1
      /\ \A i \in 1 .. Len(pub[w]) - 1 : Tail(pub[w])[i] = pub[w][i + 1]
  BY <1>1, <1>2, TailFacts
<1>4. /\ Len(ch) \in Nat
      /\ Append(ch, h) \in Seq(1..n) /\ Len(Append(ch, h)) = Len(ch) + 1
      /\ \A i \in 1 .. Len(ch) : Append(ch, h)[i] = ch[i]
      /\ Append(ch, h)[Len(ch) + 1] = h
  BY <1>2, <1>3, AppendFacts
<1>5. \A v \in Writers : \A i \in 1..Len(pub[v]) : pub[v][i] \in 1..n /\ pub[v][i] \in Range(pub[v])
  BY <1>2 DEF Numbers, Range
<1>6. \A x \in M : x > cursor /\ x \in 1..n
  <2>1. \A x \in Overtaken(w, h) : x \in 1..n
    <3> SUFFICES ASSUME NEW v \in Writers, NEW x \in Range(pub[v]) PROVE x \in 1..n
      BY DEF Overtaken
    <3> QED BY <1>2 DEF Numbers, Range
  <2> QED BY <1>3, <2>1
<1> HIDE DEF h, M
<1>7. \A v \in Writers : pub'[v] = IF v = w THEN Tail(pub[w]) ELSE pub[v]
  BY <1>1, <1>2 DEF Numbers
<1>8. Numbers'
  <2>1. pub' \in [Writers -> Seq(1..n)]
    BY <1>1, <1>2, <1>3 DEF Numbers
  <2>2. ch' \in Seq(1..n) /\ missed' \subseteq 1..n
    BY <1>1, <1>2, <1>4, <1>6 DEF Numbers
  <2> QED BY <1>1, <1>2, <2>1, <2>2 DEF Numbers
<1>9. Others' /\ Retained' /\ Shape' /\ Counted'
  BY <1>1 DEF StreamInv, Others, Retained, Shape, Counted, Due, Allowed, Owing
<1>10. WireFits'
  BY <1>1 DEF StreamInv, WireFits
<1>11. PubInOrder'
  <2>1. 1..n \subseteq Nat /\ Increasing(pub[w])
    BY DEF StreamInv, PubInOrder
  <2>2. Increasing(Tail(pub[w]))
    BY <1>1, <1>2, <2>1, TailIncreasing
  <2> QED BY <1>7, <2>2 DEF StreamInv, PubInOrder
<1>12. ChannelFits'
  <2> SUFFICES ASSUME conn = "live" PROVE ChannelFits'
    BY <1>1 DEF ChannelFits
  <2>1. Subscribed /\ cursor <= last
    BY DEF Subscribed, StreamInv, WireFits
  <2>2. ASSUME NEW x \in last + 1 .. n
        PROVE  x \in missed' \/ Unpublished(x)' \/ \E i \in 1..Len(ch') : ch'[i] = x
    <3>1. CASE x \in missed
      BY <1>1, <3>1
    <3>2. CASE Unpublished(x)
      <4>1. PICK v \in Writers : \E i \in 1..Len(pub[v]) : pub[v][i] = x
        BY <3>2 DEF Unpublished
      <4>2. PICK i \in 1..Len(pub[v]) : pub[v][i] = x
        BY <4>1
      <4>3. CASE v # w
        BY <1>7, <4>2, <4>3 DEF Unpublished
      <4>4. CASE v = w /\ i # 1
        <5>1. i - 1 \in 1 .. Len(pub[w]) - 1 /\ (i - 1) + 1 = i
          BY <1>3, <4>4
        <5>2. pub'[w][i - 1] = x /\ i - 1 \in 1..Len(pub'[w])
          BY <1>3, <1>7, <4>2, <4>4, <5>1
        <5> QED BY <5>2 DEF Unpublished
      <4>5. CASE v = w /\ i = 1
        <5>1. x = h /\ h > cursor
          BY <1>2, <1>3, <2>1, <4>2, <4>5
        <5>2. CASE Len(ch) < Cap
          <6>1. ch' = Append(ch, h)
            BY <1>1, <2>1, <5>2
          <6>2. Len(ch) + 1 \in 1..Len(ch')
            BY <1>4, <6>1
          <6> QED BY <1>4, <5>1, <6>1, <6>2
        <5>3. CASE ~(Len(ch) < Cap)
          <6>1. h \in M
            BY <2>1, <5>1, <5>3 DEF M
          <6> QED BY <1>1, <5>1, <6>1
        <5> QED BY <5>2, <5>3
      <4> QED BY <4>3, <4>4, <4>5
    <3>3. CASE \E i \in 1..Len(ch) : ch[i] = x
      <4>1. PICK i \in 1..Len(ch) : ch[i] = x
        BY <3>3
      <4>2. i \in 1..Len(ch') /\ ch'[i] = x
        BY <1>1, <1>4, <4>1
      <4> QED BY <4>2
    <3> QED BY <3>1, <3>2, <3>3 DEF StreamInv, ChannelFits
  <2>3. ASSUME NEW j \in 1..Len(ch'), NEW x \in last + 1 .. ch'[j] - 1
        PROVE  x \in missed' \/ \E i \in 1 .. j - 1 : ch'[i] = x
    <3>1. CASE j \in 1..Len(ch)
      <4>1. ch'[j] = ch[j]
        BY <1>1, <1>4, <3>1
      <4>2. x \in missed \/ \E i \in 1 .. j - 1 : ch[i] = x
        BY <3>1, <4>1 DEF StreamInv, ChannelFits
      <4>3. \A i \in 1 .. j - 1 : ch'[i] = ch[i]
        BY <1>1, <1>4, <3>1
      <4> QED BY <1>1, <4>2, <4>3
    <3>2. CASE j \notin 1..Len(ch)
      <4>1. ch' = Append(ch, h) /\ Len(ch) < Cap
        BY <1>1, <3>2
      <4>2. j = Len(ch) + 1 /\ ch'[j] = h
        BY <1>4, <3>2, <4>1
      <4>3. x \in last + 1 .. n /\ x < h /\ x > cursor
        <5>1. x \in last + 1 .. h - 1
          BY <4>2
        <5>2. last \in Nat /\ cursor \in Nat /\ cursor <= last /\ n \in Nat /\ h \in Nat /\ h <= n
          BY <1>2, <1>3, <2>1
        <5> QED BY <5>1, <5>2
      <4>4. CASE \E i \in 1..Len(ch) : ch[i] = x
        <5>1. PICK i \in 1..Len(ch) : ch[i] = x
          BY <4>4
        <5>2. i \in 1 .. j - 1 /\ ch'[i] = x
          BY <1>4, <4>1, <4>2, <5>1
        <5> QED BY <5>2
      <4>5. CASE Unpublished(x)
        <5>1. PICK v \in Writers : \E i \in 1..Len(pub[v]) : pub[v][i] = x
          BY <4>5 DEF Unpublished
        <5>2. PICK i \in 1..Len(pub[v]) : pub[v][i] = x
          BY <5>1
        <5>3. v # w
          <6> SUFFICES ASSUME v = w PROVE FALSE
            OBVIOUS
          <6>1. Increasing(pub[w]) /\ pub[w][i] < pub[w][1] /\ i \in 1..Len(pub[w]) /\ i # 1
            BY <1>2, <1>3, <4>3, <5>2 DEF StreamInv, PubInOrder
          <6>2. 1 \in 1..Len(pub[w]) /\ 1 < i /\ pub[w][1] \in Nat /\ pub[w][i] \in Nat
            BY <1>3, <1>5, <6>1
          <6>3. pub[w][1] < pub[w][i]
            BY <6>1, <6>2 DEF Increasing
          <6> QED BY <6>1, <6>2, <6>3
        <5>4. x \in Range(pub[v])
          BY <1>5, <5>2
        <5>5. x \in Overtaken(w, h)
          BY <4>3, <5>3, <5>4 DEF Overtaken
        <5>6. x \in M
          BY <2>1, <4>1, <4>3, <5>5 DEF M
        <5> QED BY <1>1, <5>6
      <4> QED BY <1>1, <4>3, <4>4, <4>5 DEF StreamInv, ChannelFits
    <3> QED BY <3>1, <3>2
  <2> QED BY <1>1, <2>2, <2>3 DEF ChannelFits
<1>13. UNCHANGED Feed!feedVars
  <2>1. \A x : x \in M => ~(x <= cursor)
    BY <1>2, <1>6
  <2>2. {s \in told \cup (missed \cup M) : s <= cursor} = {s \in told \cup missed : s <= cursor}
    BY <2>1
  <2> QED BY <1>1, <2>2 DEF Feed!feedVars
<1> QED BY <1>8, <1>9, <1>10, <1>11, <1>12, <1>13 DEF StreamInv, StreamStep

-----------------------------------------------------------------------------
(* GET /stream.                                                            *)

LEMMA ConnectStep ==
  ASSUME StreamInv, Connect
  PROVE  StreamInv' /\ StreamStep
<1>1. /\ conn = "off" /\ busyWith = 0
      /\ conn' = IF low < n /\ cursor < low THEN "resync" ELSE "checked"
      /\ last' = cursor /\ ch' = <<>> /\ wire' = <<>> /\ fsSince' = 0 /\ fsPages' = 0
      /\ UNCHANGED <<n, low, pub, cursor, busyWith, told, missed, handled, resyncs, breaks>>
  BY DEF Connect, hubVars, history
<1>2. Numbers /\ n \in Nat /\ cursor \in Nat /\ low \in Nat
  BY ConstantsFit DEF StreamInv, Numbers
<1>3. ch' \in Seq(1..n) /\ wire' \in Seq(1..n)
  BY <1>1, EmptySeq
<1>4. Numbers' /\ Others' /\ Retained' /\ Shape' /\ PubInOrder'
  BY <1>1, <1>2, <1>3 DEF StreamInv, Numbers, Others, Retained, Shape, PubInOrder
<1>5. WireFits' /\ ChannelFits'
  BY <1>1 DEF WireFits, ChannelFits
<1>6. ~Owing /\ ~Owing'
  BY <1>1, <1>2 DEF Owing
<1>7. Counted'
  BY <1>1, <1>6 DEF StreamInv, Counted, Due, Allowed
<1>8. UNCHANGED Feed!feedVars
  BY <1>1 DEF Feed!feedVars
<1> QED BY <1>4, <1>5, <1>7, <1>8 DEF StreamInv, StreamStep

LEMMA SubscribeStep ==
  ASSUME StreamInv, Subscribe
  PROVE  StreamInv' /\ StreamStep
<1>1. /\ conn = "checked" /\ conn' = "subscribed"
      /\ UNCHANGED <<n, low, pub, last, ch, wire, cursor, busyWith, fsSince, fsPages,
                     told, missed, handled, resyncs, breaks>>
  BY DEF Subscribe, hubVars, history
<1>2. Numbers' /\ Others' /\ Retained' /\ Shape' /\ PubInOrder'
  BY <1>1 DEF StreamInv, Numbers, Others, Retained, Shape, PubInOrder
<1>3. WireFits' /\ ChannelFits' /\ ~Owing /\ ~Owing'
  BY <1>1 DEF WireFits, ChannelFits, Owing
<1>4. Counted'
  BY <1>1, <1>3 DEF StreamInv, Counted, Due, Allowed
<1>5. UNCHANGED Feed!feedVars
  BY <1>1 DEF Feed!feedVars
<1> QED BY <1>2, <1>3, <1>4, <1>5 DEF StreamInv, StreamStep

\* The history is the whole window past the cursor, and last then stands at its end.
LEMMA ReplayStep ==
  ASSUME StreamInv, Replay
  PROVE  StreamInv' /\ StreamStep
<1> DEFINE from == IF last < low THEN low ELSE last
<1>1. /\ conn = "subscribed" /\ conn' = "live"
      /\ wire' = Run(from, n) /\ last' = IF last < n THEN n ELSE last
      /\ UNCHANGED <<n, low, pub, ch, cursor, busyWith, fsSince, fsPages, told, missed,
                     handled, resyncs, breaks>>
  BY DEF Replay, hubVars, history
<1>2. /\ Numbers /\ n \in Nat /\ cursor \in Nat /\ low \in Nat /\ last \in Nat
      /\ last = cursor /\ last <= n /\ low <= n
  BY <1>1, ConstantsFit DEF StreamInv, Numbers, Shape
<1>3. from \in Nat /\ from <= n /\ from >= cursor /\ last' = n /\ cursor <= last'
      /\ \A x \in Nat : x > cursor /\ x > low => x > from
  BY <1>1, <1>2
<1> HIDE DEF from
<1>4. /\ Run(from, n) \in Seq(1..n) /\ Len(Run(from, n)) = n - from
      /\ \A i \in 1 .. n - from : Run(from, n)[i] = from + i
      /\ Increasing(Run(from, n))
  BY <1>2, <1>3, RunFacts
<1>5. Numbers' /\ Others' /\ Retained' /\ Shape' /\ PubInOrder'
  <2>1. last' \in 0..n
    BY <1>2, <1>3
  <2> QED BY <1>1, <1>2, <1>4, <2>1
        DEF StreamInv, Numbers, Others, Retained, Shape, PubInOrder
<1>6. WireFits'
  <2>1. \A i \in 1..Len(wire') : cursor < wire'[i] /\ wire'[i] <= last'
    BY <1>1, <1>2, <1>3, <1>4
  <2>2. ASSUME NEW x \in cursor + 1 .. last', ~(x <= low)
        PROVE  \E i \in 1..Len(wire') : wire'[i] = x
    <3>1. x - from \in 1 .. n - from /\ from + (x - from) = x
      BY <1>2, <1>3, <2>2
    <3> QED BY <1>1, <1>4, <3>1
  <2> QED BY <1>1, <1>3, <1>4, <2>1, <2>2 DEF WireFits
<1>7. ChannelFits'
  <2>1. last' + 1 .. n' = {}
    BY <1>1, <1>2, <1>3
  <2>2. \A j \in 1..Len(ch') : ch'[j] \in 1..n
    BY <1>1, <1>2 DEF Numbers
  <2>3. \A j \in 1..Len(ch') : last' + 1 .. ch'[j] - 1 = {}
    BY <1>2, <1>3, <2>2
  <2> QED BY <2>1, <2>3 DEF ChannelFits
<1>8. ~Owing /\ ~Owing'
  BY <1>1 DEF Owing
<1>9. Counted'
  BY <1>1, <1>8 DEF StreamInv, Counted, Due, Allowed
<1>10. UNCHANGED Feed!feedVars
  BY <1>1 DEF Feed!feedVars
<1> QED BY <1>5, <1>6, <1>7, <1>9, <1>10 DEF StreamInv, StreamStep

\* The failed read that sets a cursor back is counted before the full sync does so.
LEMMA ReplayFailsStep ==
  ASSUME StreamInv, ReplayFails
  PROVE  StreamInv' /\ StreamStep
<1>1. /\ breaks < MaxBreaks /\ conn = "subscribed" /\ conn' = "resync" /\ ch' = <<>>
      /\ breaks' = breaks + 1 /\ resyncs' = resyncs + 1
      /\ UNCHANGED <<n, low, pub, last, wire, cursor, busyWith, fsSince, fsPages, told,
                     missed, handled>>
  BY DEF ReplayFails, hubVars
<1>2. Numbers /\ ch' \in Seq(1..n)
  BY <1>1, EmptySeq DEF StreamInv
<1>3. Numbers' /\ Retained' /\ Shape' /\ PubInOrder'
  BY <1>1, <1>2 DEF StreamInv, Numbers, Retained, Shape, PubInOrder
<1>4. Others'
  BY <1>1, ConstantsFit DEF StreamInv, Others
<1>5. WireFits' /\ ChannelFits' /\ ~Owing
  BY <1>1 DEF WireFits, ChannelFits, Owing
<1>6. Counted'
  <2>1. resyncs \in Int /\ handled \in [1..MaxSeq -> Nat] /\ cursor \in Int
    BY <1>2, ConstantsFit DEF StreamInv, Others, Numbers
  <2> SUFFICES ASSUME NEW s \in 1..MaxSeq PROVE Due(s)' <= Allowed(s)'
    BY DEF Counted
  <2>2. Due(s)' = Due(s) /\ Due(s) \in Int /\ Due(s) <= Allowed(s)
    BY <1>1, <2>1 DEF Due, StreamInv, Counted
  <2>3. Allowed(s) <= Allowed(s)' /\ Allowed(s) \in Int /\ Allowed(s)' \in Int
    BY <1>1, <1>5, <2>1 DEF Allowed
  <2> QED BY <2>2, <2>3
<1>7. UNCHANGED Feed!feedVars
  BY <1>1 DEF Feed!feedVars
<1> QED BY <1>3, <1>4, <1>5, <1>6, <1>7 DEF StreamInv, StreamStep

\* A change of the channel that is past last leaves only excused ones behind.
LEMMA ForwardStep ==
  ASSUME StreamInv, Forward
  PROVE  StreamInv' /\ StreamStep
<1> DEFINE h == Head(ch)
<1>1. /\ conn = "live" /\ ch # <<>> /\ ch' = Tail(ch)
      /\ wire' = IF h > last THEN Append(wire, h) ELSE wire
      /\ last' = IF h > last THEN h ELSE last
      /\ UNCHANGED <<n, low, pub, conn, cursor, busyWith, fsSince, fsPages, told, missed,
                     handled, resyncs, breaks>>
  BY DEF Forward, hubVars, history
<1>2. /\ Numbers /\ n \in Nat /\ cursor \in Nat /\ low \in Nat /\ last \in Nat /\ last <= n
      /\ ch \in Seq(1..n) /\ wire \in Seq(1..n)
  BY ConstantsFit DEF StreamInv, Numbers
<1>3. /\ Len(ch) \in Nat /\ Len(ch) >= 1 /\ h = ch[1] /\ h \in 1..n
      /\ Tail(ch) \in Seq(1..n) /\ Len(Tail(ch)) = Len(ch) - 1
      /\ \A i \in 1 .. Len(ch) - 1 : Tail(ch)[i] = ch[i + 1]
  BY <1>1, <1>2, TailFacts
<1>4. /\ Len(wire) \in Nat
      /\ Append(wire, h) \in Seq(1..n) /\ Len(Append(wire, h)) = Len(wire) + 1
      /\ \A i \in 1 .. Len(wire) : Append(wire, h)[i] = wire[i]
      /\ Append(wire, h)[Len(wire) + 1] = h
  BY <1>2, <1>3, AppendFacts
<1>5. last' \in Nat /\ last' <= n /\ last <= last' /\ h <= last' /\ h \in Nat
  BY <1>1, <1>2, <1>3
<1>6. PICK next \in Nat : next = last'
  BY <1>5
<1>7. n \in Nat /\ last \in Nat /\ h \in Nat /\ last <= next /\ h <= next
  BY <1>2, <1>5, <1>6
<1>8. last' \in 0..n
  BY <1>2, <1>5
<1> HIDE DEF h
<1>9. Numbers' /\ Others' /\ Retained' /\ Shape' /\ PubInOrder'
  <2>1. ch' \in Seq(1..n) /\ wire' \in Seq(1..n)
    BY <1>1, <1>2, <1>3, <1>4
  <2> QED BY <1>1, <1>2, <1>8, <2>1
        DEF StreamInv, Numbers, Others, Retained, Shape, PubInOrder
<1>10. WireFits'
  <2>1. CASE ~(h > last)
    BY <1>1, <2>1 DEF StreamInv, WireFits
  <2>2. CASE h > last
    <3>1. /\ cursor <= last /\ Increasing(wire)
          /\ \A i \in 1..Len(wire) : cursor < wire[i] /\ wire[i] <= last
          /\ \A x \in cursor + 1 .. last :
               x <= low \/ x \in missed \/ \E i \in 1..Len(wire) : wire[i] = x
      BY <1>1 DEF StreamInv, WireFits
    <3>2. wire' = Append(wire, h) /\ last' = h /\ Len(wire') = Len(wire) + 1 /\ cursor <= last'
      BY <1>1, <1>2, <1>4, <1>5, <2>2, <3>1
    <3>3. \A i \in 1..Len(wire) : wire'[i] = wire[i] /\ wire[i] \in Nat
      <4> TAKE i \in 1..Len(wire)
      <4>1. wire[i] \in 1..n
        BY <1>2
      <4> QED BY <1>2, <1>4, <3>2, <4>1
    <3>4. wire'[Len(wire) + 1] = h
      BY <1>4, <3>2
    <3>5. \A i \in 1..Len(wire') : cursor < wire'[i] /\ wire'[i] <= last'
      <4> TAKE i \in 1..Len(wire')
      <4>1. CASE i \in 1..Len(wire)
        <5>1. cursor < wire'[i] /\ wire'[i] <= last /\ wire'[i] \in Nat
          BY <3>1, <3>3, <4>1
        <5> QED BY <1>2, <1>5, <5>1
      <4>2. CASE i = Len(wire) + 1
        <5>1. wire'[i] = h
          BY <3>4, <4>2
        <5> QED BY <1>2, <1>5, <2>2, <3>1, <5>1
      <4> QED BY <1>4, <3>2, <4>1, <4>2
    <3>6. Increasing(wire')
      <4> SUFFICES ASSUME NEW i \in 1..Len(wire'), NEW j \in 1..Len(wire'), i < j
                   PROVE  wire'[i] < wire'[j]
        BY DEF Increasing
      <4>1. i \in 1..Len(wire)
        BY <1>4, <3>2
      <4>2. CASE j \in 1..Len(wire)
        BY <3>1, <3>3, <4>1, <4>2 DEF Increasing
      <4>3. CASE j = Len(wire) + 1
        <5>1. wire'[i] = wire[i] /\ wire[i] \in Nat /\ wire[i] <= last /\ wire'[j] = h
          BY <3>1, <3>3, <3>4, <4>1, <4>3
        <5> QED BY <1>7, <2>2, <5>1
      <4> QED BY <1>4, <3>2, <4>2, <4>3
    <3>7. ASSUME NEW x \in cursor + 1 .. last'
          PROVE  x <= low \/ x \in missed \/ \E i \in 1..Len(wire') : wire'[i] = x
      <4>1. CASE x \in cursor + 1 .. last
        <5>1. CASE \E i \in 1..Len(wire) : wire[i] = x
          <6>1. PICK i \in 1..Len(wire) : wire[i] = x
            BY <5>1
          <6>2. i \in 1..Len(wire') /\ wire'[i] = x
            BY <1>4, <3>2, <3>3, <6>1
          <6> QED BY <6>2
        <5> QED BY <3>1, <4>1, <5>1
      <4>2. CASE x \in last + 1 .. h - 1
        <5>1. 1 \in 1..Len(ch) /\ x \in last + 1 .. ch[1] - 1 /\ 1 .. 1 - 1 = {}
          BY <1>3, <4>2
        <5> QED BY <1>1, <5>1 DEF StreamInv, ChannelFits
      <4>3. CASE x = h
        <5>1. Len(wire) + 1 \in 1..Len(wire')
          BY <1>4, <3>2
        <5> QED BY <3>4, <4>3, <5>1
      <4> QED BY <1>2, <1>5, <3>1, <3>2, <4>1, <4>2, <4>3
    <3> QED BY <1>1, <3>2, <3>5, <3>6, <3>7 DEF WireFits
  <2> QED BY <2>1, <2>2
<1>11. ChannelFits'
  <2>1. \A i \in 1..Len(ch) : i # 1 => i - 1 \in 1..Len(ch') /\ ch'[i - 1] = ch[i]
    BY <1>1, <1>3
  <2>2. \A i \in 1..Len(ch) : ch[i] # h => i # 1
    BY <1>3
  <2>3. ASSUME NEW x \in last' + 1 .. n
        PROVE  x \in missed \/ Unpublished(x)' \/ \E i \in 1..Len(ch') : ch'[i] = x
    <3>0. x \in next + 1 .. n
      BY <1>6
    <3>1. x \in last + 1 .. n /\ x # h
      BY <1>7, <3>0
    <3>2. Unpublished(x) => Unpublished(x)'
      BY <1>1 DEF Unpublished
    <3>3. CASE \E i \in 1..Len(ch) : ch[i] = x
      <4>1. PICK i \in 1..Len(ch) : ch[i] = x
        BY <3>3
      <4> QED BY <2>1, <2>2, <3>1, <4>1
    <3> QED BY <1>1, <3>1, <3>2, <3>3 DEF StreamInv, ChannelFits
  <2>4. ASSUME NEW j \in 1..Len(ch'), NEW x \in last' + 1 .. ch'[j] - 1
        PROVE  x \in missed \/ \E i \in 1 .. j - 1 : ch'[i] = x
    <3>1. j + 1 \in 1..Len(ch) /\ ch'[j] = ch[j + 1] /\ ch[j + 1] \in Nat
      <4>1. j \in 1 .. Len(ch) - 1
        BY <1>1, <1>3
      <4>2. j + 1 \in 1..Len(ch) /\ ch'[j] = ch[j + 1]
        BY <1>1, <1>3, <4>1
      <4>3. ch[j + 1] \in 1..n
        BY <1>2, <4>2
      <4> QED BY <1>2, <4>2, <4>3
    <3>0. x \in next + 1 .. ch[j + 1] - 1
      BY <1>6, <3>1
    <3>2. x \in last + 1 .. ch[j + 1] - 1 /\ x # h
      BY <1>7, <3>0, <3>1
    <3>3. x \in missed \/ \E i \in 1 .. (j + 1) - 1 : ch[i] = x
      BY <1>1, <3>1, <3>2 DEF StreamInv, ChannelFits
    <3>4. CASE \E i \in 1 .. (j + 1) - 1 : ch[i] = x
      <4>1. PICK i \in 1 .. (j + 1) - 1 : ch[i] = x
        BY <3>4
      <4>2. i \in 1..Len(ch) /\ i # 1
        BY <1>3, <2>2, <3>1, <3>2, <4>1
      <4>3. i - 1 \in 1 .. j - 1 /\ ch'[i - 1] = x
        BY <2>1, <3>1, <4>1, <4>2
      <4> QED BY <4>3
    <3> QED BY <3>3, <3>4
  <2> QED BY <1>1, <2>3, <2>4 DEF ChannelFits
<1>12. Counted'
  BY <1>1 DEF StreamInv, Counted, Due, Allowed, Owing
<1>13. UNCHANGED Feed!feedVars
  BY <1>1 DEF Feed!feedVars
<1> QED BY <1>9, <1>10, <1>11, <1>12, <1>13 DEF StreamInv, StreamStep

-----------------------------------------------------------------------------
(* The service.                                                            *)

LEMMA CountFacts ==
  ASSUME StreamInv, NEW s \in 1..MaxSeq
  PROVE  resyncs \in Int /\ handled[s] \in Nat /\ s \in Nat /\ s # 0
<1>1. resyncs \in Int
  BY DEF StreamInv, Others
<1>2. handled \in [1..MaxSeq -> Nat]
  BY DEF StreamInv, Numbers
<1>3. s \in Nat /\ s # 0
  OBVIOUS
<1> QED BY <1>1, <1>2, <1>3

\* The change read is the next one that is neither excused nor gone.
LEMMA ReceiveStep ==
  ASSUME StreamInv, Receive
  PROVE  StreamInv' /\ StreamStep
<1> DEFINE h == Head(wire)
           given == told \cup {h} \cup missed
           gone == {x \in cursor + 1 .. h : x \notin given}
<1>1. /\ conn # "off" /\ busyWith = 0 /\ wire # <<>> /\ busyWith' = h
      /\ cursor' = IF h > cursor THEN h ELSE cursor
      /\ told' = told \cup {h} /\ wire' = Tail(wire)
      /\ UNCHANGED <<n, low, pub, conn, last, ch, fsSince, fsPages, missed, handled,
                     resyncs, breaks>>
  BY DEF Receive, hubVars, history
<1>2. /\ Numbers /\ n \in Nat /\ cursor \in Nat /\ low \in Nat /\ last \in Nat /\ last <= n
      /\ wire \in Seq(1..n) /\ n <= MaxSeq /\ MaxSeq \in Nat
  BY ConstantsFit DEF StreamInv, Numbers
<1>3. /\ conn = "live" /\ Increasing(wire) /\ cursor <= last
      /\ \A i \in 1..Len(wire) : cursor < wire[i] /\ wire[i] <= last
      /\ \A x \in cursor + 1 .. last :
           x <= low \/ x \in missed \/ \E i \in 1..Len(wire) : wire[i] = x
  BY <1>1 DEF StreamInv, Shape, WireFits
<1>4. /\ Len(wire) \in Nat /\ Len(wire) >= 1 /\ h = wire[1] /\ h \in 1..n
      /\ Tail(wire) \in Seq(1..n) /\ Len(Tail(wire)) = Len(wire) - 1
      /\ \A i \in 1 .. Len(wire) - 1 : Tail(wire)[i] = wire[i + 1]
  BY <1>1, <1>2, TailFacts
<1>5. Increasing(Tail(wire)) /\ \A i \in 1 .. Len(Tail(wire)) : h < Tail(wire)[i]
  <2>1. 1..n \subseteq Nat
    OBVIOUS
  <2> QED BY <1>1, <1>2, <1>3, <2>1, TailIncreasing
<1> HIDE DEF h
<1>6. h \in Nat /\ cursor < h /\ h <= last /\ h <= n /\ h >= 1
  <2>1. 1 \in 1..Len(wire)
    BY <1>4
  <2> QED BY <1>3, <1>4, <2>1
<1>7. cursor' = h
  BY <1>1, <1>6
<1>8. \A i \in 1..Len(wire) : i # 1 => /\ i - 1 \in 1..Len(Tail(wire))
                                       /\ Tail(wire)[i - 1] = wire[i] /\ h < wire[i]
  <2> TAKE i \in 1..Len(wire)
  <2> HAVE i # 1
  <2>1. i - 1 \in 1 .. Len(wire) - 1 /\ (i - 1) + 1 = i
    BY <1>4
  <2> QED BY <1>4, <1>5, <2>1
<1>9. \A x \in cursor + 1 .. h : x <= low \/ x \in given
  <2> TAKE x \in cursor + 1 .. h
  <2>1. x \in cursor + 1 .. last /\ x \in Nat /\ x <= h
    BY <1>2, <1>6
  <2>2. CASE \E i \in 1..Len(wire) : wire[i] = x
    <3>1. PICK i \in 1..Len(wire) : wire[i] = x
      BY <2>2
    <3>2. i = 1
      BY <1>6, <1>8, <2>1, <3>1
    <3> QED BY <1>4, <3>1, <3>2
  <2> QED BY <1>3, <2>1, <2>2
<1>10. Numbers'
  <2>1. h \in 0..n
    BY <1>2, <1>6
  <2>2. told \subseteq 1..n
    BY <1>2 DEF Numbers
  <2>3. told' \subseteq 1..n
    BY <1>1, <1>4, <2>2
  <2> QED BY <1>1, <1>2, <1>4, <1>7, <2>1, <2>3 DEF Numbers
<1>11. Others' /\ Shape' /\ PubInOrder' /\ ChannelFits'
  BY <1>1, <1>3 DEF StreamInv, Others, Shape, PubInOrder, ChannelFits, Unpublished
<1>12. Retained'
  <2> SUFFICES ASSUME NEW x \in low + 1 .. h PROVE x \in given
    BY <1>1, <1>7 DEF Retained
  <2>1. CASE x \in low + 1 .. cursor
    BY <2>1 DEF StreamInv, Retained
  <2>2. CASE x \in cursor + 1 .. h
    <3>1. ~(x <= low)
      BY <1>2, <1>6
    <3> QED BY <1>9, <2>2, <3>1
  <2> QED BY <1>2, <1>6, <2>1, <2>2
<1>13. WireFits'
  <2>1. \A i \in 1..Len(wire') : cursor' < wire'[i] /\ wire'[i] <= last
    <3> TAKE i \in 1..Len(wire')
    <3>1. i + 1 \in 1..Len(wire) /\ wire'[i] = wire[i + 1]
      BY <1>1, <1>4
    <3> QED BY <1>1, <1>3, <1>5, <1>7, <3>1
  <2>2. ASSUME NEW x \in h + 1 .. last
        PROVE  x <= low \/ x \in missed \/ \E i \in 1..Len(wire') : wire'[i] = x
    <3>1. x \in cursor + 1 .. last /\ x # h
      BY <1>2, <1>6
    <3>2. CASE \E i \in 1..Len(wire) : wire[i] = x
      <4>1. PICK i \in 1..Len(wire) : wire[i] = x
        BY <3>2
      <4> QED BY <1>1, <1>4, <1>8, <3>1, <4>1
    <3> QED BY <1>3, <3>1, <3>2
  <2> QED BY <1>1, <1>5, <1>6, <1>7, <2>1, <2>2 DEF WireFits
<1>14. Counted'
  <2> SUFFICES ASSUME NEW s \in 1..MaxSeq PROVE Due(s)' <= Allowed(s)'
    BY DEF Counted
  <2>1. resyncs \in Int /\ handled[s] \in Nat /\ s \in Nat /\ s # 0 /\ ~Owing /\ ~Owing'
    BY <1>1, <1>2, <1>3 DEF StreamInv, Others, Numbers, Owing
  <2>2. handled[s] <= resyncs + (IF s <= cursor THEN 1 ELSE 0)
    BY <1>1, <2>1 DEF StreamInv, Counted, Due, Allowed
  <2>3. Due(s)' = IF s = h THEN handled[s] + 1 ELSE handled[s]
    BY <1>1 DEF Due
  <2>4. Allowed(s)' = resyncs + (IF s <= h THEN 1 ELSE 0)
    BY <1>1, <1>7, <2>1 DEF Allowed
  <2> QED BY <1>2, <1>6, <2>1, <2>2, <2>3, <2>4
<1>15. Feed!Advance
  <2>1. cursor' \in cursor + 1 .. n
    BY <1>2, <1>6, <1>7
  <2>2. gone \in SUBSET (cursor + 1 .. low)
    BY <1>2, <1>6, <1>9
  <2>3. \A x \in told \cup missed : x \in Nat
    BY <1>2 DEF Numbers
  <2>4. {s \in given : s <= h}
          = {s \in told \cup missed : s <= cursor} \cup ((cursor + 1 .. h) \ gone)
    <3>1. ASSUME NEW s \in given, s <= h
          PROVE  s \in {r \in told \cup missed : r <= cursor} \cup ((cursor + 1 .. h) \ gone)
      <4>1. s \in Nat
        BY <1>6, <2>3
      <4>2. CASE s <= cursor
        BY <1>2, <1>6, <4>1, <4>2
      <4>3. CASE s > cursor
        BY <1>2, <1>6, <3>1, <4>1, <4>3
      <4> QED BY <1>2, <4>1, <4>2, <4>3
    <3>2. ASSUME NEW s \in told \cup missed, s <= cursor PROVE s \in given /\ s <= h
      BY <1>2, <1>6, <2>3, <3>2
    <3>3. ASSUME NEW s \in (cursor + 1 .. h) \ gone PROVE s \in given /\ s <= h
      BY <1>2, <1>6
    <3> HIDE DEF gone, given
    <3> QED BY <3>1, <3>2, <3>3
  <2>5. cursor' = h /\ told' \cup missed' = given /\ n' = n /\ low' = low
    BY <1>1, <1>7
  <2> HIDE DEF gone, given
  <2>6. {s \in told' \cup missed' : s <= cursor'}
          = {s \in told \cup missed : s <= cursor} \cup ((cursor + 1 .. cursor') \ gone)
    BY <2>4, <2>5
  <2> QED BY <2>1, <2>2, <2>5, <2>6 DEF Feed!Advance
<1> QED BY <1>10, <1>11, <1>12, <1>13, <1>14, <1>15 DEF StreamInv, StreamStep, Feed!FeedNext

LEMMA HandleStep ==
  ASSUME StreamInv, Handle
  PROVE  StreamInv' /\ StreamStep
<1>1. /\ busyWith # 0 /\ handled' = [handled EXCEPT ![busyWith] = @ + 1] /\ busyWith' = 0
      /\ UNCHANGED <<n, low, pub, conn, last, ch, wire, cursor, fsSince, fsPages, told,
                     missed, resyncs, breaks>>
  BY DEF Handle, hubVars, connVars
<1>2. Numbers /\ n \in Nat /\ n <= MaxSeq /\ MaxSeq \in Nat /\ busyWith \in 0..n
      /\ handled \in [1..MaxSeq -> Nat]
  <2>1. Numbers
    BY DEF StreamInv
  <2> QED BY <2>1, NumbersFit, ConstantsFit DEF Numbers
<1>3. busyWith \in 1..MaxSeq
  BY <1>1, <1>2
<1>4. handled' \in [1..MaxSeq -> Nat]
      /\ \A s \in 1..MaxSeq : handled'[s] = IF s = busyWith THEN handled[s] + 1 ELSE handled[s]
  BY <1>1, <1>2, <1>3
<1>5. Numbers'
  BY <1>1, <1>2, <1>4 DEF Numbers
<1>6. Others' /\ Retained' /\ Shape' /\ PubInOrder' /\ WireFits' /\ ChannelFits'
  BY <1>1 DEF StreamInv, Others, Retained, Shape, PubInOrder, WireFits, ChannelFits,
              Unpublished
<1>7. Counted'
  <2>1. \A s \in 1..MaxSeq : s # 0
    OBVIOUS
  <2>2. \A s \in 1..MaxSeq : Due(s)' = Due(s)
    BY <1>1, <1>4, <2>1 DEF Due
  <2>3. \A s \in 1..MaxSeq : Allowed(s)' = Allowed(s)
    BY <1>1 DEF Allowed, Owing
  <2> QED BY <2>2, <2>3 DEF StreamInv, Counted
<1>8. UNCHANGED Feed!feedVars
  BY <1>1 DEF Feed!feedVars
<1> QED BY <1>5, <1>6, <1>7, <1>8 DEF StreamInv, StreamStep

\* A page takes the service forward to its last change, but for the first page of a full
\* sync that a failed read asked for, which may set it back inside the window.
LEMMA SyncPageStep ==
  ASSUME StreamInv, SyncPage
  PROVE  StreamInv' /\ StreamStep
<1> DEFINE from == IF fsSince < low THEN low ELSE fsSince
           to == IF n - from > PageLimit THEN from + PageLimit ELSE n
           given == told \cup (from + 1 .. to) \cup missed
           held == {s \in told \cup missed : s <= cursor}
           gone == {x \in cursor + 1 .. to : x \notin given}
<1>1. /\ conn = "resync" /\ cursor' = (IF to > fsSince THEN to ELSE fsSince)
      /\ told' = told \cup (from + 1 .. to) /\ fsSince' = to /\ fsPages' = fsPages + 1
      /\ conn' \in {"resync", "off"}
      /\ UNCHANGED <<n, low, pub, last, ch, wire, busyWith, missed, handled, resyncs, breaks>>
  BY DEF SyncPage, hubVars, history
<1>2. /\ Numbers /\ n \in Nat /\ cursor \in Nat /\ low \in Nat /\ fsSince \in Nat
      /\ low <= n /\ fsSince <= n /\ cursor <= n /\ fsSince <= cursor /\ PageLimit \in Nat
  BY <1>1, ConstantsFit DEF StreamInv, Numbers, Shape
<1>3. from \in Nat /\ from <= n /\ low <= from /\ fsSince <= from /\ (from = low \/ from <= cursor)
  BY <1>2
<1> HIDE DEF from
<1>4. to \in Nat /\ to <= n /\ from <= to
  BY <1>2, <1>3
<1> HIDE DEF to
<1>5. cursor' = to
  BY <1>1, <1>2, <1>3, <1>4
<1>6. \A x \in low + 1 .. cursor : x \in told \cup missed
  BY DEF StreamInv, Retained
<1>7. Numbers'
  <2>1. cursor' \in 0..n /\ fsSince' \in 0..n /\ told' \subseteq 1..n
    BY <1>1, <1>2, <1>3, <1>4, <1>5 DEF Numbers
  <2> QED BY <1>1, <1>2, <2>1 DEF Numbers
<1>8. Others' /\ PubInOrder'
  BY <1>1 DEF StreamInv, Others, PubInOrder
<1>9. Shape' /\ WireFits' /\ ChannelFits' /\ ~Owing'
  BY <1>1, <1>4, <1>5 DEF StreamInv, Shape, WireFits, ChannelFits, Owing
<1>10. \A x \in Nat : x > low /\ x <= to => x \in given
  <2> TAKE x \in Nat
  <2> HAVE x > low /\ x <= to
  <2>1. CASE x <= from
    <3>1. x \in low + 1 .. cursor
      BY <1>2, <1>3, <2>1
    <3> QED BY <1>6, <3>1
  <2>2. CASE x > from
    BY <1>3, <1>4, <2>2
  <2> QED BY <1>3, <2>1, <2>2
<1>11. Retained'
  <2>1. \A x \in low + 1 .. to : x \in Nat /\ x > low /\ x <= to
    BY <1>2, <1>4
  <2> QED BY <1>1, <1>5, <1>10, <2>1 DEF Retained
<1>12. Counted'
  <2> SUFFICES ASSUME NEW s \in 1..MaxSeq PROVE Due(s)' <= Allowed(s)'
    BY DEF Counted
  <2>1. resyncs \in Int /\ handled[s] \in Nat /\ s \in Nat
    BY CountFacts
  <2>2. Due(s)' = Due(s) /\ Due(s) \in Int /\ Due(s) <= Allowed(s)
    BY <1>1, <2>1 DEF StreamInv, Counted, Due
  <2>3. Allowed(s)' = resyncs + (IF s <= to THEN 1 ELSE 0)
    BY <1>1, <1>5, <1>9 DEF Allowed
  <2>4. CASE Owing
    <3>1. Allowed(s) = resyncs - 1 + (IF s <= cursor THEN 1 ELSE 0)
      BY <2>4 DEF Allowed
    <3> QED BY <1>2, <1>4, <2>1, <2>2, <2>3, <3>1
  <2>5. CASE ~Owing
    <3>1. Allowed(s) = resyncs + (IF s <= cursor THEN 1 ELSE 0)
      BY <2>5 DEF Allowed
    <3>2. cursor <= to
      BY <1>1, <1>2, <1>3, <1>4, <2>5 DEF Owing
    <3> QED BY <1>2, <1>4, <2>1, <2>2, <2>3, <3>1, <3>2
  <2> QED BY <2>4, <2>5
<1>13. \A x \in told \cup missed : x \in Nat
  BY <1>2 DEF Numbers
<1>14. \A x \in from + 1 .. to : x \in Nat /\ x > low
  BY <1>2, <1>3, <1>4
<1>15. \A x \in given : x \in Nat
  BY <1>13, <1>14
<1>16. \A x : x \in given /\ x <= cursor <=> x \in held
  <2>1. ASSUME NEW x \in from + 1 .. to, x <= cursor PROVE x \in held
    <3>1. x \in low + 1 .. cursor
      BY <1>2, <1>14, <2>1
    <3> QED BY <1>6, <2>1, <3>1
  <2> QED BY <2>1
<1>17. CASE to > cursor
  <2>1. cursor' \in cursor + 1 .. n
    BY <1>2, <1>4, <1>5, <1>17
  <2>2. gone \in SUBSET (cursor + 1 .. low)
    <3> SUFFICES ASSUME NEW x \in gone PROVE x \in cursor + 1 .. low
      OBVIOUS
    <3>1. x \in Nat /\ x >= cursor + 1 /\ x <= to /\ x \notin given
      BY <1>2, <1>4
    <3>2. ~(x > low)
      BY <1>10, <3>1
    <3> QED BY <1>2, <3>1, <3>2
  <2>3. ASSUME NEW s PROVE s \in given /\ s <= to <=> s \in held \cup ((cursor + 1 .. to) \ gone)
    <3>1. ASSUME s \in given, s <= to PROVE s \in held \cup ((cursor + 1 .. to) \ gone)
      <4>1. s \in Nat
        BY <1>15, <3>1
      <4>2. CASE s <= cursor
        BY <1>16, <3>1, <4>2
      <4>3. CASE s > cursor
        BY <1>2, <1>4, <3>1, <4>1, <4>3
      <4> QED BY <1>2, <4>1, <4>2, <4>3
    <3>2. ASSUME s \in held PROVE s \in given /\ s <= to
      <4>1. s \in given /\ s <= cursor /\ s \in Nat
        BY <1>15, <1>16, <3>2
      <4> QED BY <1>2, <1>4, <1>17, <4>1
    <3>3. ASSUME s \in (cursor + 1 .. to) \ gone PROVE s \in given /\ s <= to
      BY <1>2, <1>4, <3>3
    <3> HIDE DEF gone, given, held
    <3> QED BY <3>1, <3>2, <3>3
  <2>4. {s \in given : s <= to} = held \cup ((cursor + 1 .. to) \ gone)
    <3> HIDE DEF gone, given, held
    <3> QED BY <2>3
  <2>5. cursor' = to /\ told' \cup missed' = given /\ n' = n /\ low' = low
    BY <1>1, <1>5
  <2> HIDE DEF gone, given
  <2>6. {s \in told' \cup missed' : s <= cursor'} = held \cup ((cursor + 1 .. cursor') \ gone)
    BY <2>4, <2>5
  <2>7. Feed!Advance
    BY <2>1, <2>2, <2>5, <2>6 DEF Feed!Advance
  <2> QED BY <1>7, <1>8, <1>9, <1>11, <1>12, <2>7 DEF StreamInv, StreamStep, Feed!FeedNext
<1>18. CASE to = cursor
  <2>1. {s \in given : s <= cursor} = held
    BY <1>16
  <2>2. UNCHANGED Feed!feedVars
    BY <1>1, <1>5, <1>18, <2>1 DEF Feed!feedVars
  <2> QED BY <1>7, <1>8, <1>9, <1>11, <1>12, <2>2 DEF StreamInv, StreamStep
<1>19. CASE to < cursor
  <2>1. cursor' \in 0 .. cursor - 1
    BY <1>2, <1>4, <1>5, <1>19
  <2>2. \A s \in Nat : s <= to => s <= cursor
    BY <1>2, <1>4, <1>19
  <2>3. \A s : s \in held => s \in Nat
    BY <1>13
  <2>4. {s \in given : s <= to} = {c \in held : c <= to}
    <3> HIDE DEF given, held
    <3> QED BY <1>15, <1>16, <2>2, <2>3
  <2>5. Feed!Rewind
    BY <1>1, <1>5, <2>1, <2>4 DEF Feed!Rewind
  <2> QED BY <1>7, <1>8, <1>9, <1>11, <1>12, <2>5 DEF StreamInv, StreamStep, Feed!FeedNext
<1> QED BY <1>2, <1>4, <1>17, <1>18, <1>19

-----------------------------------------------------------------------------
(* Failures.                                                               *)

\* A connection that goes leaves the service where it stands.
LEMMA HangupStep ==
  ASSUME StreamInv, Hangup, breaks < MaxBreaks, breaks' = breaks + 1,
         pub' = pub \/ pub' = [w \in Writers |-> <<>>],
         busyWith' = busyWith \/ busyWith' = 0,
         UNCHANGED <<n, low, cursor, fsSince, fsPages, told, missed, handled, resyncs>>
  PROVE  StreamInv' /\ StreamStep
<1>1. conn' = "off" /\ last' = 0 /\ ch' = <<>> /\ wire' = <<>>
  BY DEF Hangup
<1>2. Numbers /\ n \in Nat /\ cursor \in Nat
  BY ConstantsFit DEF StreamInv, Numbers
<1>3. <<>> \in Seq(1..n) /\ Increasing(<<>>)
  BY EmptySeq
<1>4. Numbers'
  <2>1. pub' \in [Writers -> Seq(1..n)]
    <3>1. pub \in [Writers -> Seq(1..n)]
      BY <1>2 DEF Numbers
    <3> QED BY <1>3, <3>1
  <2>2. busyWith' \in 0..n
    <3>1. busyWith \in 0..n
      BY <1>2 DEF Numbers
    <3> QED BY <1>2, <3>1
  <2> QED BY <1>1, <1>2, <1>3, <2>1, <2>2 DEF Numbers
<1>5. Others'
  BY <1>1, ConstantsFit DEF StreamInv, Others
<1>6. PubInOrder'
  BY <1>3 DEF StreamInv, PubInOrder
<1>7. Retained' /\ Shape' /\ WireFits' /\ ChannelFits' /\ ~Owing'
  BY <1>1 DEF StreamInv, Retained, Shape, WireFits, ChannelFits, Owing
<1>8. Counted'
  <2> SUFFICES ASSUME NEW s \in 1..MaxSeq PROVE Due(s)' <= Allowed(s)'
    BY DEF Counted
  <2>1. resyncs \in Int /\ handled[s] \in Nat /\ s # 0
    BY CountFacts
  <2>2. Due(s)' <= Due(s) /\ Due(s) \in Int /\ Due(s)' \in Int /\ Due(s) <= Allowed(s)
    BY <2>1 DEF StreamInv, Counted, Due
  <2>3. Allowed(s) <= Allowed(s)' /\ Allowed(s) \in Int /\ Allowed(s)' \in Int
    BY <1>7, <2>1 DEF Allowed
  <2> QED BY <2>2, <2>3
<1>9. UNCHANGED Feed!feedVars
  BY DEF Feed!feedVars
<1> QED BY <1>4, <1>5, <1>6, <1>7, <1>8, <1>9 DEF StreamInv, StreamStep

LEMMA NextStream == StreamInv /\ [Next]_vars => StreamInv' /\ StreamStep
<1> SUFFICES ASSUME StreamInv, [Next]_vars PROVE StreamInv' /\ StreamStep
  OBVIOUS
<1>1. CASE Hub
  BY <1>1, CommitStep, PublishStep, TrimStep DEF Hub
<1>2. CASE Connect \/ Subscribe \/ Replay \/ ReplayFails \/ Forward
  BY <1>2, ConnectStep, SubscribeStep, ReplayStep, ReplayFailsStep, ForwardStep
<1>3. CASE Receive \/ Handle \/ SyncPage
  BY <1>3, ReceiveStep, HandleStep, SyncPageStep
<1>4. CASE Disconnect
  BY <1>4, HangupStep DEF Disconnect, hubVars, history
<1>5. CASE HubRestart
  BY <1>5, HangupStep DEF HubRestart, history
<1>6. CASE Kill
  BY <1>6, HangupStep DEF Kill, hubVars, history
<1>7. CASE UNCHANGED vars
  <2>1. Numbers' /\ Others' /\ Retained' /\ Shape' /\ PubInOrder' /\ WireFits'
    BY <1>7 DEF vars, StreamInv, Numbers, Others, Retained, Shape, PubInOrder, WireFits
  <2>2. ChannelFits' /\ Counted'
    BY <1>7 DEF vars, StreamInv, ChannelFits, Unpublished, Counted, Due, Allowed, Owing
  <2>3. UNCHANGED Feed!feedVars
    BY <1>7 DEF vars, Feed!feedVars
  <2> QED BY <2>1, <2>2, <2>3 DEF StreamInv, StreamStep
<1> QED BY <1>1, <1>2, <1>3, <1>4, <1>5, <1>6, <1>7 DEF Next

-----------------------------------------------------------------------------
(* The theorems.                                                           *)

\* The hub, the connection and the service keep their types (hub/sse.go, hub/store.go,
\* AssistantSyncService.kt).
THEOREM StreamTypeCorrect == Spec => []TypeOK
<1>1. StreamInv => TypeOK
  <2> SUFFICES ASSUME StreamInv PROVE TypeOK
    OBVIOUS
  <2>1. Numbers /\ Others /\ n \in Nat /\ n <= MaxSeq /\ MaxSeq \in Nat /\ MaxBreaks \in Nat
    BY ConstantsFit DEF StreamInv, Numbers
  <2>2. 0..n \subseteq 0..MaxSeq /\ 1..n \subseteq 1..MaxSeq
    BY <2>1
  <2>3. pub \in [Writers -> Seq(1..MaxSeq)] /\ ch \in Seq(1..MaxSeq) /\ wire \in Seq(1..MaxSeq)
    BY <2>1, <2>2, SeqWiden DEF Numbers
  <2>4. resyncs \in 0..MaxBreaks
    BY <2>1 DEF Others
  <2> QED BY <2>1, <2>2, <2>3, <2>4 DEF TypeOK, Numbers, Others
<1> QED BY <1>1, InitStream, NextStream, PTL DEF Spec

\* Nothing is handled more often than once and once more for each failed read of the
\* history, however many writers, reconnects, restarts and kills there are
\* (handleSseEvent, handleStream, performFullSync).
THEOREM HandledAtMostOnce == Spec => []HandledOnce
<1>1. StreamInv => HandledOnce
  <2> SUFFICES ASSUME StreamInv, NEW s \in 1..MaxSeq PROVE handled[s] <= 1 + resyncs
    BY DEF HandledOnce
  <2>1. resyncs \in Int /\ handled[s] \in Nat /\ Due(s) <= Allowed(s)
    BY DEF StreamInv, Others, Numbers, Counted
  <2> QED BY <2>1 DEF Due, Allowed
<1> QED BY <1>1, InitStream, NextStream, PTL DEF Spec

\* The stream is a change feed but for what a full channel dropped and what was overtaken
\* between commit and publication (handleStream, broker.Publish, performFullSync).
THEOREM StreamImplementsFeed == Spec => ImplementsFeed
<1>1. Init => Feed!FeedInit
  BY InitStream
<1>2. StreamInv /\ [Next]_vars => [Feed!FeedNext]_Feed!feedVars
  BY NextStream DEF StreamStep
<1> QED BY <1>1, <1>2, InitStream, NextStream, PTL DEF Spec, ImplementsFeed, Feed!FeedSpec

-----------------------------------------------------------------------------
(* What a feed is worth to a reader: any reader, here one of its own.      *)

VARIABLES pos, seen  \* where it stands, what it was given

Reader == INSTANCE ChangeFeed

\* The numbers are numbers, and the window and the reader lie within the log.
FeedTypeOK ==
  /\ n \in Nat /\ low \in 0..n /\ pos \in 0..n
  /\ seen \subseteq 1..pos

FeedInv == FeedTypeOK /\ Reader!NoRetainedGap

\* An interval that starts later is within the one that starts earlier.
LEMMA IntervalShrinks ==
  ASSUME NEW a \in Int, NEW b \in Int, NEW p \in Int, a <= b
  PROVE  b + 1 .. p \subseteq a + 1 .. p
OBVIOUS

\* However the reader moves, back included, and however the window is trimmed, its
\* cursor vouches for everything in the window up to it: what the stream (ImplementsFeed)
\* and the sync (SyncIsFeed) owe to handleStream and handleSync.
THEOREM CursorVouches == Reader!FeedSpec => []Reader!NoRetainedGap
<1>1. Reader!FeedInit => FeedInv
  BY DEF Reader!FeedInit, FeedInv, FeedTypeOK, Reader!NoRetainedGap
<1>2. FeedInv /\ [Reader!FeedNext]_Reader!feedVars => FeedInv'
  <2> SUFFICES ASSUME FeedInv, [Reader!FeedNext]_Reader!feedVars PROVE FeedInv'
    OBVIOUS
  <2> USE DEF FeedInv, FeedTypeOK, Reader!NoRetainedGap
  <2>1. CASE Reader!Append
    <3>1. FeedTypeOK'
      BY <2>1 DEF Reader!Append
    <3>2. Reader!NoRetainedGap'
      BY <2>1 DEF Reader!Append
    <3>3. QED
      BY <3>1, <3>2
  <2>2. CASE Reader!Forget
    <3>1. FeedTypeOK'
      BY <2>2 DEF Reader!Forget
    <3>2. Reader!NoRetainedGap'
      <4>1. low' \in low + 1 .. n /\ pos' = pos /\ seen' = seen
        BY <2>2 DEF Reader!Forget
      <4>2. low \in Int /\ low' \in Int /\ pos \in Int /\ low <= low'
        BY <4>1
      <4>3. low' + 1 .. pos \subseteq low + 1 .. pos
        BY <4>2, IntervalShrinks
      <4>4. QED
        BY <4>1, <4>3
    <3>3. QED
      BY <3>1, <3>2
  <2>3. CASE Reader!Advance
    <3>1. FeedTypeOK'
      BY <2>3 DEF Reader!Advance
    <3>2. Reader!NoRetainedGap'
      BY <2>3 DEF Reader!Advance
    <3>3. QED
      BY <3>1, <3>2
  <2>4. CASE Reader!Rewind
    <3>1. FeedTypeOK'
      <4>1. n' = n /\ low' = low /\ pos' \in 0 .. pos - 1
        BY <2>4 DEF Reader!Rewind
      <4>2. ASSUME NEW c \in seen' PROVE c \in 1 .. pos'
        <5>1. c \in seen /\ c <= pos'
          BY <2>4 DEF Reader!Rewind
        <5>2. c \in 1 .. pos
          BY <5>1
        <5>3. QED
          BY <4>1, <5>1, <5>2
      <4>3. QED
        BY <4>1, <4>2
    <3>2. Reader!NoRetainedGap'
      BY <2>4 DEF Reader!Rewind
    <3>3. QED
      BY <3>1, <3>2
  <2>5. CASE UNCHANGED Reader!feedVars
    BY <2>5 DEF Reader!feedVars
  <2>6. QED
    BY <2>1, <2>2, <2>3, <2>4, <2>5 DEF Reader!FeedNext
<1>3. FeedInv => Reader!NoRetainedGap
  BY DEF FeedInv
<1>4. QED
  BY <1>1, <1>2, <1>3, PTL DEF Reader!FeedSpec
=============================================================================
