----------------------------- MODULE ChangeFeed -----------------------------
(***************************************************************************)
(* What the change log promises a reader (contracts/api-v1.md, /sync and   *)
(* /stream): changes are numbered without holes, the oldest are dropped    *)
(* from the window, and a reader moves through the log in order.  It may   *)
(* miss a change only because the change had left the window by then.      *)
(***************************************************************************)
EXTENDS Integers

VARIABLES
  n,     \* the number of changes committed so far
  low,   \* the changes 1..low have left the window
  pos,   \* the reader's cursor
  seen   \* the changes up to pos that the reader was given

feedVars == <<n, low, pos, seen>>

FeedInit == n = 0 /\ low = 0 /\ pos = 0 /\ seen = {}

Append ==
  /\ n' \in Nat /\ n' > n
  /\ UNCHANGED <<low, pos, seen>>

Forget ==
  /\ low' \in low + 1 .. n
  /\ UNCHANGED <<n, pos, seen>>

\* The reader is given the next changes, but for some that have left the window.
Advance ==
  /\ pos' \in pos + 1 .. n
  /\ \E gone \in SUBSET (pos + 1 .. low) : seen' = seen \cup ((pos + 1 .. pos') \ gone)
  /\ UNCHANGED <<n, low>>

\* The reader goes back and will read on from there.
Rewind ==
  /\ pos' \in 0 .. pos - 1
  /\ seen' = {c \in seen : c <= pos'}
  /\ UNCHANGED <<n, low>>

FeedNext == Append \/ Forget \/ Advance \/ Rewind

FeedSpec == FeedInit /\ [][FeedNext]_feedVars

\* A cursor vouches for everything in the window up to it.
NoRetainedGap == low + 1 .. pos \subseteq seen
=============================================================================
