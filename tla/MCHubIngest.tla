---------------------------- MODULE MCHubIngest -----------------------------
(* Small sources for HubIngest: the events each one ever produces.          *)
EXTENDS HubIngest

Ev(s, k, a, v, t) == [id |-> s, seq |-> s, key |-> k, action |-> a, sev |-> v, occ |-> t]

KeysDef == {"hb", "k"}

\* Two rounds of one fault, all at once: the order of delivery is what varies.
Burst == {Ev(1, "k", "open", 1, 1), Ev(2, "k", "resolve", 0, 1),
          Ev(3, "k", "update", 2, 1), Ev(4, "k", "resolve", 0, 1)}

\* A round and a reopening that outlives the retention period.
LongLived == {Ev(1, "k", "open", 1, 1), Ev(2, "k", "resolve", 0, 1),
              Ev(3, "k", "open", 2, 2)}
=============================================================================
