----------------------------- MODULE SourceAdmin ----------------------------
(* Administration of a source while its agent reports: create, patch, the   *)
(* two key rotations and delete against ingest handlers that authenticated  *)
(* earlier, and the versioned documents (rules, settings) that several      *)
(* administrators edit from copies they read before.                        *)
EXTENDS Integers, FiniteSets

CONSTANTS
  Ingests,   \* ingest handlers that may run at the same time
  Admins,    \* administrators editing the versioned document
  MaxGen,    \* bound: keys and addresses generated
  MaxSeen,   \* bound: applied ingests
  MaxEdit    \* bound: versions of the document

ASSUME BoundsOK == {MaxGen, MaxSeen, MaxEdit} \subseteq Nat

VARIABLES
  row,      \* the source's row; keys and address are generations, 0: none
  gen,      \* generations so far
  shown,    \* what the change log says of the source last
  ingest,   \* each ingest handler: where it is and the key it was sent
  late,     \* history: a report was already authenticated at the deletion
  doc,      \* the document: its version and the edits its text contains
  edit,     \* each administrator's copy of the document
  taken     \* history: edits the hub has accepted

source == <<row, gen, shown>>
document == <<doc, edit, taken>>
adminVars == <<source, ingest, late, document>>

Kinds == {"device", "feedback"}
Gens == 0 .. MaxGen
NoRow == [kind |-> "none", deleted |-> FALSE, enabled |-> FALSE, key |-> 0, mgmt |-> 0,
          base |-> 0, seen |-> 0]
NoCopy == [at |-> "idle", version |-> 0, text |-> {}]
Tombstone == [NoRow EXCEPT !.deleted = TRUE]
Live == row.kind # "none" /\ ~row.deleted

\* Type invariant: the row, the handlers and the document.
AdminTypeOK ==
  /\ row \in [kind : Kinds \union {"none"}, deleted : BOOLEAN, enabled : BOOLEAN, key : Gens,
              mgmt : Gens, base : Gens, seen : 0 .. MaxSeen]
  /\ gen \in Gens
  /\ ingest \in [Ingests -> [at : {"idle", "sent", "authed"}, key : Gens]]
  /\ late \in BOOLEAN
  /\ doc.version \in Nat
  /\ edit \in [Admins -> [at : {"idle", "editing"}, version : Nat, text : SUBSET Nat]]

AdminInit ==
  /\ row = NoRow
  /\ gen = 0
  /\ shown = NoRow
  /\ ingest = [i \in Ingests |-> [at |-> "idle", key |-> 0]]
  /\ late = FALSE
  /\ doc = [version |-> 1, text |-> {}]
  /\ edit = [a \in Admins |-> NoCopy]
  /\ taken = {}

-----------------------------------------------------------------------------
\* emitSourceChangeTx: the whole source as it is after the update.
Commit(r) ==
  /\ row' = r
  /\ shown' = r

\* Bound: sources and documents share nothing but the store's lock, so a
\* behaviour is about one of them.
AboutDocs == doc.version > 1 \/ \E a \in Admins : edit[a].at # "idle"

\* handleSourceCreate
Create ==
  /\ ~AboutDocs
  /\ row.kind = "none"
  /\ gen + 2 <= MaxGen
  /\ \E kind \in Kinds, base \in {0, gen + 2} :
       \E mgmt \in {0} \union (IF kind = "feedback" THEN {gen + 2} ELSE {}) :
         Commit([NoRow EXCEPT !.kind = kind, !.enabled = TRUE, !.key = gen + 1,
                              !.mgmt = mgmt, !.base = base])
  /\ gen' = gen + 2
  /\ UNCHANGED <<ingest, late, document>>

\* handleSourcePatch: enabled, address and management key, each only if present.
Patch ==
  /\ Live
  /\ gen < MaxGen
  /\ \E enabled \in BOOLEAN, base \in {row.base, 0, gen + 1},
        mgmt \in {row.mgmt} \union (IF row.kind = "feedback" THEN {0, gen + 1} ELSE {}) :
       /\ gen' = gen + 1
       /\ Commit([row EXCEPT !.enabled = enabled, !.base = base, !.mgmt = mgmt])
  /\ UNCHANGED <<ingest, late, document>>

\* Mutant: the new key is not announced.
RotateKeyQuietly ==
  /\ Live
  /\ gen < MaxGen
  /\ gen' = gen + 1
  /\ row' = [row EXCEPT !.key = gen']
  /\ UNCHANGED <<shown, ingest, late, document>>

\* handleSourceRotateKey
RotateKey ==
  /\ Live
  /\ gen < MaxGen
  /\ gen' = gen + 1
  /\ Commit([row EXCEPT !.key = gen'])
  /\ UNCHANGED <<ingest, late, document>>

\* handleSourceRotateMgmtKey
RotateMgmtKey ==
  /\ Live
  /\ row.kind = "feedback"
  /\ gen < MaxGen
  /\ gen' = gen + 1
  /\ Commit([row EXCEPT !.mgmt = gen'])
  /\ UNCHANGED <<ingest, late, document>>

\* handleSourceDelete: the keys are gone with the source.
Delete ==
  /\ Live
  /\ row' = [row EXCEPT !.deleted = TRUE, !.key = 0, !.mgmt = 0]
  /\ shown' = Tombstone
  /\ late' = (\E i \in Ingests : ingest[i].at = "authed")
  /\ UNCHANGED <<gen, ingest, document>>

-----------------------------------------------------------------------------
\* An agent sends a report with a key it was once given.
Report(i) ==
  /\ ingest[i].at = "idle"
  /\ row.seen < MaxSeen
  /\ \E key \in 1 .. gen : ingest' = [ingest EXCEPT ![i] = [at |-> "sent", key |-> key]]
  /\ UNCHANGED <<source, late, document>>

\* sourceKeyAuth, through loadSourceByKeyHash
KeyKnown(key) == Live /\ row.key = key

Authenticate(i) ==
  /\ ingest[i].at = "sent"
  /\ ingest' = [ingest EXCEPT ![i] = [@ EXCEPT !.at =
       IF KeyKnown(ingest[i].key) /\ row.enabled THEN "authed" ELSE "idle"]]
  /\ UNCHANGED <<source, late, document>>

\* The transaction of an ingest handler loads the row by its id, touches
\* lastSeenAt and announces the source; the key is not looked at again.
Apply(i) ==
  /\ ingest[i].at = "authed"
  /\ row.seen < MaxSeen
  /\ Commit([row EXCEPT !.seen = @ + 1])
  /\ ingest' = [ingest EXCEPT ![i] = [at |-> "idle", key |-> 0]]
  /\ UNCHANGED <<gen, late, document>>

-----------------------------------------------------------------------------
\* handleRulesGet, handleSettingsGet
ReadDoc(a) ==
  /\ row = NoRow
  /\ edit[a].at = "idle"
  /\ edit' = [edit EXCEPT ![a] = [at |-> "editing", version |-> doc.version, text |-> doc.text]]
  /\ UNCHANGED <<source, ingest, late, doc, taken>>

\* Mutant: any earlier version is accepted.
MatchesAny(a) == edit[a].version \in 1 .. doc.version

\* expectedVersion is the version of the document.
Matches(a) == edit[a].version = doc.version

\* handleRulesPut, handleSettingsPatch: expectedVersion is compared and the
\* document replaced under the store's lock.
WriteDoc(a) ==
  /\ edit[a].at = "editing"
  /\ \/ /\ Matches(a)
        /\ doc.version <= MaxEdit
        /\ doc' = [version |-> doc.version + 1, text |-> edit[a].text \union {doc.version}]
        /\ taken' = taken \union {doc.version}
     \/ /\ ~Matches(a)
        /\ UNCHANGED <<doc, taken>>
  /\ edit' = [edit EXCEPT ![a] = NoCopy]
  /\ UNCHANGED <<source, ingest, late>>

AdminNext ==
  \/ Create \/ Patch \/ RotateKey \/ RotateMgmtKey \/ Delete
  \/ \E i \in Ingests : Report(i) \/ Authenticate(i) \/ Apply(i)
  \/ \E a \in Admins : ReadDoc(a) \/ WriteDoc(a)

-----------------------------------------------------------------------------
\* What the change log says last of a source is its row: no handler changes
\* the source without announcing it, and a deleted source stays gone at the
\* clients unless a report that was under way at the deletion came after it.
LogTellsRow ==
  /\ Live => shown = row
  /\ row.deleted /\ ~late => shown = Tombstone

\* An edit the hub accepted is still in the document unless its author's
\* successors saw it: editors who started from the same copy do not overwrite
\* each other.
NoEditLost == taken \subseteq doc.text
=============================================================================
