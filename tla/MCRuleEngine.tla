---------------------------- MODULE MCRuleEngine ----------------------------
(* Samples for RuleEngine.  No rule reads what another one reads or writes, *)
(* so a sample that tells something to one kind of rule is enough.          *)
EXTENDS RuleEngine

Blank == [value |-> [l \in Labels |-> "absent"], list |-> NoList,
          part |-> [p \in Parts |-> "unknown"]]

OneKind ==
  {[Blank EXCEPT !.value = v] : v \in Values}
    \cup {[Blank EXCEPT !.list = L] : L \in Lists}
    \cup {[Blank EXCEPT !.part = q] : q \in [Parts -> {"bad", "ok"}]}
=============================================================================
