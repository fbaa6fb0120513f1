------------------------------- MODULE SloRules -------------------------------
(***************************************************************************)
(* The target of a signalfx_slo: a rolling or a calendar window, and the   *)
(* alert rules on it, which the API may return in any order.               *)
(***************************************************************************)
EXTENDS Naturals, Sorting

\* Alert rules in the order their types are sorted.
RuleTypes == <<"BREACH", "BURN_RATE", "ERROR_BUDGET_LEFT">>
TypeRank(rule) == CHOOSE i \in DOMAIN RuleTypes : RuleTypes[i] = rule.type
Notes == {"a", "b"}
RulesByType ==
    [i \in DOMAIN RuleTypes |-> [type : {RuleTypes[i]}, notify : Notes]]
Unset == "unset"

\* getApiTargets: only the fields of the target's type are sent.
TargetFields(target) ==
    IF target.type = "RollingWindow" THEN [target EXCEPT !.cycle = Unset]
    ELSE [target EXCEPT !.period = Unset]

getApiTargets(slo) ==
    [target |-> TargetFields(slo.target), rules |-> slo.rules]

\* A stable sort by type: rules of one type keep the order of the API.
SortedByType(rules) == Grouped(rules, RulesByType)
AsReturned(reply) ==  \* mutant: rules are stored in the order of the reply
    [target |-> TargetFields(reply.target), rules |-> reply.rules]
getTfTargets(reply) ==
    [target |-> TargetFields(reply.target), rules |-> SortedByType(reply.rules)]

----------------------------------------------------------------------------
(* Reference definitions: the blocks that are read back as they are, and   *)
(* replies that say the same.                                              *)

Settles(slo) ==
    /\ \A i, j \in DOMAIN slo.rules :
           i < j => TypeRank(slo.rules[i]) <= TypeRank(slo.rules[j])
    /\ slo.target.type = "RollingWindow" => slo.target.cycle = Unset
    /\ slo.target.type = "CalendarWindow" => slo.target.period = Unset

SameRules(p, q) == /\ p.target = q.target
                   /\ SortedByType(p.rules) = SortedByType(q.rules)

----------------------------------------------------------------------------
(* Bounded inputs: one or two rules, which may be of one type.             *)

Rule(type, notify) == [type |-> type, notify |-> notify]
SomeRules == {Rule("BREACH", "a"), Rule("BREACH", "b"),
              Rule("ERROR_BUDGET_LEFT", "a")}
Targets == [type : {"RollingWindow", "CalendarWindow"},
            period : {Unset, "7d"}, cycle : {Unset, "week"}]
Slos == [target : Targets, rules : UNION {[1..n -> SomeRules] : n \in 1..2}]
OtherReplies ==
    {getApiTargets([target |-> t, rules |-> <<Rule("BURN_RATE", "a"),
                                              Rule("BREACH", "b")>>]) :
        t \in Targets}

\* The API returns the rules in another order.
Reordered(reply) ==
    {[reply EXCEPT !.rules = Reverse(@)]}
=============================================================================
