----------------------------- MODULE PolicyAnalysis -----------------------------
(***************************************************************************)
(* What is said of a set of rules: the static checks (semantics.py), the   *)
(* bounded check that asks the engine about a space of requests            *)
(* (modelcheck.py), the analysis of the rules of a bundle and the audit    *)
(* that joins them (policy_bundle.py), and the explanation of a decision.  *)
(***************************************************************************)
EXTENDS PolicyEngine

CONSTANTS
    KnownObligations,
    Starred           \* the texts with a "*" in them; a pattern may also have a "?"

(* Without a wildcard a pattern matches itself alone. *)
Literal(pattern) == Glob[pattern] = {pattern}

Conflicting(rules) == {pair \in rules \X rules : pair[1].effect # pair[2].effect}

-----------------------------------------------------------------------------
(* PolicyInvariants *)

(* _covers is True.  Of two different patterns with wildcards it knows     *)
(* nothing, and says so, which counts as not covered.                      *)
Covers(pattern, candidate) ==
    \/ pattern = Star \/ pattern = candidate
    \/ candidate # Star /\ ~Literal(pattern) /\ Literal(candidate)
       /\ candidate \in Glob[pattern]

SetCovers(patterns, candidates) ==
    \/ Star \in patterns
    \/ \A c \in candidates : \E p \in patterns : Covers(p, c)

ShadowsAnyAction(deny, allow) ==
    /\ deny.effect = "deny" /\ allow.effect = "allow"
    /\ Covers(deny.target, allow.target)
    /\ SetCovers(deny.subjects, allow.subjects)
    /\ SetCovers(deny.purposes, allow.purposes)

(* deny_shadows_allow: by its scope alone, whatever the deny rule's        *)
(* constraints.                                                            *)
Shadows(deny, allow) ==
    /\ deny.effect = "deny" /\ allow.effect = "allow"
    /\ Covers(deny.target, allow.target)
    /\ SetCovers(deny.actions, allow.actions)
    /\ SetCovers(deny.subjects, allow.subjects)
    /\ SetCovers(deny.purposes, allow.purposes)

AllowsAll(rule) ==
    /\ rule.effect = "allow" /\ rule.target = Star
    /\ rule.actions = {Star} /\ rule.subjects = {Star} /\ rule.purposes = {Star}

StaticFindings(rules, trusted) ==
    IF rules = {} THEN {[check |-> "empty_policy", id |-> "none"]}
    ELSE LET Flag(check, flagged) == {[check |-> check, id |-> rule.id] : rule \in flagged} IN
         Flag("untrusted_allow", {r \in rules : r.effect = "allow" /\ r.issuer \notin trusted})
         \cup Flag("allow_all", {r \in rules : AllowsAll(r)})
         \cup Flag("deny_shadows_allow", {r \in rules : \E d \in rules : Shadows(d, r)})

-----------------------------------------------------------------------------
(* bounded_model_check *)

(* An allow rule that matches requests of the space and wins none.         *)
ShadowedAllows(rules, trusted, space, t) ==
    LET MatchedBy(rule) ==
            {r \in space : rule.id \in EvaluateAt(rules, trusted, r, t).matched} IN
    {rule \in rules :
        /\ rule.effect = "allow"
        /\ MatchedBy(rule) # {}
        /\ \A r \in MatchedBy(rule) : ~EvaluateAt(rules, trusted, r, t).allowed}

-----------------------------------------------------------------------------
(* analyze_policy_bundle and audit_policy_bundles *)

(* _pattern_overlaps: equal, one of them "*", or the text of one matches   *)
(* the other, if one has a star.                                           *)
PatternOverlaps(a, b) ==
    \/ a = Star \/ b = Star \/ a = b
    \/ {a, b} \cap Starred # {} /\ (a \in Glob[b] \/ b \in Glob[a])

TupleOverlaps(a, b) == Star \in a \cup b \/ a \cap b # {}

ScopeOverlaps(a, b) ==
    /\ PatternOverlaps(a.target, b.target)
    /\ TupleOverlaps(a.actions, b.actions)
    /\ TupleOverlaps(a.purposes, b.purposes)

(* The findings that make an analysis fail. *)
ErrorFindings(rules, signer) ==
    LET Finding(code, ids) == [code |-> code, rules |-> ids] IN
    {Finding("rule_issuer_mismatch", {r.id}) : r \in {q \in rules : q.issuer # signer}}
    \cup {Finding("unknown_constraint", {r.id}) :
             r \in {q \in rules : ~(DOMAIN q.constraints \subseteq Supported)}}
    \cup {Finding("unknown_obligation", {r.id}) :
             r \in {q \in rules : ~(q.obligations \subseteq KnownObligations)}}
    \cup {Finding("conflicting_effect", {pair[1].id, pair[2].id}) :
             pair \in {p \in Conflicting(rules) : ScopeOverlaps(p[1], p[2])}}

(* policy_bundle_coverage: the engine gets every rule of the bundle, and   *)
(* trusts the signer alone.                                                *)
CoveragePasses(rules, signer, space, t) ==
    /\ \A rule \in rules : ValidRule(rule)
    /\ ShadowedAllows(rules, {signer}, space, t) = {}

(* One entry of an audit passes: analysis and coverage do.                 *)
AuditPasses(rules, signer, space, t) ==
    /\ ErrorFindings(rules, signer) = {}
    /\ CoveragePasses(rules, signer, space, t)

-----------------------------------------------------------------------------
(* explain_decision: the first reason that excludes a rule. *)
Exclusion(rule, trusted, request, t) ==
    IF ~MayCount(rule, trusted) THEN "untrusted_issuer"
    ELSE IF request.target \notin Glob[rule.target] THEN "target_mismatch"
    ELSE IF ~MatchesAny(rule.actions, request.action) THEN "action_mismatch"
    ELSE IF ~MatchesAny(rule.subjects, request.agent) THEN "subject_mismatch"
    ELSE IF ~MatchesAny(rule.purposes, request.purpose) THEN "purpose_mismatch"
    ELSE IF ~ConstraintsHold(rule, request, t) THEN "constraints_not_met"
    ELSE "applicable"

ExplainedApplicable(rules, trusted, request, t) ==
    {rule.id : rule \in {r \in rules : Exclusion(r, trusted, request, t) = "applicable"}}
=============================================================================
