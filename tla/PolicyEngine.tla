------------------------------ MODULE PolicyEngine ------------------------------
(***************************************************************************)
(* The policy engine (policy.py): which rules apply to a request at a      *)
(* time, and what the engine decides.  It is a function of its rules, its  *)
(* trusted issuers, the request and the time; DecisionCache is the state   *)
(* around it and PolicyAnalysis what is said of rules without a request.   *)
(*                                                                         *)
(* A pattern is a text, and Glob[p] the texts that fnmatchcase matches     *)
(* with p; patterns are texts themselves.  Constraints and the context of  *)
(* a request are functions from the names that are present.  A key of a    *)
(* required context has the set of its values, or NoValue for a null that  *)
(* is not in a list; no other constraint is null.  A request stands for    *)
(* its digest.  Obligations are left to compliance.                        *)
(***************************************************************************)
EXTENDS Integers, FiniteSets

CONSTANTS
    Texts,           \* patterns, names of agents, targets, actions, purposes, zones
    Star,            \* the pattern "*"
    Glob,            \* pattern -> the texts it matches
    NoValue,         \* None: a null, and what get gives for a key that is absent
    KnownActions,    \* the terms of the action vocabulary
    RequireKnown,    \* require_known_actions
    MaxAge,          \* request_max_age
    Skew             \* clock_skew

ASSUME EngineAssumption ==
    /\ Star \in Texts
    /\ Glob \in [Texts -> SUBSET Texts]
    /\ Glob[Star] = Texts
    /\ RequireKnown \in BOOLEAN
    /\ MaxAge \in Nat \ {0} /\ Skew \in Nat

Supported == {"not_before", "not_after", "required_context", "requires_human_present",
              "max_risk_tier", "max_force_newtons", "max_velocity_mps",
              "allowed_zones", "min_approval_tier"}

Limits == {"max_force_newtons", "max_velocity_mps"}

(* _validate_rule: what a rule must be to enter an engine. *)
ValidRule(rule) ==
    /\ DOMAIN rule.constraints \subseteq Supported
    /\ \A name \in DOMAIN rule.constraints :
          /\ name \in Limits => rule.constraints[name] >= 0
          /\ name = "allowed_zones" => rule.constraints[name] # {}
          /\ name = "min_approval_tier" => rule.constraints[name] \in 0 .. 2
    /\ RequireKnown => rule.actions \subseteq KnownActions

(* _matches *)
MatchesAny(patterns, text) == \E p \in patterns : text \in Glob[p]

-----------------------------------------------------------------------------
(* _constraints_hold *)

Has(rule, name) == name \in DOMAIN rule.constraints

InTime(rule, t) ==
    /\ Has(rule, "not_before") => t >= rule.constraints["not_before"]
    /\ Has(rule, "not_after") => t < rule.constraints["not_after"]

(* A key that is absent counts as null. *)
ValueOf(context, key) == IF key \in DOMAIN context THEN context[key] ELSE NoValue

Wanted(expected) == IF expected = NoValue THEN {NoValue} ELSE expected

(* Every required key has one of the values the rule names for it. *)
InContext(rule, context) ==
    Has(rule, "required_context") =>
        LET required == rule.constraints["required_context"] IN
        \A key \in DOMAIN required : ValueOf(context, key) \in Wanted(required[key])

Attended(rule, context) ==
    Has(rule, "requires_human_present") /\ rule.constraints["requires_human_present"] =>
        "human_present" \in DOMAIN context /\ context["human_present"]

WithinRisk(rule, context) ==
    Has(rule, "max_risk_tier") =>
        /\ "risk_tier" \in DOMAIN context
        /\ context["risk_tier"] <= rule.constraints["max_risk_tier"]

(* The request does not prove that it keeps the limit. *)
Exceeds(rule, context, limit, measure) ==
    /\ Has(rule, limit)
    /\ ~(measure \in DOMAIN context /\ context[measure] <= rule.constraints[limit])

TooMuch(rule, context) ==
    \/ Exceeds(rule, context, "max_force_newtons", "force_newtons")
    \/ Exceeds(rule, context, "max_velocity_mps", "velocity_mps")

InZone(rule, context) ==
    "zone" \in DOMAIN context /\ MatchesAny(rule.constraints["allowed_zones"], context["zone"])

(* An allow rule wants proof that its physical limits are kept; a deny     *)
(* rule that has some applies when they are not, or in one of its zones.   *)
PhysicalHolds(rule, context) ==
    IF rule.effect = "deny"
    THEN (\E name \in Limits \cup {"allowed_zones"} : Has(rule, name)) =>
             \/ TooMuch(rule, context)
             \/ Has(rule, "allowed_zones") /\ InZone(rule, context)
    ELSE /\ ~TooMuch(rule, context)
         /\ Has(rule, "allowed_zones") => InZone(rule, context)

ConstraintsHold(rule, request, t) ==
    /\ InTime(rule, t)
    /\ InContext(rule, request.context)
    /\ Attended(rule, request.context)
    /\ WithinRisk(rule, request.context)
    /\ PhysicalHolds(rule, request.context)

-----------------------------------------------------------------------------
(* evaluate *)

InScope(rule, request) ==
    /\ request.target \in Glob[rule.target]
    /\ MatchesAny(rule.actions, request.action)
    /\ MatchesAny(rule.subjects, request.agent)
    /\ MatchesAny(rule.purposes, request.purpose)

(* Rules of issuers that are not trusted may restrict but never grant. *)
MayCount(rule, trusted) == rule.effect = "allow" => rule.issuer \in trusted

Applies(rule, trusted, request, t) ==
    /\ MayCount(rule, trusted)
    /\ InScope(rule, request)
    /\ ConstraintsHold(rule, request, t)

Applicable(rules, trusted, request, t) ==
    {rule \in rules : Applies(rule, trusted, request, t)}

(* _policy_digest *)
Snapshot(rules, trusted) == [rules |-> rules, trusted |-> trusted]

Tier(rule) == IF Has(rule, "min_approval_tier") THEN rule.constraints["min_approval_tier"] ELSE 0

HighestTier(rules) ==
    LET tiers == {Tier(rule) : rule \in rules} IN
    CHOOSE tier \in tiers : \A other \in tiers : other <= tier

Answer(snapshot, request, allowed, reason, matched, tier) ==
    [policy |-> snapshot, request |-> request.id, allowed |-> allowed, reason |-> reason,
     matched |-> matched, tier |-> tier]

Freshness(request, t) ==
    IF RequireKnown /\ request.action \notin KnownActions THEN "unknown_action"
    ELSE IF request.issued > t + Skew THEN "future_request"
    ELSE IF t - request.issued > MaxAge THEN "stale_request"
    ELSE "fresh"

(* A deny that applies wins over every allow, and no rule means no. *)
EvaluateAt(rules, trusted, request, t) ==
    LET policy == Snapshot(rules, trusted)
        applicable == Applicable(rules, trusted, request, t)
        matched == {rule.id : rule \in applicable}
        denies == {rule \in applicable : rule.effect = "deny"} IN
    IF Freshness(request, t) # "fresh"
    THEN Answer(policy, request, FALSE, Freshness(request, t), {}, 0)
    ELSE IF denies # {} THEN Answer(policy, request, FALSE, "explicit_deny", matched, 0)
    ELSE IF applicable = {} THEN Answer(policy, request, FALSE, "default_deny", {}, 0)
    ELSE Answer(policy, request, TRUE, "explicit_allow", matched, HighestTier(applicable))
=============================================================================
