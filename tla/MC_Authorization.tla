---------------------------- MODULE MC_Authorization ----------------------------
(***************************************************************************)
(* Three parts of authorization, which share no state: the policy engine   *)
(* behind its decision cache, capabilities handed on by delegation, and    *)
(* receipts as evidence.  A behaviour is one of one part; the others keep  *)
(* their initial state.                                                    *)
(***************************************************************************)
EXTENDS DecisionCache, Delegation, ReceiptEvidence

CONSTANTS u2, u3  \* two capabilities without obligations

VARIABLE part

-----------------------------------------------------------------------------
(* Decisions: "own" is trusted always and "other" sometimes; one rule has  *)
(* an unknown constraint.  Request q1 was issued a moment ago, q2 is from  *)
(* the future.                                                             *)

MCTexts == {"*", "open", "enter", "door-*", "door-1", "bot", "post"}

MCGlob == [p \in MCTexts |-> CASE p = "*"      -> MCTexts
                               [] p = "door-*" -> {"door-*", "door-1"}
                               [] OTHER        -> {p}]

MCNone == [x \in {} |-> 0]

MCRule(id, issuer, effect, target, actions, constraints) ==
    [id |-> id, issuer |-> issuer, effect |-> effect, target |-> target,
     actions |-> actions, subjects |-> {"*"}, purposes |-> {"post"},
     constraints |-> constraints, obligations |-> {}]

MCGrantRule == MCRule("grant", "own", "allow", "door-*", {"open"}, MCNone)

MCGuestRule == MCRule("guest", "other", "allow", "door-1", {"enter"},
                      [n \in {"max_force_newtons", "not_before"} |-> 1])

MCRulePool == {
    MCGrantRule,
    MCGuestRule,
    MCRule("shut", "own", "deny", "door-*", {"enter"}, MCNone),
    MCRule("odd", "own", "allow", "*", {"open"}, [n \in {"odd"} |-> 1])}

(* The engine starts with two rules and trusts "own"; in the other parts   *)
(* it has no rules.                                                        *)
MCFirstRules == {{}, {MCGrantRule, MCGuestRule}}

MCRequest(id, action, issued, context) ==
    [id |-> id, agent |-> "bot", target |-> "door-1", action |-> action,
     purpose |-> "post", issued |-> issued, context |-> context]

MCRequests == {MCRequest("q1", "open", -1, MCNone),
               MCRequest("q2", "enter", 1, [k \in {"force_newtons"} |-> 1])}

(* The request from the future is also asked about at its own time. *)
MCDated == {r \in MCRequests : r.id = "q2"} \X {1}

-----------------------------------------------------------------------------
(* Delegation: fnmatch lets "*" pass a slash and Go's path.Match does not. *)
(* A root of each version; and children signed by hand that are too wide   *)
(* in one respect each.                                                    *)

MCNames == {"hall-*", "hall-?", "hall-1", "hall-1/b", "bot", "aid", "cam", "lobby", "roof"}

MCMatching == [p \in MCNames |-> CASE p = "hall-*" -> {"hall-*", "hall-?", "hall-1", "hall-1/b"}
                                   [] p = "hall-?" -> {"hall-*", "hall-?", "hall-1"}
                                   [] OTHER        -> {p}]

MCGoMatching == [MCMatching EXCEPT !["hall-*"] = @ \ {"hall-1/b"}]

MCAsk(id, agent, target) ==
    [id |-> id, agent |-> agent, target |-> target, action |-> "open", purpose |-> "post"]

MCDecided == {MCAsk("r1", "bot", "hall-1"), MCAsk("r2", "aid", "hall-1"),
              MCAsk("r3", "bot", "hall-1/b")}

MCGrant(version, r, target, allowed, ttl) ==
    [version |-> version, request |-> r, target |-> target,
     actions |-> {"open", "close"}, purposes |-> {"post"}, tier |-> 1,
     allowed |-> allowed, maxDepth |-> IF allowed THEN 2 ELSE 0,
     allowlist |-> IF allowed THEN {"aid"} ELSE {}, ttl |-> ttl]

MCGrants == {
    MCGrant("0.1", MCAsk("r1", "bot", "hall-1"), "hall-1", FALSE, 2),
    MCGrant("0.2", MCAsk("r1", "bot", "hall-1"), "hall-?", TRUE, 3),
    MCGrant("1.0", MCAsk("r3", "bot", "hall-1/b"), "hall-*", FALSE, 2)}

MCLimit(name, bound) == [n \in {name} |-> bound]

MCAsIs ==
    [target |-> Same, actions |-> {}, purposes |-> {}, ttl |-> 0, limits |-> NoLimits,
     delegate |-> None, request |-> MCAsk("r2", "aid", "hall-1")]

MCNarrowings == {
    MCAsIs,
    [MCAsIs EXCEPT !.target = "hall-1", !.actions = {"open"},
                   !.limits = MCLimit("max_force_newtons", 2)],
    [MCAsIs EXCEPT !.limits = MCLimit("max_force_newtons", 3), !.target = "hall-*"],
    [MCAsIs EXCEPT !.limits = MCLimit("allowed_zones", {"lobby"}), !.delegate = "aid",
                   !.ttl = 1]}

MCTweaks == {
    [actions |-> {"open", "close", "lock"}], [until |-> 9], [root |-> 9], [tier |-> 0],
    [delegate |-> "cam", depth |-> 1, allowed |-> FALSE, maxDepth |-> 0, request |-> "r2"],
    [delegate |-> "aid", depth |-> 1, request |-> "r2"],
    [limits |-> MCLimit("max_force_newtons", 9)], [limits |-> MCLimit("max_force_newtons", Null)],
    [limits |-> MCLimit("max_torque", 1)],
    [allowed |-> TRUE, maxDepth |-> 0, depth |-> 1]}

-----------------------------------------------------------------------------
(* Evidence: one capability must be logged. *)

MCObligations == [u \in {"u1", u2, u3} |-> IF u = "u1" THEN {"log"} ELSE {}]

MCDeeds == [u \in {"u1", u2, u3} |->
               [agent |-> "bot", target |-> "door-1", purpose |-> "post",
                action |-> IF u = "u1" THEN "open" ELSE "enter"]]

MCFilters == {[f \in {"action"} |-> "enter"], [f \in {"since"} |-> 1],
              [f \in {"target", "until"} |-> IF f = "until" THEN 1 ELSE "door-1"]}

-----------------------------------------------------------------------------

Init ==
    /\ part \in {"decisions", "delegation", "evidence"}
    /\ CacheInit /\ DelegationInit /\ EvidenceInit
    /\ (rules # {}) = (part = "decisions") /\ trusted = {"own"}

Next ==
    /\ \/ part = "decisions" /\ CacheNext /\ UNCHANGED <<delegationVars, evidenceVars>>
       \/ part = "delegation" /\ DelegationNext /\ UNCHANGED <<cacheVars, evidenceVars>>
       \/ part = "evidence" /\ EvidenceNext /\ UNCHANGED <<cacheVars, delegationVars>>
    /\ UNCHANGED part

Spec == Init /\ [][Next]_<<part, cacheVars, delegationVars, evidenceVars>>

(* The type invariants of the parts with a state of their own. *)
AuthorizationTypeOK == CacheTypeOK /\ DelegationTypeOK /\ EvidenceTypeOK

(* Threads are interchangeable, in the cache and in the log, and so are    *)
(* the capabilities without obligations.                                   *)
Symmetry == Permutations(Callers \cup Writers) \cup Permutations({u2, u3})
=============================================================================
