------------------------------ MODULE MC_Policies ------------------------------
(***************************************************************************)
(* Policies and requests from outside, in two parts that share no state:   *)
(* the service's policy.json, saved while requests reload it               *)
(* (PolicyReload); and documents, terms and calls that adapters translate  *)
(* (Adapters): bundles written as ODRL documents, documents and terms read *)
(* as rules, constraints added and fields left out, and requests over five *)
(* transports.  A behaviour is one of one part.                            *)
(***************************************************************************)
EXTENDS PolicyReload, Adapters

VARIABLE part

-----------------------------------------------------------------------------
(* Adapters *)

MCTexts == {"*", "open", "enter", "door-*", "door-1", "door-2", "bot", "post", "read", "observe"}

MCGlob == [p \in MCTexts |-> CASE p = "*"      -> MCTexts
                               [] p = "door-*" -> {"door-*", "door-1", "door-2"}
                               [] OTHER        -> {p}]

MCNone == [x \in {} |-> 0]

MCRequest(id, action, issued, context) ==
    [id |-> id, agent |-> "bot", target |-> "door-1", action |-> action,
     purpose |-> "post", issued |-> issued, context |-> context]

(* Rules of the publisher and of another, one that cannot be written, one  *)
(* whose action is read as another, one with a key that has a path, two    *)
(* with nulls; documents by hand.                                          *)

MCActionName == [a \in MCTexts \cup {"emitActionReceipt", "odd"} |->
                    IF a = "read" THEN "observe" ELSE a]

MCLastPart == [n \in {"maxForceNewtons", "maxVelocityMps", "allowedZones", "minApprovalTier",
                      "dateTime", "purpose", "lt", "lteq", "gt", "gteq", "eq", "isA", "neq",
                      "badge", "zone", "", "x/", "x/badge", "odrl/dateTime", "odrl/lteq"} |->
                  CASE n = "x/"            -> ""
                    [] n = "x/badge"       -> "badge"
                    [] n = "odrl/dateTime" -> "dateTime"
                    [] n = "odrl/lteq"     -> "lteq"
                    [] OTHER               -> n]

MCOffer(id, issuer, effect, actions, purposes, constraints, obligations) ==
    [id |-> id, issuer |-> issuer, effect |-> effect, target |-> "door-*",
     actions |-> actions, subjects |-> {"*"}, purposes |-> purposes,
     constraints |-> constraints, obligations |-> obligations]

MCBadges == [k \in {"badge", "zone"} |-> IF k = "badge" THEN {"post"} ELSE {"door-1"}]

MCPhysical ==
    [n \in {"max_force_newtons", "allowed_zones", "min_approval_tier"} |->
        CASE n = "max_force_newtons" -> 1 [] n = "allowed_zones" -> {"door-*"} [] OTHER -> 2]

MCContext(key, value) == [n \in {"required_context"} |-> [k \in {key} |-> value]]

MCOfferable == {
    MCOffer("grant", "own", "allow", {"open"}, {"*"}, MCNone, {"emitActionReceipt"}),
    MCOffer("window", "own", "allow", {"*"}, {"*"}, [n \in {"not_before", "not_after"} |->
                                                       IF n = "not_before" THEN 1 ELSE 2], {}),
    MCOffer("limited", "own", "allow", {"open"}, {"*"}, MCPhysical, {}),
    MCOffer("badge", "own", "deny", {"open"}, {"*"}, [n \in {"required_context"} |-> MCBadges], {}),
    MCOffer("forced", "own", "deny", {"open"}, {"*"}, [n \in {"max_force_newtons"} |-> 1], {}),
    MCOffer("pathed", "own", "deny", {"open"}, {"*"}, MCContext("x/badge", {"post"}), {}),
    MCOffer("bare", "own", "allow", {"open"}, {"*"}, MCContext("badge", NoValue), {}),
    MCOffer("absent", "own", "deny", {"open"}, {"*"}, MCContext("badge", {NoValue}), {}),
    MCOffer("post", "other", "deny", {"open"}, {"post"}, [n \in {"not_after"} |-> 1], {}),
    MCOffer("guest", "own", "allow", {"open"}, {"post"}, MCNone, {}),
    MCOffer("lent", "other", "allow", {"open"}, {"*"}, MCNone, {}),
    MCOffer("view", "own", "deny", {"read"}, {"*"}, MCNone, {}),
    MCOffer("seen", "own", "allow", {"open"}, {"*"}, [n \in {"requires_human_present"} |-> TRUE], {}),
    MCOffer("odd", "own", "allow", {"open"}, {"*"}, MCNone, {"odd"})}

MCStatement(assignee, action, constraint, duty, unknown) ==
    [target |-> "door-*", assigner |-> Inherited, assignee |-> assignee, action |-> action,
     constraint |-> constraint, duty |-> duty, unknown |-> unknown]

MCDocument(profile, permission, prohibition, combinations) ==
    [profile |-> profile, assigner |-> "other", permission |-> permission,
     prohibition |-> prohibition, combinations |-> combinations]

MCCombination(id, window) ==
    [id |-> id, patterns |-> {<<"open", "door-*">>, <<"enter", "*">>}, window |-> window,
     trigger |-> {<<"enter", "*">>}]

MCBarred == {MCCombination("within", {1}), MCCombination("ever", {})}

MCAnyOpen == MCStatement({"*"}, {"open"}, <<>>, {}, FALSE)

MCDrafts == {
    MCDocument(Kgp, <<MCAnyOpen>>, <<MCAnyOpen>>, {}),
    MCDocument("other", <<MCAnyOpen>>, <<MCStatement({"bot"}, {"read"}, <<>>, {}, FALSE)>>, {}),
    MCDocument("other", <<MCAnyOpen>>, <<>>, MCBarred),
    MCDocument(Kgp, <<MCAnyOpen>>, <<>>, {MCCombination("never", {0})}),
    MCDocument(Kgp, <<MCStatement(Implicit, {"open"}, <<>>, {}, FALSE)>>, <<>>, {}),
    MCDocument(Kgp, <<MCStatement({"*"}, {"open"}, <<>>, {"odd"}, FALSE)>>, <<>>, {}),
    MCDocument(Kgp, <<MCStatement({"*"}, {"open"}, <<>>, {}, TRUE)>>, <<>>, {})}

MCInsertions == {
    Item("dateTime", "lteq", 1), Item("dateTime", "lt", 3), Item("dateTime", "gteq", 1),
    Item("dateTime", "eq", {1}), Item("purpose", "isA", {"post"}), Item("purpose", "lt", {"post"}),
    Item("maxForceNewtons", "lteq", 1), Item("maxForceNewtons", "eq", -1),
    Item("maxVelocityMps", "gt", 1), Item("allowedZones", "eq", {}),
    Item("minApprovalTier", "eq", 3), Item("badge", "eq", {"post"}), Item("badge", "neq", {"post"}),
    Item("odrl/dateTime", "odrl/lteq", 1), Item("x/badge", "eq", {NoValue}),
    Item("x/", "eq", {"post"}), Item("dateTime", "lt", NoValue)}

MCSituations == {MCNone, [k \in {"force_newtons"} |-> 2],
                 [k \in {"force_newtons", "zone", "badge"} |->
                     CASE k = "force_newtons" -> 1 [] k = "zone" -> "door-1" [] OTHER -> "post"]}

MCAsked == {[MCRequest(<<context, purpose>>, action, t, context) EXCEPT !.purpose = purpose] :
               context \in MCSituations, purpose \in {"post", "bot"},
               action \in {"open", "read"}, t \in {1}} \X (0 .. 2)

(* Terms: an allow that ends, and a deny within it; or a term that has a   *)
(* field nobody knows.                                                     *)
MCAllowTerm ==
    [f \in {"action", "effect", "target", "agents", "purposes", "constraints"} |->
        CASE f = "action" -> "open" [] f = "effect" -> "allow" [] f = "target" -> "door-*"
          [] f = "agents" -> {"bot"} [] f = "purposes" -> {"post"}
          [] OTHER -> [n \in {"not_after"} |-> 2]]

MCDenyTerm ==
    [f \in {"action", "effect", "target", "agents", "purposes", "obligations"} |->
        CASE f = "action" -> "open" [] f = "effect" -> "deny" [] f = "target" -> "door-1"
          [] f = "agents" -> {"bot"} [] f = "purposes" -> {"post"} [] OTHER -> {}]

MCOddTerm == [f \in {"action", "odd"} |-> "open"]

MCTermSheets ==
    {[issuer |-> "own", target |-> target, terms |-> <<MCAllowTerm, term>>] :
        target \in {Unsaid, "door-1", "door-2"}, term \in {MCDenyTerm, MCOddTerm}}

MCSupplied == {MCNone, [k \in {"transport"} |-> "mcp"], [k \in {"namespace"} |-> "mcp"],
               [k \in {"force_newtons"} |-> 1]}

MCCalls == [via : DOMAIN System, supplied : MCSupplied,
            request : {MCRequest("q3", action, 0, MCNone) : action \in {"open", "enter"}}]

-----------------------------------------------------------------------------

Init ==
    /\ part \in {"reload", "exchange"}
    /\ ReloadInit /\ ExchangeInit

Next ==
    /\ \/ part = "reload" /\ ReloadNext /\ UNCHANGED exchangeVars
       \/ part = "exchange" /\ ExchangeNext /\ UNCHANGED reloadVars
    /\ UNCHANGED part

Spec == Init /\ [][Next]_<<part, reloadVars, exchangeVars>>
================================================================================
