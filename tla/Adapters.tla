-------------------------------- MODULE Adapters --------------------------------
(***************************************************************************)
(* Policies and requests from outside (adapters/).  The rules of a signed  *)
(* bundle are written as an ODRL document (bundle_to_odrl), which somebody *)
(* may edit or write from nothing, and which an engine reads back as rules *)
(* and as forbidden combinations; a terms document becomes rules, also     *)
(* when its author leaves a field out; and a call over some transport      *)
(* becomes a request whose context the caller adds to.  What an adapter    *)
(* cannot map it refuses.                                                  *)
(*                                                                         *)
(* A statement keeps the order of its constraints, of which a later one    *)
(* replaces an earlier one of its kind.  The right operand of a constraint *)
(* on time, force, velocity or tier is a number and of any other the set   *)
(* of its values.  A combination is in the form in which it is read.  A    *)
(* term is a function from the fields it has.  The statements of an effect *)
(* are a function from their places, which in an exported document are     *)
(* those of their rules in the bundle.                                     *)
(***************************************************************************)
EXTENDS PolicyAnalysis, Sequences

CONSTANTS
    LastPart,      \* name of an operand or an operator -> its part after the last slash
    ActionName,    \* text -> what _action makes of it: aliases, the last part of a path
    Publisher,     \* the issuer of bundles, and the assigner of documents
    Offerable,     \* rules that a bundle may hold
    Drafts,        \* documents that are written by hand
    Insertions,    \* constraints that are added by hand
    Barred,        \* forbidden combinations that may be written
    TermSheets,    \* terms documents
    Calls,         \* calls over a transport, with the context the caller adds
    Described,     \* actions of the WoT description
    Asked,         \* pairs of a request and a time
    MaxOffered,    \* bound on the rules of a bundle
    MaxEdits       \* bound on the constraints added

(* The operands and operators that are read as more than a key. *)
OdrlNames == {"maxForceNewtons", "maxVelocityMps", "allowedZones", "minApprovalTier",
              "dateTime", "purpose", "lt", "lteq", "gt", "gteq", "eq", "isA"}

Item(left, op, right) == [left |-> left, op |-> op, right |-> right]

(* An operand and an operator are read without their path. *)
Cut(item) == Item(LastPart[item.left], LastPart[item.op], item.right)

CutAll(items) == [i \in DOMAIN items |-> Cut(items[i])]

ItemShaped(item) ==
    /\ {item.left, item.op} \subseteq DOMAIN LastPart
    /\ Cut(item).left = "dateTime" /\ Cut(item).op \in {"lt", "lteq", "gt", "gteq"} =>
          item.right \in Int \cup {NoValue}

RequestShaped(request) ==
    /\ {"target", "action", "agent", "purpose", "issued", "context"} \subseteq DOMAIN request
    /\ {request.target, request.action, request.agent, request.purpose} \subseteq Texts
    /\ request.issued \in Int

(* What PolicyRule and ForbiddenCombination require, and the forms above;  *)
(* the known obligations have no aliases.                                  *)
ASSUME ExchangeAssumption ==
    /\ Texts \subseteq DOMAIN ActionName
    /\ OdrlNames \subseteq DOMAIN LastPart
    /\ \A name \in OdrlNames : LastPart[name] = name
    /\ \A name \in DOMAIN LastPart :
          LastPart[name] \in DOMAIN LastPart /\ LastPart[LastPart[name]] = LastPart[name]
    /\ \A obligation \in KnownObligations : ActionName[obligation] = obligation
    /\ MaxOffered \in Nat /\ MaxEdits \in Nat
    /\ \A rule \in Offerable :
          /\ DOMAIN rule = {"id", "issuer", "effect", "target", "actions", "subjects",
                            "purposes", "constraints", "obligations"}
          /\ rule.actions # {} /\ rule.subjects # {} /\ rule.purposes # {}
          /\ rule.effect \in {"allow", "deny"}
          /\ \A name \in DOMAIN rule.constraints \cap {"not_before", "not_after"} :
                rule.constraints[name] \in Int
          /\ \A name \in DOMAIN rule.constraints : rule.constraints[name] # NoValue
          /\ "required_context" \in DOMAIN rule.constraints =>
                /\ IsFiniteSet(DOMAIN rule.constraints["required_context"])
                /\ DOMAIN rule.constraints["required_context"] \subseteq DOMAIN LastPart
    /\ \A c \in Barred : c.patterns # {} /\ \A seconds \in c.window : seconds >= 1
    /\ \A item \in Insertions : ItemShaped(item)
    /\ \A doc \in Drafts :
          /\ DOMAIN doc = {"profile", "assigner", "combinations", "permission", "prohibition"}
          /\ \A s \in {doc.permission[i] : i \in DOMAIN doc.permission}
                     \cup {doc.prohibition[i] : i \in DOMAIN doc.prohibition} :
                /\ DOMAIN s = {"target", "assigner", "assignee", "action", "constraint",
                               "duty", "unknown"}
                /\ s.constraint \in Seq({s.constraint[k] : k \in DOMAIN s.constraint})
                /\ \A k \in DOMAIN s.constraint : ItemShaped(s.constraint[k])
    /\ \A doc \in TermSheets : DOMAIN doc = {"issuer", "target", "terms"}
    /\ \A via \in {"mcp", "ros2", "wot", "opcua", "matter"} : NoValue # {via}
    /\ \A call \in Calls :
          /\ call.via \in {"mcp", "ros2", "wot", "opcua", "matter"}
          /\ RequestShaped(call.request)
    /\ \A asked \in Asked : RequestShaped(asked[1]) /\ asked[2] \in Int

VARIABLES
    offered,    \* the rules of the bundle, in order
    combined,   \* the combinations written with them
    document,   \* the ODRL document there is, or none
    byHand,     \* the document was written by hand
    edits,      \* the number of constraints added
    terms,      \* the terms document there is, or none
    fuller,     \* history: as it was before fields were left out
    called      \* the request that an adapter made, or none

exchangeVars == <<offered, combined, document, byHand, edits, terms, fuller, called>>

NoDocument == [profile |-> "none"]
NoTerms == [issuer |-> "none"]
NoCallMade == [via |-> "none"]
Unsaid == "unsaid"
Kgp == "kgp"
Inherited == "inherited"  \* a statement without an assigner of its own
Implicit == {}            \* a statement without an assignee

-----------------------------------------------------------------------------
(* Reading: _constraints, of items whose operands and operators are cut *)

Bounds == [maxForceNewtons |-> "max_force_newtons", maxVelocityMps |-> "max_velocity_mps",
           allowedZones |-> "allowed_zones", minApprovalTier |-> "min_approval_tier"]

Before == {"lt", "lteq"}
After == {"gt", "gteq"}

IsTime(item) == item.left = "dateTime" /\ item.op \in Before \cup After
IsPurpose(item) == item.left = "purpose" /\ item.op \in {"eq", "isA"}
IsBound(item) == item.left \in DOMAIN Bounds

Comparable(item) ==
    CASE Bounds[item.left] \in Limits         -> item.op \in {"eq", "lteq"} /\ item.right >= 0
      [] Bounds[item.left] = "allowed_zones"  -> item.op = "eq" /\ item.right # {}
      [] OTHER                                -> item.op = "eq" /\ item.right \in 0 .. 2

(* A null is refused, and anything else that would be dropped. *)
ReadableItem(item, profile) ==
    /\ item.right # NoValue
    /\ IF IsBound(item) THEN profile = Kgp /\ Comparable(item)
       ELSE IsTime(item) \/ IsPurpose(item)
            \/ (item.op = "eq" /\ item.left \notin {"purpose", ""})

Kind(item) ==
    CASE IsPurpose(item) -> "purposes"
      [] IsTime(item)    -> IF item.op \in Before THEN "not_after" ELSE "not_before"
      [] IsBound(item)   -> Bounds[item.left]
      [] OTHER           -> "required_context"

(* The items of one kind; the last of some items. *)
OfKind(items, kind) == {i \in DOMAIN items : Kind(items[i]) = kind}
LastOf(places) == CHOOSE i \in places : \A j \in places : j <= i

RequiredContext(items) ==
    LET places == OfKind(items, "required_context") IN
    [key \in {items[i].left : i \in places} |->
        items[LastOf({i \in places : items[i].left = key})].right]

ReadConstraints(items) ==
    [kind \in {Kind(items[i]) : i \in DOMAIN items} \ {"purposes"} |->
        IF kind = "required_context" THEN RequiredContext(items)
                                     ELSE items[LastOf(OfKind(items, kind))].right]

ReadPurposes(items) ==
    IF OfKind(items, "purposes") = {} THEN {Star}
    ELSE UNION {items[i].right : i \in OfKind(items, "purposes")}

-----------------------------------------------------------------------------
(* Reading: odrl_to_rules and odrl_forbidden_combinations *)

ReadableStatement(statement, profile) ==
    /\ ~statement.unknown
    /\ statement.assignee # Implicit
    /\ statement.action # {}
    /\ \A i \in DOMAIN statement.constraint :
          ReadableItem(Cut(statement.constraint[i]), profile)
    /\ {ActionName[duty] : duty \in statement.duty} \subseteq KnownObligations

ReadStatement(statement, effect, index, assigner) ==
    [id |-> <<effect, index>>,
     issuer |-> IF statement.assigner = Inherited THEN assigner ELSE statement.assigner,
     effect |-> effect, target |-> statement.target,
     actions |-> {ActionName[action] : action \in statement.action},
     subjects |-> statement.assignee,
     purposes |-> ReadPurposes(CutAll(statement.constraint)),
     constraints |-> ReadConstraints(CutAll(statement.constraint)),
     obligations |-> {ActionName[duty] : duty \in statement.duty}]

StatementsOf(doc, effect) == IF effect = "allow" THEN doc.permission ELSE doc.prohibition

AllStatements(doc) ==
    UNION {{StatementsOf(doc, effect)[i] : i \in DOMAIN StatementsOf(doc, effect)} :
               effect \in {"allow", "deny"}}

(* A combination is read only under the profile, by either reader. *)
ReadsRules(doc) ==
    /\ doc.combinations # {} => doc.profile = Kgp
    /\ \A s \in AllStatements(doc) : ReadableStatement(s, doc.profile)

RulesRead(doc) ==
    UNION {{ReadStatement(StatementsOf(doc, effect)[i], effect, i, doc.assigner) :
               i \in DOMAIN StatementsOf(doc, effect)} : effect \in {"allow", "deny"}}

ReadsCombinations(doc) ==
    /\ doc.combinations # {} => doc.profile = Kgp
    /\ \A c \in doc.combinations : c.patterns # {} /\ \A seconds \in c.window : seconds >= 1

CombinationsRead(doc) == doc.combinations

-----------------------------------------------------------------------------
(* Writing: rules_to_odrl and bundle_to_odrl *)

Operand == [
    max_force_newtons |-> [left |-> "maxForceNewtons", op |-> "eq"],
    max_velocity_mps  |-> [left |-> "maxVelocityMps", op |-> "eq"],
    allowed_zones     |-> [left |-> "allowedZones", op |-> "eq"],
    min_approval_tier |-> [left |-> "minApprovalTier", op |-> "eq"],
    not_before        |-> [left |-> "dateTime", op |-> "gt"],
    not_after         |-> [left |-> "dateTime", op |-> "lt"]]

ConstraintTowardsLater(name, value) ==
    IF name = "required_context"
    THEN {Item(key, "eq", value[key]) : key \in DOMAIN value}
    ELSE {Item(Operand[name].left, IF name = "not_after" THEN "gt" ELSE Operand[name].op, value)}

(* _constraint_to_odrl; a context is written key by key. *)
WriteConstraint(name, value) ==
    IF name = "required_context"
    THEN {Item(key, "eq", value[key]) : key \in DOMAIN value}
    ELSE {Item(Operand[name].left, Operand[name].op, value)}

Writable(rule) ==
    /\ DOMAIN rule.constraints \subseteq DOMAIN Operand \cup {"required_context"}
    /\ rule.obligations \subseteq KnownObligations

InSomeOrder(items) ==
    CHOOSE list \in [1 .. Cardinality(items) -> items] :
        \A i, j \in DOMAIN list : list[i] = list[j] => i = j

(* Neither the purposes of a rule nor its issuer are written. *)
WriteRule(rule) ==
    [target |-> rule.target, assigner |-> Inherited, assignee |-> rule.subjects,
     action |-> rule.actions, duty |-> rule.obligations, unknown |-> FALSE,
     constraint |-> InSomeOrder(UNION {WriteConstraint(name, rule.constraints[name]) :
                                          name \in DOMAIN rule.constraints})]

WriteEffect(rules, effect) ==
    [i \in {j \in DOMAIN rules : rules[j].effect = effect} |-> WriteRule(rules[i])]

WriteOffer(rules, combinations) ==
    [profile |-> Kgp, assigner |-> Publisher, combinations |-> combinations,
     permission |-> WriteEffect(rules, "allow"), prohibition |-> WriteEffect(rules, "deny")]

-----------------------------------------------------------------------------
(* Terms: myterms_to_rules.  What a deny term leaves out is anything; an   *)
(* allow term must say whom, where and what for.                           *)

TermFields == {"action", "effect", "target", "agents", "purposes", "constraints", "obligations"}

Said(term, name, default) == IF name \in DOMAIN term THEN term[name] ELSE default

ReadableTerm(doc, term) ==
    /\ DOMAIN term \subseteq TermFields
    /\ "action" \in DOMAIN term
    /\ Said(term, "effect", "deny") \in {"allow", "deny"}
    /\ Said(term, "effect", "deny") = "allow" =>
          /\ "target" \in DOMAIN term \/ doc.target # Unsaid
          /\ {"agents", "purposes"} \subseteq DOMAIN term
    /\ DOMAIN Said(term, "constraints", <<>>) \subseteq Supported
    /\ Said(term, "agents", {Star}) # {} /\ Said(term, "purposes", {Star}) # {}

ReadTerm(doc, i) ==
    LET term == doc.terms[i] IN
    [id |-> <<"term", i>>, issuer |-> doc.issuer,
     effect |-> Said(term, "effect", "deny"),
     target |-> Said(term, "target", IF doc.target = Unsaid THEN Star ELSE doc.target),
     actions |-> {term["action"]},
     subjects |-> Said(term, "agents", {Star}),
     purposes |-> Said(term, "purposes", {Star}),
     constraints |-> Said(term, "constraints", <<>>),
     obligations |-> Said(term, "obligations", {})]

ReadsTerms(doc) == \A i \in DOMAIN doc.terms : ReadableTerm(doc, doc.terms[i])

TermRules(doc) == {ReadTerm(doc, i) : i \in DOMAIN doc.terms}

-----------------------------------------------------------------------------
(* Calls.  Each adapter says some keys of the context itself, and refuses  *)
(* a caller that says one of them; WoT knows the actions of the thing.     *)

McpSystem == [transport |-> "mcp", adapter_profile |-> "mcp-tool-v0.1", server_uri |-> "uri"]
RosSystem == [transport |-> "ros2", adapter_profile |-> "ros2-action-v0.1", namespace |-> "/"]
WotSystem == [transport |-> "wot", adapter_profile |-> "wot-action-v0.1"]
OpcUaSystem == [transport |-> "opcua", adapter_profile |-> "opcua-method-v0.1"]
MatterSystem == [transport |-> "matter", adapter_profile |-> "matter-command-v0.1"]

System == [mcp |-> McpSystem, ros2 |-> RosSystem, wot |-> WotSystem,
           opcua |-> OpcUaSystem, matter |-> MatterSystem]

Accepted(call) ==
    /\ DOMAIN call.supplied \cap DOMAIN System[call.via] = {}
    /\ call.via = "wot" => call.request.action \in Described

(* trusted_context: the adapter's keys beside the caller's. *)
TrustedContext(system, supplied) ==
    [key \in DOMAIN supplied \cup DOMAIN system |->
        IF key \in DOMAIN system THEN system[key] ELSE supplied[key]]

RequestOf(call) ==
    [call.request EXCEPT !.context = TrustedContext(System[call.via], call.supplied)]

-----------------------------------------------------------------------------
(* A bundle grows until it is written; then its document may be edited. *)

ExchangeInit ==
    /\ offered = <<>> /\ combined = {}
    /\ document = NoDocument
    /\ byHand = FALSE /\ edits = 0
    /\ terms = NoTerms /\ fuller = NoTerms
    /\ called = NoCallMade

Untouched == offered = <<>> /\ document = NoDocument /\ terms = NoTerms /\ called = NoCallMade

Offer(rule) ==
    /\ document = NoDocument /\ terms = NoTerms /\ called = NoCallMade
    /\ Len(offered) < MaxOffered
    /\ offered' = Append(offered, rule)
    /\ UNCHANGED <<combined, document, byHand, edits, terms, fuller, called>>

(* Nothing is written unless everything can be. *)
Export(combinations) ==
    /\ document = NoDocument /\ offered # <<>>
    /\ \A i \in DOMAIN offered : Writable(offered[i])
    /\ document' = WriteOffer(offered, combinations)
    /\ combined' = combinations
    /\ UNCHANGED <<offered, byHand, edits, terms, fuller, called>>

WriteByHand(doc) ==
    /\ Untouched
    /\ document' = doc
    /\ byHand' = TRUE
    /\ UNCHANGED <<offered, combined, edits, terms, fuller, called>>

Adding(item, statements) ==
    [i \in DOMAIN statements |-> [statements[i] EXCEPT !.constraint = Append(@, item)]]

(* Somebody adds a constraint to each statement. *)
Edit(item) ==
    /\ document # NoDocument /\ edits < MaxEdits
    /\ document' = [document EXCEPT !.permission = Adding(item, @),
                                    !.prohibition = Adding(item, @)]
    /\ edits' = edits + 1
    /\ UNCHANGED <<offered, combined, byHand, terms, fuller, called>>

ReceiveTerms(doc) ==
    /\ Untouched
    /\ terms' = doc /\ fuller' = doc
    /\ UNCHANGED <<offered, combined, document, byHand, edits, called>>

LeaveOut(i, name) ==
    /\ edits < MaxEdits
    /\ LET term == terms.terms[i] IN
       terms' = [terms EXCEPT !.terms[i] = [f \in DOMAIN term \ {name} |-> term[f]]]
    /\ edits' = edits + 1
    /\ UNCHANGED <<offered, combined, document, byHand, fuller, called>>

Request(call) ==
    /\ Untouched /\ Accepted(call)
    /\ called' = call
    /\ UNCHANGED <<offered, combined, document, byHand, edits, terms, fuller>>

ExchangeNext ==
    \/ \E rule \in Offerable : Offer(rule)
    \/ \E combinations \in SUBSET Barred : Export(combinations)
    \/ \E doc \in Drafts : WriteByHand(doc)
    \/ \E item \in Insertions : Edit(item)
    \/ \E doc \in TermSheets : ReceiveTerms(doc)
    \/ terms # NoTerms /\ \E i \in DOMAIN terms.terms :
          \E name \in DOMAIN terms.terms[i] \ {"constraints"} : LeaveOut(i, name)
    \/ \E call \in Calls : Request(call)

ExchangeSpec == ExchangeInit /\ [][ExchangeNext]_exchangeVars

-----------------------------------------------------------------------------
(* Properties *)

(* What a constraint says, by ODRL: all those of a statement must hold.    *)
(* Its operand and operator are cut, and an absent key counts as null.     *)
Holds(item, request, t) ==
    CASE IsPurpose(item) -> MatchesAny(item.right, request.purpose)
      [] item.left = "dateTime" /\ item.op = "lt"   -> t < item.right
      [] item.left = "dateTime" /\ item.op = "lteq" -> t <= item.right
      [] item.left = "dateTime" /\ item.op = "gt"   -> t > item.right
      [] item.left = "dateTime" /\ item.op = "gteq" -> t >= item.right
      [] item.left = "maxForceNewtons" ->
            "force_newtons" \in DOMAIN request.context
            /\ request.context["force_newtons"] <= item.right
      [] item.left = "maxVelocityMps" ->
            "velocity_mps" \in DOMAIN request.context
            /\ request.context["velocity_mps"] <= item.right
      [] item.left = "allowedZones" ->
            "zone" \in DOMAIN request.context
            /\ MatchesAny(item.right, request.context["zone"])
      [] item.left = "minApprovalTier" -> TRUE  \* asks for an approval, and denies nothing
      [] OTHER -> ValueOf(request.context, item.left) \in item.right

(* No two constraints of a kind, and no time that is the very instant.     *)
Unambiguous(items, t) ==
    /\ \A i, j \in DOMAIN items :
          Kind(items[i]) = Kind(items[j]) /\ items[i].left = items[j].left => i = j
    /\ \A i \in DOMAIN items : IsTime(items[i]) => items[i].right # t

(* A rule whose document says all of it: its issuer is the publisher, it   *)
(* is for any purpose, its actions are read as they are written, and so is *)
(* its context: no key has a path or is an operand with a meaning of its   *)
(* own, and no value is a null that is not in a list.                      *)
Expressible(rule) ==
    /\ rule.issuer = Publisher
    /\ rule.purposes = {Star}
    /\ \A action \in rule.actions : ActionName[action] = action
    /\ Has(rule, "required_context") =>
          LET required == rule.constraints["required_context"] IN
          \A key \in DOMAIN required :
              /\ LastPart[key] = key
              /\ key \notin {"purpose", ""} \cup DOMAIN Bounds
              /\ required[key] # NoValue

SameDecision(one, other) == one.allowed = other.allowed /\ one.tier = other.tier
                            /\ one.reason = other.reason

SourceRules == {offered[i] : i \in DOMAIN offered}

(* A rule that an engine accepts, without a key that is read as a limit or *)
(* as nothing, and without a null that is not in a list.                   *)
ReadableBack(rule) ==
    /\ ValidRule(rule)
    /\ Has(rule, "required_context") =>
          LET required == rule.constraints["required_context"] IN
          \A key \in DOMAIN required :
              LastPart[key] \notin {""} \cup DOMAIN Bounds /\ required[key] # NoValue

(* What an exported document that nobody edited says of a request. *)
RoundTripKeeps(request, t) ==
    LET rules == SourceRules
        before == EvaluateAt(rules, {Publisher}, request, t)
        after == EvaluateAt(RulesRead(document), {Publisher}, request, t) IN
    /\ (\A rule \in rules : Expressible(rule)) => SameDecision(before, after)
    /\ /\ \A rule \in rules : Expressible([rule EXCEPT !.issuer = Publisher, !.purposes = {Star}])
       /\ before.reason = "explicit_deny"
       => after.reason = "explicit_deny"

(* What a statement says of a request; but not a prohibition with physical *)
(* limits, which the engine applies beyond the limit.                      *)
StatementSays(rule, items, request, t) ==
    /\ Unambiguous(items, t)
    /\ rule.effect = "deny" => ~\E k \in DOMAIN items : IsBound(items[k])
    => (/\ MatchesAny(rule.purposes, request.purpose)
        /\ ConstraintsHold(rule, request, t)
        <=> \A k \in DOMAIN items : Holds(items[k], request, t))

(* The field left out of a term is not its target when the document has    *)
(* a target, which then takes the place.                                   *)
TargetsKept ==
    fuller.target = Unsaid
    \/ \A i \in DOMAIN terms.terms :
          "target" \in DOMAIN fuller.terms[i] => "target" \in DOMAIN terms.terms[i]

RequiresTransport(via) ==
    [id |-> via, issuer |-> Publisher, effect |-> "allow", target |-> Star, actions |-> {Star},
     subjects |-> {Star}, purposes |-> {Star}, obligations |-> {},
     constraints |-> [n \in {"required_context"} |-> [k \in {"transport"} |-> {via}]]]

(* An exported document that nobody edited. *)
ExportsKeepMeaning ==
    document # NoDocument /\ ~byHand /\ edits = 0 =>
        /\ (\A rule \in SourceRules : ReadableBack(rule)) => ReadsRules(document)
        /\ ReadsCombinations(document)
        /\ CombinationsRead(document) = combined
        /\ \A asked \in Asked : RoundTripKeeps(asked[1], asked[2])

(* A statement of a document, whoever wrote it. *)
StatementsKeepMeaning ==
    document # NoDocument /\ ReadsRules(document) =>
        \A effect \in {"allow", "deny"} : \A i \in DOMAIN StatementsOf(document, effect) :
            LET statement == StatementsOf(document, effect)[i]
                rule == ReadStatement(statement, effect, i, document.assigner) IN
            /\ (RequireKnown => rule.actions \subseteq KnownActions) => ValidRule(rule)
            /\ \A asked \in Asked :
                  StatementSays(rule, CutAll(statement.constraint), asked[1], asked[2])

(* A terms document from which fields are left out. *)
TermsKeepMeaning ==
    terms # NoTerms /\ ReadsTerms(fuller) /\ ReadsTerms(terms) /\ TargetsKept =>
        \A asked \in Asked :
            LET Allowed(doc) ==
                    EvaluateAt(TermRules(doc), {doc.issuer}, asked[1], asked[2]).allowed IN
            Allowed(terms) => Allowed(fuller)

(* A call, and rules that ask for a transport. *)
CallsKeepTransport ==
    called # NoCallMade =>
        LET request == RequestOf(called) IN
        Freshness(request, request.issued) = "fresh" =>
            \A via \in DOMAIN System :
                EvaluateAt({RequiresTransport(via)}, {Publisher}, request, request.issued).allowed
                    <=> called.via = via

(* What comes from outside means what it said.  An exported document       *)
(* (odrl.py:279) of rules that an engine accepts is accepted by both       *)
(* readers, unless a rule requires a bare null, or a key whose last part   *)
(* is empty or a physical operand.  Read back, it decides every request as *)
(* before if every rule is Expressible (by the publisher, for any purpose, *)
(* with actions and a context that are read as written); if only purposes  *)
(* or issuers are lost, it still denies what the rules denied.             *)
(* Combinations come back as they were.  Of an accepted document, whoever  *)
(* wrote it, an engine that knows the actions accepts each rule.  The rule *)
(* applies exactly when all its statement's constraints hold by ODRL, with *)
(* operands and operators cut at their last slash, at an instant that is   *)
(* none of its times, if it repeats no operand (Unambiguous) and is not a  *)
(* prohibition with a physical limit.  A terms document from which fields  *)
(* other than constraints are left out is refused or allows no more than   *)
(* before, except where the field is a term's target and the document has  *)
(* one that takes its place (TargetsKept; ieee7012.py:68).  And a rule     *)
(* that asks for a transport allows of the known actions only those of     *)
(* that transport's adapter, whatever the caller added to the context.     *)
AdaptersKeepMeaning ==
    ExportsKeepMeaning /\ StatementsKeepMeaning /\ TermsKeepMeaning /\ CallsKeepTransport
=============================================================================
