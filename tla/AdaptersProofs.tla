----------------------------- MODULE AdaptersProofs -----------------------------
(***************************************************************************)
(* What the adapters keep of the meaning of what comes from outside, for   *)
(* every set of rules, documents, insertions, terms and calls.             *)
(***************************************************************************)
EXTENDS Adapters, FiniteSetTheorems, WellFoundedInduction, TLAPS

-----------------------------------------------------------------------------
(* The inductive invariant: what a document and a terms document are, and *)
(* that a document nobody edited is as it was written.                     *)

(* A list of items whose times are numbers. *)
Listed(items) ==
    /\ \E S : items \in Seq(S)
    /\ \A i \in DOMAIN items : ItemShaped(items[i])

DocumentFields == {"profile", "assigner", "combinations", "permission", "prohibition"}

StatementFields ==
    {"target", "assigner", "assignee", "action", "constraint", "duty", "unknown"}

StatementShaped(s) == DOMAIN s = StatementFields /\ Listed(s.constraint)

DocumentShaped(doc) ==
    /\ DOMAIN doc = DocumentFields
    /\ \A effect \in {"allow", "deny"} : \A i \in DOMAIN StatementsOf(doc, effect) :
          StatementShaped(StatementsOf(doc, effect)[i])

(* What was exported and not edited is as it was written. *)
DocumentFine ==
    document # NoDocument =>
        /\ DocumentShaped(document)
        /\ ~byHand /\ edits = 0 =>
              /\ document = WriteOffer(offered, combined)
              /\ combined \subseteq Barred
              /\ \A i \in DOMAIN offered : Writable(offered[i])

(* A term from which fields were left out. *)
PartOf(term, whole) ==
    /\ DOMAIN term \subseteq DOMAIN whole
    /\ \A f \in DOMAIN term : term[f] = whole[f]
    /\ "constraints" \in DOMAIN whole => "constraints" \in DOMAIN term

TermsFine ==
    terms # NoTerms =>
        /\ DOMAIN terms = {"issuer", "target", "terms"}
        /\ terms.issuer = fuller.issuer /\ terms.target = fuller.target
        /\ DOMAIN terms.terms = DOMAIN fuller.terms
        /\ \A i \in DOMAIN terms.terms : PartOf(terms.terms[i], fuller.terms[i])

CallFits == called # NoCallMade => called \in Calls /\ Accepted(called)

ExchangeInv ==
    /\ offered \in Seq(Offerable) /\ edits \in Nat
    /\ DocumentFine /\ TermsFine /\ CallFits

-----------------------------------------------------------------------------
(* Writing *)

(* A finite set is listed in some order: all its members, each once. *)
LEMMA SomeOrder ==
    ASSUME NEW S, IsFiniteSet(S)
    PROVE  /\ InSomeOrder(S) \in Seq(S)
           /\ DOMAIN InSomeOrder(S) = 1 .. Cardinality(S)
           /\ \A x \in S : \E i \in DOMAIN InSomeOrder(S) : InSomeOrder(S)[i] = x
           /\ \A i \in DOMAIN InSomeOrder(S) : InSomeOrder(S)[i] \in S
           /\ \A i, j \in DOMAIN InSomeOrder(S) : InSomeOrder(S)[i] = InSomeOrder(S)[j] => i = j
<1>1. Cardinality(S) \in Nat
  BY FS_CardinalityType
<1> DEFINE n == Cardinality(S)
           Order(list) == \A i, j \in DOMAIN list : list[i] = list[j] => i = j
<1>2. \E list \in [1 .. n -> S] : Order(list)
  <2>1. PICK f : f \in Bijection(1 .. n, S)
    BY FS_CardinalityType DEF ExistsBijection
  <2>2. f \in [1 .. n -> S] /\ Order(f)
    BY <2>1 DEF Bijection, Injection, IsInjective
  <2> QED
    BY <2>2
<1> DEFINE list == InSomeOrder(S)
<1>3. list \in [1 .. n -> S] /\ Order(list)
  BY <1>2 DEF InSomeOrder
<1>4. \A x \in S : \E i \in DOMAIN list : list[i] = x
  <2>1. list \in Injection(1 .. n, S)
    BY <1>3 DEF Injection, IsInjective
  <2>2. IsFiniteSet(1 .. n) /\ Cardinality(1 .. n) = Cardinality(S)
    BY <1>1, FS_Interval
  <2> HIDE DEF list
  <2>3. list \in Surjection(1 .. n, S)
    BY <2>1, <2>2, FS_Injection
  <2> QED
    BY <2>3 DEF Surjection
<1>5. list \in Seq(S)
  BY <1>1, <1>3
<1> QED
  BY <1>3, <1>4, <1>5

(* A list stays one when a constraint is appended. *)
LEMMA ListedAppend ==
    ASSUME NEW items, Listed(items), NEW item, ItemShaped(item)
    PROVE  Listed(Append(items, item))
<1>1. PICK S : items \in Seq(S)
  BY DEF Listed
<1>2. items \in Seq(S \cup {item})
  BY <1>1
<1>3. Append(items, item) \in Seq(S \cup {item})
  BY <1>2
<1>4. \A i \in DOMAIN Append(items, item) :
         \/ Append(items, item)[i] = item
         \/ i \in DOMAIN items /\ Append(items, item)[i] = items[i]
  BY <1>2
<1> QED
  BY <1>3, <1>4 DEF Listed


-----------------------------------------------------------------------------
(* The engine's answer has these three parts, whichever way it decides. *)
Decided(answer, allowed, reason, tier) ==
    answer.allowed = allowed /\ answer.reason = reason /\ answer.tier = tier

LEMMA Outcomes ==
    ASSUME NEW rs, NEW ts, NEW request, NEW t
    PROVE  LET answer == EvaluateAt(rs, ts, request, t)
               applicable == Applicable(rs, ts, request, t)
               fresh == Freshness(request, t) = "fresh" IN
           /\ ~fresh => Decided(answer, FALSE, Freshness(request, t), 0)
           /\ fresh /\ (\E rule \in applicable : rule.effect = "deny") =>
                 Decided(answer, FALSE, "explicit_deny", 0)
           /\ fresh /\ ~(applicable # {}) => Decided(answer, FALSE, "default_deny", 0)
           /\ fresh /\ applicable # {} /\ ~(\E rule \in applicable : rule.effect = "deny") =>
                 Decided(answer, TRUE, "explicit_allow", HighestTier(applicable))
<1> DEFINE applicable == Applicable(rs, ts, request, t)
           matched == {rule.id : rule \in applicable}
           denies == {rule \in applicable : rule.effect = "deny"}
           policy == Snapshot(rs, ts)
<1> HIDE DEF policy
<1>0. ASSUME NEW p, NEW allowed, NEW reason, NEW m, NEW tier
      PROVE  Decided(Answer(p, request, allowed, reason, m, tier), allowed, reason, tier)
  BY Zenon DEF Answer, Decided
<1>1. CASE Freshness(request, t) # "fresh"
  <2>1. EvaluateAt(rs, ts, request, t) = Answer(policy, request, FALSE, Freshness(request, t), {}, 0)
    BY <1>1 DEF EvaluateAt, policy
  <2> QED
    BY <1>0, <1>1, <2>1, Zenon
<1>2. CASE Freshness(request, t) = "fresh" /\ denies # {}
  <2>1. EvaluateAt(rs, ts, request, t) = Answer(policy, request, FALSE, "explicit_deny", matched, 0)
    BY <1>2 DEF EvaluateAt, policy
  <2>2. Decided(EvaluateAt(rs, ts, request, t), FALSE, "explicit_deny", 0)
    BY <1>0, <2>1, Zenon
  <2>3. applicable # {} /\ \E rule \in applicable : rule.effect = "deny"
    BY <1>2
  <2> QED
    BY <1>2, <2>2, <2>3, Zenon
<1>3. CASE Freshness(request, t) = "fresh" /\ denies = {} /\ applicable = {}
  <2>1. EvaluateAt(rs, ts, request, t) = Answer(policy, request, FALSE, "default_deny", {}, 0)
    BY <1>3 DEF EvaluateAt, policy
  <2>2. Decided(EvaluateAt(rs, ts, request, t), FALSE, "default_deny", 0)
    BY <1>0, <2>1, Zenon
  <2>3. ~(applicable # {}) /\ ~\E rule \in applicable : rule.effect = "deny"
    BY <1>3
  <2> QED
    BY <1>3, <2>2, <2>3, Zenon
<1>4. CASE Freshness(request, t) = "fresh" /\ denies = {} /\ applicable # {}
  <2>1. EvaluateAt(rs, ts, request, t)
           = Answer(policy, request, TRUE, "explicit_allow", matched, HighestTier(applicable))
    BY <1>4 DEF EvaluateAt, policy
  <2>2. Decided(EvaluateAt(rs, ts, request, t), TRUE, "explicit_allow", HighestTier(applicable))
    BY <1>0, <2>1, Zenon
  <2>3. ~\E rule \in applicable : rule.effect = "deny"
    BY <1>4
  <2> QED
    BY <1>4, <2>2, <2>3, Zenon
<1> QED
  BY <1>1, <1>2, <1>3, <1>4

(* A request is allowed when it is fresh, a rule applies and none that     *)
(* applies denies.                                                         *)
LEMMA AllowedIs ==
    ASSUME NEW rs, NEW ts, NEW request, NEW t
    PROVE  EvaluateAt(rs, ts, request, t).allowed
              <=> /\ Freshness(request, t) = "fresh"
                  /\ Applicable(rs, ts, request, t) # {}
                  /\ ~\E rule \in Applicable(rs, ts, request, t) : rule.effect = "deny"
<1> DEFINE answer == EvaluateAt(rs, ts, request, t)
           applicable == Applicable(rs, ts, request, t)
           fresh == Freshness(request, t) = "fresh"
           denied == \E rule \in applicable : rule.effect = "deny"
<1>1. /\ ~fresh => Decided(answer, FALSE, Freshness(request, t), 0)
      /\ fresh /\ denied => Decided(answer, FALSE, "explicit_deny", 0)
      /\ fresh /\ ~(applicable # {}) => Decided(answer, FALSE, "default_deny", 0)
      /\ fresh /\ applicable # {} /\ ~denied =>
            Decided(answer, TRUE, "explicit_allow", HighestTier(applicable))
  BY Outcomes, Zenon
<1> HIDE DEF answer, applicable, fresh, denied
<1>2. answer.allowed <=> fresh /\ applicable # {} /\ ~denied
  BY <1>1, Zenon DEF Decided
<1> QED
  BY <1>2, Zenon DEF answer, applicable, fresh, denied

(* A request is denied by a rule when it is fresh and a rule that applies  *)
(* denies.                                                                 *)
LEMMA DeniedIs ==
    ASSUME NEW rs, NEW ts, NEW request, NEW t
    PROVE  EvaluateAt(rs, ts, request, t).reason = "explicit_deny"
              <=> /\ Freshness(request, t) = "fresh"
                  /\ \E rule \in Applicable(rs, ts, request, t) : rule.effect = "deny"
<1> DEFINE answer == EvaluateAt(rs, ts, request, t)
           applicable == Applicable(rs, ts, request, t)
           freshness == Freshness(request, t)
           denied == \E rule \in applicable : rule.effect = "deny"
<1>1. /\ ~(freshness = "fresh") => Decided(answer, FALSE, freshness, 0)
      /\ freshness = "fresh" /\ denied => Decided(answer, FALSE, "explicit_deny", 0)
      /\ freshness = "fresh" /\ ~(applicable # {}) => Decided(answer, FALSE, "default_deny", 0)
      /\ freshness = "fresh" /\ applicable # {} /\ ~denied =>
            Decided(answer, TRUE, "explicit_allow", HighestTier(applicable))
  BY Outcomes, Zenon
<1>2. freshness # "explicit_deny"
  BY DEF Freshness
<1> HIDE DEF answer, applicable, freshness, denied
<1>3. /\ ~(freshness = "fresh") => answer.reason = freshness
      /\ freshness = "fresh" /\ denied => answer.reason = "explicit_deny"
      /\ freshness = "fresh" /\ ~(applicable # {}) => answer.reason = "default_deny"
      /\ freshness = "fresh" /\ applicable # {} /\ ~denied => answer.reason = "explicit_allow"
  BY <1>1, Zenon DEF Decided
<1>4. answer.reason = "explicit_deny" <=> freshness = "fresh" /\ denied
  BY <1>2, <1>3
<1> QED
  BY <1>4, Zenon DEF answer, applicable, freshness, denied

-----------------------------------------------------------------------------
(* Calls *)

(* The adapter says the transport itself, so a rule that asks for one is   *)
(* met by the calls over it.                                               *)
LEMMA TransportKept ==
    ASSUME CallFits
    PROVE  CallsKeepTransport
<1> SUFFICES ASSUME called # NoCallMade, NEW via \in DOMAIN System,
                    Freshness(RequestOf(called), RequestOf(called).issued) = "fresh"
             PROVE  EvaluateAt({RequiresTransport(via)}, {Publisher}, RequestOf(called),
                               RequestOf(called).issued).allowed
                       <=> called.via = via
  BY Zenon DEF CallsKeepTransport
<1> DEFINE request == RequestOf(called)
           rule == RequiresTransport(via)
           system == System[called.via]
<1>1. called \in Calls /\ Accepted(called) /\ RequestShaped(called.request)
      /\ called.via \in {"mcp", "ros2", "wot", "opcua", "matter"}
  BY ExchangeAssumption DEF CallFits
<1>2. "transport" \in DOMAIN system /\ system["transport"] = called.via
  BY <1>1 DEF System, McpSystem, RosSystem, WotSystem, OpcUaSystem, MatterSystem
<1>3. /\ request.target \in Texts /\ request.action \in Texts
      /\ request.agent \in Texts /\ request.purpose \in Texts
      /\ request.context = TrustedContext(system, called.supplied)
  BY <1>1 DEF RequestOf, RequestShaped
<1>4. "transport" \in DOMAIN request.context /\ request.context["transport"] = called.via
  BY <1>2, <1>3 DEF TrustedContext
<1>5. /\ rule.effect = "allow" /\ rule.issuer = Publisher /\ rule.target = Star
      /\ rule.actions = {Star} /\ rule.subjects = {Star} /\ rule.purposes = {Star}
      /\ DOMAIN rule.constraints = {"required_context"}
      /\ DOMAIN rule.constraints["required_context"] = {"transport"}
      /\ rule.constraints["required_context"]["transport"] = {via}
  BY DEF RequiresTransport
<1> DEFINE t == request.issued
<1>10. Freshness(request, t) = "fresh"
  OBVIOUS
<1> HIDE DEF request, rule, system, t
<1>6. InScope(rule, request) /\ MayCount(rule, {Publisher})
  BY <1>3, <1>5, EngineAssumption DEF InScope, MatchesAny, MayCount
<1>7. ConstraintsHold(rule, request, t) <=> called.via = via
  <2>1. InContext(rule, request.context) <=> called.via = via
    <3>1. NoValue # {via}
      BY ExchangeAssumption DEF System
    <3> QED
      BY <1>4, <1>5, <3>1 DEF InContext, Has, ValueOf, Wanted
  <2>2. InTime(rule, t) /\ Attended(rule, request.context) /\ WithinRisk(rule, request.context)
    BY <1>5 DEF InTime, Attended, WithinRisk, Has
  <2>3. PhysicalHolds(rule, request.context)
    BY <1>5 DEF PhysicalHolds, TooMuch, Exceeds, Has
  <2> QED
    BY <2>1, <2>2, <2>3 DEF ConstraintsHold
<1>8. CASE called.via = via
  <2>1. Applicable({rule}, {Publisher}, request, t) = {rule}
    BY <1>6, <1>7, <1>8 DEF Applicable, Applies
  <2>2. \A r \in Applicable({rule}, {Publisher}, request, t) : r.effect # "deny"
    BY <1>5, <2>1
  <2>3. Applicable({rule}, {Publisher}, request, t) # {}
    BY <2>1
  <2>4. EvaluateAt({rule}, {Publisher}, request, t).allowed
    BY <1>10, <2>2, <2>3, AllowedIs
  <2> QED
    BY <2>4, <1>8 DEF request, rule, t
<1>9. CASE called.via # via
  <2>1. Applicable({rule}, {Publisher}, request, t) = {}
    BY <1>7, <1>9 DEF Applicable, Applies
  <2>2. ~EvaluateAt({rule}, {Publisher}, request, t).allowed
    BY <2>1, AllowedIs
  <2> QED
    BY <2>2, <1>9 DEF request, rule, t
<1> QED
  BY <1>8, <1>9

-----------------------------------------------------------------------------
(* Terms *)

(* What a term leaves out is anything, and of an allow term nothing is     *)
(* left out that the rule is about.                                        *)
LEMMA TermApplies ==
    ASSUME TermsFine, terms # NoTerms, ReadsTerms(fuller), ReadsTerms(terms), TargetsKept,
           NEW i \in DOMAIN terms.terms, NEW request, RequestShaped(request), NEW t
    PROVE  LET less == ReadTerm(terms, i)
               more == ReadTerm(fuller, i)
               issuers == {terms.issuer} IN
           /\ less.effect = "allow" /\ Applies(less, issuers, request, t) =>
                 Applies(more, issuers, request, t) /\ more.effect = "allow"
           /\ more.effect = "deny" /\ Applies(more, issuers, request, t) =>
                 Applies(less, issuers, request, t) /\ less.effect = "deny"
<1> DEFINE term == terms.terms[i]
           whole == fuller.terms[i]
           less == ReadTerm(terms, i)
           more == ReadTerm(fuller, i)
           issuers == {terms.issuer}
<1>1. /\ PartOf(term, whole) /\ ReadableTerm(terms, term) /\ ReadableTerm(fuller, whole)
      /\ terms.issuer = fuller.issuer /\ terms.target = fuller.target
  BY DEF TermsFine, ReadsTerms
<1>2. fuller.target = Unsaid \/ ("target" \in DOMAIN whole => "target" \in DOMAIN term)
  BY DEF TargetsKept
<1> DEFINE place == IF terms.target = Unsaid THEN Star ELSE terms.target
<1>3. /\ less.issuer = terms.issuer /\ less.effect = Said(term, "effect", "deny")
      /\ less.target = Said(term, "target", place) /\ less.actions = {term["action"]}
      /\ less.subjects = Said(term, "agents", {Star})
      /\ less.purposes = Said(term, "purposes", {Star})
      /\ less.constraints = Said(term, "constraints", <<>>)
  BY DEF ReadTerm
<1>4. /\ more.issuer = terms.issuer /\ more.effect = Said(whole, "effect", "deny")
      /\ more.target = Said(whole, "target", place) /\ more.actions = {whole["action"]}
      /\ more.subjects = Said(whole, "agents", {Star})
      /\ more.purposes = Said(whole, "purposes", {Star})
      /\ more.constraints = Said(whole, "constraints", <<>>)
  BY <1>1 DEF ReadTerm
<1> HIDE DEF less, more, term, whole, issuers, place
<1>5. less.constraints = more.constraints /\ less.actions = more.actions
  BY <1>1, <1>3, <1>4 DEF PartOf, Said, ReadableTerm
<1>6. less.effect \in {"allow", "deny"} /\ (less.effect = "allow" => more.effect = "allow")
  BY <1>1, <1>3, <1>4 DEF PartOf, Said, ReadableTerm
<1>7. less.effect = more.effect => (ConstraintsHold(less, request, t)
                                      <=> ConstraintsHold(more, request, t))
  <2>1. \A name : Has(less, name) <=> Has(more, name)
    BY <1>5 DEF Has
  <2>2. InTime(less, t) <=> InTime(more, t)
    BY <1>5, <2>1 DEF InTime
  <2>3. InContext(less, request.context) <=> InContext(more, request.context)
    BY <1>5, <2>1 DEF InContext
  <2>4. Attended(less, request.context) <=> Attended(more, request.context)
    BY <1>5, <2>1 DEF Attended
  <2>5. WithinRisk(less, request.context) <=> WithinRisk(more, request.context)
    BY <1>5, <2>1 DEF WithinRisk
  <2>6. TooMuch(less, request.context) <=> TooMuch(more, request.context)
    BY <1>5, <2>1 DEF TooMuch, Exceeds
  <2>7. InZone(less, request.context) <=> InZone(more, request.context)
    BY <1>5 DEF InZone
  <2>8. less.effect = more.effect =>
           (PhysicalHolds(less, request.context) <=> PhysicalHolds(more, request.context))
    BY <2>1, <2>6, <2>7 DEF PhysicalHolds
  <2> QED
    BY <2>2, <2>3, <2>4, <2>5, <2>8 DEF ConstraintsHold
<1>8. \A text \in Texts : MatchesAny({Star}, text) /\ text \in Glob[Star]
  BY EngineAssumption DEF MatchesAny
<1>9. ASSUME less.effect = "allow", Applies(less, issuers, request, t)
      PROVE  Applies(more, issuers, request, t) /\ more.effect = "allow"
  <2>1. {"effect", "agents", "purposes"} \subseteq DOMAIN term
    BY <1>1, <1>3, <1>9 DEF ReadableTerm, Said
  <2>2. less.subjects = more.subjects /\ less.purposes = more.purposes
    BY <1>1, <1>3, <1>4, <2>1 DEF PartOf, Said
  <2>3. less.target = more.target
    BY <1>1, <1>2, <1>3, <1>4, <1>9 DEF PartOf, Said, ReadableTerm
  <2>4. InScope(more, request)
    BY <1>5, <1>9, <2>2, <2>3 DEF InScope, Applies
  <2>5. MayCount(more, issuers)
    BY <1>4 DEF MayCount, issuers
  <2> QED
    BY <1>6, <1>7, <1>9, <2>4, <2>5 DEF Applies
<1>10. ASSUME more.effect = "deny", Applies(more, issuers, request, t)
       PROVE  Applies(less, issuers, request, t) /\ less.effect = "deny"
  <2>1. less.effect = "deny"
    BY <1>6, <1>10
  <2>2. /\ request.target \in Texts /\ request.agent \in Texts /\ request.purpose \in Texts
        /\ InScope(more, request)
    BY <1>10 DEF RequestShaped, Applies
  <2>3. MatchesAny(less.subjects, request.agent) /\ MatchesAny(less.purposes, request.purpose)
    BY <1>1, <1>3, <1>4, <1>8, <2>2 DEF PartOf, Said, InScope
  <2>4. request.target \in Glob[less.target]
    BY <1>1, <1>2, <1>3, <1>4, <1>8, <2>2 DEF PartOf, Said, InScope, place
  <2>5. InScope(less, request) /\ MayCount(less, issuers)
    BY <1>5, <2>1, <2>2, <2>3, <2>4 DEF InScope, MayCount
  <2> QED
    BY <1>7, <1>10, <2>1, <2>5 DEF Applies
<1> QED
  BY <1>9, <1>10 DEF less, more, issuers

(* With fields left out, rules of allow terms apply no more often, and     *)
(* those of deny terms no less.                                            *)
LEMMA TermsKept ==
    ASSUME TermsFine
    PROVE  TermsKeepMeaning
<1> SUFFICES ASSUME terms # NoTerms, ReadsTerms(fuller), ReadsTerms(terms), TargetsKept,
                    NEW asked \in Asked,
                    EvaluateAt(TermRules(terms), {terms.issuer}, asked[1], asked[2]).allowed
             PROVE  EvaluateAt(TermRules(fuller), {fuller.issuer}, asked[1], asked[2]).allowed
  BY Zenon DEF TermsKeepMeaning
<1> DEFINE request == asked[1]
           t == asked[2]
           issuers == {terms.issuer}
           before == Applicable(TermRules(fuller), issuers, request, t)
           after == Applicable(TermRules(terms), issuers, request, t)
<1>1. RequestShaped(request) /\ fuller.issuer = terms.issuer
      /\ DOMAIN terms.terms = DOMAIN fuller.terms
  BY ExchangeAssumption DEF TermsFine
<1>2. /\ \A i \in DOMAIN terms.terms : ReadTerm(terms, i) \in TermRules(terms)
      /\ \A rule \in TermRules(terms) : \E i \in DOMAIN terms.terms : rule = ReadTerm(terms, i)
      /\ \A i \in DOMAIN terms.terms : ReadTerm(fuller, i) \in TermRules(fuller)
      /\ \A rule \in TermRules(fuller) : \E i \in DOMAIN terms.terms : rule = ReadTerm(fuller, i)
  BY <1>1 DEF TermRules
<1>3. /\ Freshness(request, t) = "fresh"
      /\ \A rule \in after : rule.effect # "deny"
      /\ after # {}
  BY AllowedIs
<1> HIDE DEF request, t, issuers
<1>4. ASSUME NEW i \in DOMAIN terms.terms
      PROVE  /\ ReadTerm(terms, i).effect = "allow"
                /\ Applies(ReadTerm(terms, i), issuers, request, t) =>
                   Applies(ReadTerm(fuller, i), issuers, request, t)
             /\ ReadTerm(fuller, i).effect = "deny"
                /\ Applies(ReadTerm(fuller, i), issuers, request, t) =>
                   Applies(ReadTerm(terms, i), issuers, request, t)
                   /\ ReadTerm(terms, i).effect = "deny"
  BY <1>1, TermApplies DEF issuers
<1>5. \A i \in DOMAIN terms.terms : ReadTerm(terms, i).effect \in {"allow", "deny"}
  BY DEF ReadTerm, ReadsTerms, ReadableTerm
<1>6. before # {}
  <2>1. PICK rule \in after : TRUE
    BY <1>3
  <2>2. PICK i \in DOMAIN terms.terms : rule = ReadTerm(terms, i)
    BY <1>2, <2>1 DEF Applicable
  <2>3. Applies(rule, issuers, request, t) /\ rule.effect = "allow"
    BY <1>3, <1>5, <2>1, <2>2 DEF Applicable
  <2> QED
    BY <1>2, <1>4, <2>2, <2>3 DEF Applicable
<1>7. ASSUME NEW rule \in before, rule.effect = "deny" PROVE FALSE
  <2>1. PICK i \in DOMAIN terms.terms : rule = ReadTerm(fuller, i)
    BY <1>2 DEF Applicable
  <2>2. Applies(ReadTerm(terms, i), issuers, request, t) /\ ReadTerm(terms, i).effect = "deny"
    BY <1>4, <1>7, <2>1 DEF Applicable
  <2>3. ReadTerm(terms, i) \in after
    BY <1>2, <2>2 DEF Applicable
  <2> QED
    BY <1>3, <2>2, <2>3
<1>9. \A rule \in before : rule.effect # "deny"
  BY <1>7
<1>8. EvaluateAt(TermRules(fuller), issuers, request, t).allowed
  BY <1>3, <1>6, <1>9, AllowedIs
<1> QED
  BY <1>1, <1>8 DEF issuers, request, t

-----------------------------------------------------------------------------
(* What is written: the constraints of a rule, all of them, in some order. *)

Written(rule) ==
    UNION {WriteConstraint(name, rule.constraints[name]) : name \in DOMAIN rule.constraints}

(* One constraint for each but the context, and one for each key of it. *)
LEMMA WrittenIs ==
    ASSUME NEW rule, Writable(rule), NEW item
    PROVE  item \in Written(rule) <=>
              \/ \E name \in DOMAIN Operand :
                    /\ Has(rule, name)
                    /\ item = Item(Operand[name].left, Operand[name].op, rule.constraints[name])
              \/ /\ Has(rule, "required_context")
                 /\ \E key \in DOMAIN rule.constraints["required_context"] :
                       item = Item(key, "eq", rule.constraints["required_context"][key])
<1>1. item \in Written(rule) <=> \E name \in DOMAIN rule.constraints :
                                    item \in WriteConstraint(name, rule.constraints[name])
  BY DEF Written
<1>2. DOMAIN rule.constraints \subseteq DOMAIN Operand \cup {"required_context"}
  BY DEF Writable
<1>3. "required_context" \notin DOMAIN Operand
  BY DEF Operand
<1>4. ASSUME NEW name \in DOMAIN Operand
      PROVE  item \in WriteConstraint(name, rule.constraints[name]) <=>
                item = Item(Operand[name].left, Operand[name].op, rule.constraints[name])
  BY <1>3 DEF WriteConstraint
<1>5. item \in WriteConstraint("required_context", rule.constraints["required_context"]) <=>
         \E key \in DOMAIN rule.constraints["required_context"] :
            item = Item(key, "eq", rule.constraints["required_context"][key])
  BY DEF WriteConstraint
<1> QED
  BY <1>1, <1>2, <1>3, <1>4, <1>5 DEF Has

(* Only finitely many constraints are written. *)
LEMMA WrittenFinite ==
    ASSUME NEW rule, Writable(rule),
           Has(rule, "required_context") =>
              IsFiniteSet(DOMAIN rule.constraints["required_context"])
    PROVE  IsFiniteSet(Written(rule))
<1> DEFINE One(name) == IF Has(rule, name)
                        THEN {Item(Operand[name].left, Operand[name].op, rule.constraints[name])}
                        ELSE {}
           required == IF Has(rule, "required_context")
                       THEN DOMAIN rule.constraints["required_context"] ELSE {}
           context == [key \in required |->
                          Item(key, "eq", rule.constraints["required_context"][key])]
           items == {context[key] : key \in required}
           all == (((((One("max_force_newtons") \cup One("max_velocity_mps"))
                      \cup One("allowed_zones")) \cup One("min_approval_tier"))
                    \cup One("not_before")) \cup One("not_after")) \cup items
<1>1. \A name : IsFiniteSet(One(name))
  BY FS_EmptySet, FS_Singleton
<1>2. IsFiniteSet(items)
  <2>1. IsFiniteSet(required)
    BY FS_EmptySet
  <2>2. context \in Surjection(required, items)
    BY DEF Surjection
  <2> HIDE DEF required, context, items
  <2> QED
    BY <2>1, <2>2, FS_Surjection
<1>3. Written(rule) \subseteq all
  <2>1. DOMAIN Operand = {"max_force_newtons", "max_velocity_mps", "allowed_zones",
                          "min_approval_tier", "not_before", "not_after"}
    BY DEF Operand
  <2>2. ASSUME NEW item \in Written(rule) PROVE item \in all
    <3>1. CASE \E name \in DOMAIN Operand :
                  /\ Has(rule, name)
                  /\ item = Item(Operand[name].left, Operand[name].op, rule.constraints[name])
      <4>1. PICK name \in DOMAIN Operand : item \in One(name)
        BY <3>1
      <4> HIDE DEF One, items
      <4> QED
        BY <2>1, <4>1
    <3>2. CASE /\ Has(rule, "required_context")
               /\ \E key \in DOMAIN rule.constraints["required_context"] :
                     item = Item(key, "eq", rule.constraints["required_context"][key])
      <4>1. item \in items
        BY <3>2
      <4> QED
        BY <4>1
    <3> QED
      BY <3>1, <3>2, WrittenIs
  <2> QED
    BY <2>2
<1> HIDE DEF One, items
<1>4. IsFiniteSet(all)
  BY <1>1, <1>2, FS_Union
<1> HIDE DEF all
<1> QED
  BY <1>3, <1>4, FS_Subset

(* A list of all members of a set, each once. *)
Lists(items, S) ==
    /\ items \in Seq(S)
    /\ \A x \in S : \E i \in DOMAIN items : items[i] = x
    /\ \A i \in DOMAIN items : items[i] \in S
    /\ \A i, j \in DOMAIN items : items[i] = items[j] => i = j

(* What is written of a rule is a statement, with all its constraints. *)
LEMMA RuleWritten ==
    ASSUME NEW rule \in Offerable, Writable(rule)
    PROVE  /\ Lists(WriteRule(rule).constraint, Written(rule))
           /\ StatementShaped(WriteRule(rule))
<1>1. IsFiniteSet(Written(rule))
  BY WrittenFinite, ExchangeAssumption DEF Has
<1> DEFINE items == InSomeOrder(Written(rule))
<1>2. WriteRule(rule).constraint = items /\ DOMAIN WriteRule(rule) = StatementFields
  BY DEF WriteRule, Written, StatementFields
<1>3. Lists(items, Written(rule))
  BY <1>1, SomeOrder DEF Lists
<1>4. ASSUME NEW item \in Written(rule) PROVE ItemShaped(item)
  <2>1. CASE \E name \in DOMAIN Operand :
                /\ Has(rule, name)
                /\ item = Item(Operand[name].left, Operand[name].op, rule.constraints[name])
    <3>1. PICK name \in DOMAIN Operand :
             /\ Has(rule, name)
             /\ item = Item(Operand[name].left, Operand[name].op, rule.constraints[name])
      BY <2>1
    <3>2. Operand[name].left = "dateTime" => name \in {"not_before", "not_after"}
      BY DEF Operand
    <3>3. name \in {"not_before", "not_after"} => rule.constraints[name] \in Int
      BY <3>1, ExchangeAssumption DEF Has
    <3>4. Operand[name].left \in OdrlNames /\ Operand[name].op \in OdrlNames
      BY DEF Operand, OdrlNames
    <3>5. /\ {item.left, item.op} \subseteq DOMAIN LastPart
          /\ Cut(item).left = Operand[name].left
      BY <3>1, <3>4, ExchangeAssumption DEF Item, Cut
    <3> QED
      BY <3>1, <3>2, <3>3, <3>5 DEF ItemShaped, Item
  <2>2. CASE /\ Has(rule, "required_context")
             /\ \E key \in DOMAIN rule.constraints["required_context"] :
                   item = Item(key, "eq", rule.constraints["required_context"][key])
    <3>1. "eq" \in DOMAIN LastPart /\ LastPart["eq"] = "eq"
      BY ExchangeAssumption DEF OdrlNames
    <3>2. {item.left, item.op} \subseteq DOMAIN LastPart /\ item.op = "eq"
      BY <2>2, <3>1, ExchangeAssumption DEF Item, Has
    <3>3. Cut(item).op = "eq"
      BY <3>1, <3>2 DEF Cut, Item
    <3> QED
      BY <3>2, <3>3 DEF ItemShaped
  <2> QED
    BY <2>1, <2>2, WrittenIs
<1>5. Listed(items)
  BY <1>3, <1>4 DEF Lists, Listed
<1> QED
  BY <1>2, <1>3, <1>5 DEF StatementShaped

(* What an exported document holds: its statements of an effect are those  *)
(* of the rules of that effect.                                            *)
LEMMA OfferWritten ==
    ASSUME NEW list \in Seq(Offerable), NEW combinations, NEW doc,
           doc = WriteOffer(list, combinations), NEW effect \in {"allow", "deny"}
    PROVE  /\ DOMAIN doc = DocumentFields
           /\ \A i : i \in DOMAIN StatementsOf(doc, effect)
                      <=> i \in DOMAIN list /\ list[i].effect = effect
           /\ \A i \in DOMAIN StatementsOf(doc, effect) :
                 StatementsOf(doc, effect)[i] = WriteRule(list[i])
           /\ doc.combinations = combinations /\ doc.profile = Kgp /\ doc.assigner = Publisher
BY DEF WriteOffer, WriteEffect, StatementsOf, DocumentFields

-----------------------------------------------------------------------------
(* The invariant. *)

(* The invariant holds at the start. *)
LEMMA ExchangeInvInit == ExchangeInit => ExchangeInv
BY DEF ExchangeInit, ExchangeInv, DocumentFine, TermsFine, CallFits

(* A document keeps its shape when a constraint is added. *)
LEMMA EditShapes ==
    ASSUME NEW doc, DocumentShaped(doc), NEW item \in Insertions, NEW edited,
           edited = [doc EXCEPT !.permission = Adding(item, doc.permission),
                                !.prohibition = Adding(item, doc.prohibition)]
    PROVE  DocumentShaped(edited)
<1>1. ASSUME NEW s, StatementShaped(s)
      PROVE  StatementShaped([s EXCEPT !.constraint = Append(@, item)])
  <2>1. Listed(Append(s.constraint, item))
    BY <1>1, ListedAppend, ExchangeAssumption DEF StatementShaped
  <2> QED
    BY <1>1, <2>1 DEF StatementShaped, StatementFields
<1>2. DOMAIN edited = DocumentFields
  BY DEF DocumentFields, DocumentShaped
<1>3. ASSUME NEW effect \in {"allow", "deny"}, NEW i \in DOMAIN StatementsOf(edited, effect)
      PROVE  StatementShaped(StatementsOf(edited, effect)[i])
  <2>1. StatementsOf(edited, effect) = Adding(item, StatementsOf(doc, effect))
    BY DEF DocumentShaped, DocumentFields, StatementsOf
  <2>2. /\ i \in DOMAIN StatementsOf(doc, effect)
        /\ StatementsOf(edited, effect)[i] =
              [StatementsOf(doc, effect)[i] EXCEPT !.constraint = Append(@, item)]
    BY <1>3, <2>1 DEF Adding
  <2>3. StatementShaped(StatementsOf(doc, effect)[i])
    BY <2>2 DEF DocumentShaped
  <2> QED
    BY <1>1, <2>2, <2>3
<1> QED
  BY <1>2, <1>3 DEF DocumentShaped

(* Every step keeps the invariant. *)
LEMMA ExchangeInvStep ==
    ASSUME ExchangeInv, [ExchangeNext]_exchangeVars
    PROVE  ExchangeInv'
<1> USE DEF ExchangeInv
<1>1. ASSUME NEW rule \in Offerable, Offer(rule) PROVE ExchangeInv'
  BY <1>1 DEF Offer, DocumentFine, TermsFine, CallFits
<1>2. ASSUME NEW combinations \in SUBSET Barred, Export(combinations) PROVE ExchangeInv'
  <2>1. /\ document' = WriteOffer(offered, combinations) /\ combined' = combinations
        /\ offered' = offered /\ UNCHANGED <<byHand, edits, terms, fuller, called>>
        /\ \A i \in DOMAIN offered : Writable(offered[i])
    BY <1>2 DEF Export
  <2>2. ASSUME NEW effect \in {"allow", "deny"}, NEW i \in DOMAIN StatementsOf(document', effect)
        PROVE  StatementShaped(StatementsOf(document', effect)[i])
    <3>1. i \in DOMAIN offered /\ StatementsOf(document', effect)[i] = WriteRule(offered[i])
      BY <2>1, <2>2, OfferWritten
    <3>2. offered[i] \in Offerable
      BY <3>1
    <3> QED
      BY <2>1, <3>1, <3>2, RuleWritten
  <2>3. DOMAIN document' = DocumentFields
    BY <2>1, OfferWritten
  <2>4. DocumentFine'
    BY <2>1, <2>2, <2>3 DEF DocumentFine, DocumentShaped
  <2> QED
    BY <2>1, <2>4 DEF TermsFine, CallFits
<1>3. ASSUME NEW doc \in Drafts, WriteByHand(doc) PROVE ExchangeInv'
  <2>1. document' = doc /\ byHand' = TRUE /\ UNCHANGED <<offered, edits, terms, fuller, called>>
    BY <1>3 DEF WriteByHand
  <2>2. DOMAIN doc = DocumentFields
    BY ExchangeAssumption DEF DocumentFields
  <2>3. ASSUME NEW effect \in {"allow", "deny"}, NEW i \in DOMAIN StatementsOf(doc, effect)
        PROVE  StatementShaped(StatementsOf(doc, effect)[i])
    <3> DEFINE s == StatementsOf(doc, effect)[i]
    <3>1. s \in {doc.permission[k] : k \in DOMAIN doc.permission}
                  \cup {doc.prohibition[k] : k \in DOMAIN doc.prohibition}
      BY <2>3 DEF StatementsOf
    <3> HIDE DEF s
    <3>2. /\ DOMAIN s = {"target", "assigner", "assignee", "action", "constraint",
                         "duty", "unknown"}
          /\ s.constraint \in Seq({s.constraint[k] : k \in DOMAIN s.constraint})
          /\ \A k \in DOMAIN s.constraint : ItemShaped(s.constraint[k])
      BY <3>1, ExchangeAssumption
    <3>3. StatementShaped(s)
      BY <3>2 DEF StatementShaped, StatementFields, Listed
    <3> QED
      BY <3>3 DEF s
  <2>4. DocumentFine'
    BY <2>1, <2>2, <2>3 DEF DocumentFine, DocumentShaped
  <2> QED
    BY <2>1, <2>4 DEF TermsFine, CallFits
<1>4. ASSUME NEW item \in Insertions, Edit(item) PROVE ExchangeInv'
  <2>1. /\ document # NoDocument /\ edits' = edits + 1
        /\ UNCHANGED <<offered, combined, byHand, terms, fuller, called>>
        /\ document' = [document EXCEPT !.permission = Adding(item, @),
                                        !.prohibition = Adding(item, @)]
    BY <1>4 DEF Edit
  <2>2. DocumentShaped(document')
    <3>1. DocumentShaped(document)
      BY <2>1 DEF DocumentFine
    <3> DEFINE edited == document'
    <3>2. edited = [document EXCEPT !.permission = Adding(item, document.permission),
                                    !.prohibition = Adding(item, document.prohibition)]
      BY <2>1
    <3> HIDE DEF edited
    <3>3. DocumentShaped(edited)
      BY <1>4, <3>1, <3>2, EditShapes
    <3> QED
      BY <3>3 DEF edited
  <2>3. edits' \in Nat /\ edits' # 0
    BY <2>1
  <2>4. DocumentFine'
    BY <2>2, <2>3 DEF DocumentFine
  <2> QED
    BY <2>1, <2>3, <2>4 DEF TermsFine, CallFits
<1>5. ASSUME NEW doc \in TermSheets, ReceiveTerms(doc) PROVE ExchangeInv'
  BY <1>5, ExchangeAssumption DEF ReceiveTerms, DocumentFine, TermsFine, CallFits, PartOf
<1>6. ASSUME terms # NoTerms, NEW i \in DOMAIN terms.terms,
             NEW name \in DOMAIN terms.terms[i] \ {"constraints"}, LeaveOut(i, name)
      PROVE  ExchangeInv'
  <2> DEFINE term == terms.terms[i]
             rest == [f \in DOMAIN term \ {name} |-> term[f]]
  <2>1. /\ terms' = [terms EXCEPT !.terms[i] = rest]
        /\ edits' = edits + 1
        /\ UNCHANGED <<offered, combined, document, byHand, fuller, called>>
    BY <1>6 DEF LeaveOut
  <2>2. DOMAIN terms = {"issuer", "target", "terms"}
    BY <1>6 DEF TermsFine
  <2>3. /\ DOMAIN terms' = DOMAIN terms
        /\ terms'.issuer = terms.issuer /\ terms'.target = terms.target
        /\ terms'.terms = [terms.terms EXCEPT ![i] = rest]
    BY <2>1, <2>2
  <2>4. PartOf(rest, fuller.terms[i])
    BY <1>6 DEF TermsFine, PartOf
  <2> HIDE DEF rest
  <2>5. TermsFine'
    BY <1>6, <2>1, <2>3, <2>4 DEF TermsFine
  <2>6. DocumentFine'
    BY <2>1 DEF DocumentFine
  <2> QED
    BY <2>1, <2>5, <2>6 DEF CallFits
<1>7. ASSUME NEW c \in Calls, Request(c) PROVE ExchangeInv'
  BY <1>7 DEF Request, DocumentFine, TermsFine, CallFits
<1>8. CASE UNCHANGED exchangeVars
  BY <1>8 DEF exchangeVars, DocumentFine, TermsFine, CallFits
<1> QED
  BY <1>1, <1>2, <1>3, <1>4, <1>5, <1>6, <1>7, <1>8 DEF ExchangeNext

-----------------------------------------------------------------------------
(* Reading: the kinds of constraints, and what is made of those of a kind. *)

(* Of some places of a list one is the last. *)
LEMMA LastIsThere ==
    ASSUME NEW n \in Nat, NEW places \in SUBSET (1 .. n), places # {}
    PROVE  LastOf(places) \in places
<1> DEFINE less == OpToRel(<, Nat)
           T == {n - i : i \in places}
<1>1. T \subseteq Nat /\ T # {}
  <2>1. \A i \in places : n - i \in Nat
    OBVIOUS
  <2> QED
    BY <2>1
<1>2. PICK x \in T : \A y \in T : ~(<<y, x>> \in less)
  <2> HIDE DEF T, less
  <2>1. IsWellFoundedOn(less, Nat)
    BY NatLessThanWellFounded DEF less
  <2> QED
    BY <1>1, <2>1, WFMin
<1>3. \A y \in T : y >= x
  <2> HIDE DEF T, less
  <2>1. x \in Nat /\ \A y \in T : y \in Nat
    BY <1>1, <1>2
  <2>2. ASSUME NEW y \in T, y < x PROVE FALSE
    <3>1. <<y, x>> \in less
      BY <2>1, <2>2 DEF less, OpToRel
    <3> QED
      BY <1>2, <3>1
  <2> QED
    BY <2>1, <2>2
<1>4. PICK i \in places : x = n - i
  BY <1>2
<1>5. \A j \in places : j <= i
  <2> TAKE j \in places
  <2>1. n - j \in T
    OBVIOUS
  <2> HIDE DEF T
  <2> QED
    BY <1>3, <1>4, <2>1
<1> QED
  BY <1>5 DEF LastOf

(* The kind of a constraint, case by case. *)
LEMMA KindIs ==
    ASSUME NEW item
    PROVE  /\ Kind(item) \in {"purposes", "not_before", "not_after", "required_context"} \cup Limits
                               \cup {"allowed_zones", "min_approval_tier"}
           /\ Kind(item) = "purposes" <=> IsPurpose(item)
           /\ Kind(item) = "not_after" <=> IsTime(item) /\ item.op \in Before
           /\ Kind(item) = "not_before" <=> IsTime(item) /\ item.op \in After
           /\ Kind(item) = "max_force_newtons" <=> item.left = "maxForceNewtons"
           /\ Kind(item) = "max_velocity_mps" <=> item.left = "maxVelocityMps"
           /\ Kind(item) = "allowed_zones" <=> item.left = "allowedZones"
           /\ Kind(item) = "min_approval_tier" <=> item.left = "minApprovalTier"
           /\ Kind(item) = "required_context" <=>
                 ~IsPurpose(item) /\ ~IsTime(item) /\ ~IsBound(item)
<1>1. /\ Before \cap After = {}
      /\ IsTime(item) <=> item.left = "dateTime" /\ item.op \in Before \cup After
      /\ IsPurpose(item) => item.left = "purpose"
  BY DEF Before, After, IsTime, IsPurpose
<1>2. /\ IsBound(item) <=> item.left \in {"maxForceNewtons", "maxVelocityMps", "allowedZones",
                                          "minApprovalTier"}
      /\ Bounds["maxForceNewtons"] = "max_force_newtons"
      /\ Bounds["maxVelocityMps"] = "max_velocity_mps"
      /\ Bounds["allowedZones"] = "allowed_zones"
      /\ Bounds["minApprovalTier"] = "min_approval_tier"
  BY DEF IsBound, Bounds
<1>3. CASE IsPurpose(item)
  <2>1. Kind(item) = "purposes"
    BY <1>1, <1>2, <1>3 DEF Kind
  <2> QED
    BY <1>1, <1>2, <1>3, <2>1 DEF Limits
<1>4. CASE IsTime(item)
  <2>1. Kind(item) = IF item.op \in Before THEN "not_after" ELSE "not_before"
    BY <1>1, <1>2, <1>4 DEF Kind
  <2> QED
    BY <1>1, <1>2, <1>4, <2>1 DEF Limits
<1>5. CASE IsBound(item)
  <2>1. Kind(item) = Bounds[item.left]
    BY <1>1, <1>2, <1>5 DEF Kind
  <2> QED
    BY <1>1, <1>2, <1>5, <2>1 DEF Limits
<1>6. CASE ~IsPurpose(item) /\ ~IsTime(item) /\ ~IsBound(item)
  <2>1. Kind(item) = "required_context"
    BY <1>6 DEF Kind
  <2> QED
    BY <1>1, <1>2, <1>6, <2>1 DEF Limits
<1> QED
  BY <1>3, <1>4, <1>5, <1>6

(* Constraints of one kind, but of the context, have one left operand. *)
LEMMA KindHasLeft ==
    ASSUME NEW one, NEW other, Kind(one) = Kind(other), Kind(one) # "required_context"
    PROVE  one.left = other.left
BY KindIs, Zenon DEF IsPurpose, IsTime, Limits

(* What is read, whatever is repeated: of each kind, the last one. *)
LEMMA ReadFromLast ==
    ASSUME NEW items, Listed(items), NEW name \in DOMAIN ReadConstraints(items),
           name # "required_context"
    PROVE  \E k \in DOMAIN items : /\ Kind(items[k]) = name
                                   /\ ReadConstraints(items)[name] = items[k].right
<1>1. PICK S : items \in Seq(S)
  BY DEF Listed
<1>2. Len(items) \in Nat /\ DOMAIN items = 1 .. Len(items)
  BY <1>1
<1> DEFINE places == OfKind(items, name)
<1>3. places \in SUBSET (1 .. Len(items)) /\ places # {}
  BY <1>2 DEF OfKind, ReadConstraints
<1>4. LastOf(places) \in places
  BY <1>2, <1>3, LastIsThere
<1>5. ReadConstraints(items)[name] = items[LastOf(places)].right
  BY DEF ReadConstraints
<1> HIDE DEF places
<1> QED
  BY <1>4, <1>5 DEF places, OfKind

(* No two constraints of a kind with one left operand. *)
OncePerKind(items) ==
    \A i, j \in DOMAIN items :
        Kind(items[i]) = Kind(items[j]) /\ items[i].left = items[j].left => i = j

(* The last of one place. *)
LEMMA LastOfOne ==
    ASSUME NEW k \in Int, NEW places, k \in places, \A j \in places : j = k
    PROVE  LastOf(places) = k
<1>1. \A j \in places : j <= k
  OBVIOUS
<1>2. LastOf(places) \in places
  BY <1>1 DEF LastOf
<1> QED
  BY <1>2

(* Where no kind is repeated, what is read of a kind is its constraint. *)
LEMMA ReadOnce ==
    ASSUME NEW items, Listed(items), OncePerKind(items), NEW name,
           name \notin {"purposes", "required_context"}
    PROVE  /\ name \in DOMAIN ReadConstraints(items) <=>
                 \E k \in DOMAIN items : Kind(items[k]) = name
           /\ \A k \in DOMAIN items :
                 Kind(items[k]) = name => ReadConstraints(items)[name] = items[k].right
<1>1. PICK S : items \in Seq(S)
  BY DEF Listed
<1>2. name \in DOMAIN ReadConstraints(items) <=> \E k \in DOMAIN items : Kind(items[k]) = name
  BY DEF ReadConstraints
<1>3. ASSUME NEW k \in DOMAIN items, Kind(items[k]) = name
      PROVE  ReadConstraints(items)[name] = items[k].right
  <2> DEFINE places == OfKind(items, name)
  <2>1. k \in places /\ k \in Int
    BY <1>1, <1>3 DEF OfKind
  <2>2. \A j \in places : j = k
    BY <1>3, KindHasLeft DEF OfKind, OncePerKind
  <2>3. LastOf(places) = k
    <3> HIDE DEF places
    <3> QED
      BY <2>1, <2>2, LastOfOne
  <2>4. ReadConstraints(items)[name] = items[LastOf(places)].right
    BY <1>2, <1>3 DEF ReadConstraints
  <2> QED
    BY <2>3, <2>4
<1> QED
  BY <1>2, <1>3

(* ... and of the context, each key with its values. *)
LEMMA ContextReadOnce ==
    ASSUME NEW items, Listed(items), OncePerKind(items)
    PROVE  LET OfContext(k) == k \in DOMAIN items /\ Kind(items[k]) = "required_context"
               required == ReadConstraints(items)["required_context"] IN
           /\ "required_context" \in DOMAIN ReadConstraints(items) <=> \E k : OfContext(k)
           /\ (\E k : OfContext(k)) =>
                 /\ \A key : key \in DOMAIN required <=> \E k : OfContext(k) /\ items[k].left = key
                 /\ \A k : OfContext(k) => required[items[k].left] = items[k].right
<1>1. PICK S : items \in Seq(S)
  BY DEF Listed
<1> DEFINE places == OfKind(items, "required_context")
           required == ReadConstraints(items)["required_context"]
<1>2. \A k : k \in places <=> k \in DOMAIN items /\ Kind(items[k]) = "required_context"
  BY DEF OfKind
<1>3. "required_context" \in DOMAIN ReadConstraints(items) <=> \E k : k \in places
  BY <1>2 DEF ReadConstraints
<1>4. (\E k : k \in places) => required = RequiredContext(items)
  BY <1>3 DEF ReadConstraints
<1>5. DOMAIN RequiredContext(items) = {items[i].left : i \in places}
  BY DEF RequiredContext
<1>6. ASSUME NEW k \in places PROVE RequiredContext(items)[items[k].left] = items[k].right
  <2> DEFINE alike == {i \in places : items[i].left = items[k].left}
  <2>1. RequiredContext(items)[items[k].left] = items[LastOf(alike)].right
    BY <1>6 DEF RequiredContext
  <2>2. k \in alike /\ k \in Int
    BY <1>1, <1>2, <1>6
  <2>3. \A j \in alike : j = k
    BY <1>2, <1>6 DEF OncePerKind
  <2> HIDE DEF alike
  <2> QED
    BY <2>1, <2>2, <2>3, LastOfOne
<1> HIDE DEF places, required
<1> QED
  BY <1>2, <1>3, <1>4, <1>5, <1>6 DEF required

-----------------------------------------------------------------------------
(* Statements *)

(* A value that is read is in the range the engine asks for. *)
LEMMA ReadableFits ==
    ASSUME NEW item, NEW profile, ReadableItem(item, profile)
    PROVE  /\ Kind(item) \in Limits => item.right >= 0
           /\ Kind(item) = "allowed_zones" => item.right # {}
           /\ Kind(item) = "min_approval_tier" => item.right \in 0 .. 2
           /\ Kind(item) = "required_context" => item.op = "eq" /\ item.left # "purpose"
<1>1. Kind(item) \in Limits \cup {"allowed_zones", "min_approval_tier"} =>
         IsBound(item) /\ Kind(item) = Bounds[item.left]
  BY KindIs DEF IsBound, Bounds, Limits
<1>2. IsBound(item) => Comparable(item)
  BY DEF ReadableItem
<1>3. Kind(item) = "required_context" => item.op = "eq" /\ item.left # "purpose"
  BY KindIs DEF ReadableItem
<1>4. Kind(item) \in Limits => item.right >= 0
  BY <1>1, <1>2 DEF Comparable, Limits
<1>5. Kind(item) = "allowed_zones" => item.right # {}
  BY <1>1, <1>2 DEF Comparable, Limits
<1>6. Kind(item) = "min_approval_tier" => item.right \in 0 .. 2
  BY <1>1, <1>2 DEF Comparable, Limits
<1> QED
  BY <1>3, <1>4, <1>5, <1>6

(* An engine that knows the actions accepts what was read. *)
LEMMA ReadIsValid ==
    ASSUME NEW rule, NEW items, Listed(items), rule.constraints = ReadConstraints(items),
           NEW profile, \A k \in DOMAIN items : ReadableItem(items[k], profile),
           RequireKnown => rule.actions \subseteq KnownActions
    PROVE  ValidRule(rule)
<1> DEFINE c == ReadConstraints(items)
<1>1. DOMAIN c \subseteq Supported
  <2> SUFFICES ASSUME NEW name \in DOMAIN c PROVE name \in Supported
    OBVIOUS
  <2>1. \E k \in DOMAIN items : Kind(items[k]) = name /\ name # "purposes"
    BY DEF ReadConstraints
  <2> QED
    BY <2>1, KindIs DEF Supported, Limits
<1>2. ASSUME NEW name \in DOMAIN c
      PROVE  /\ name \in Limits => c[name] >= 0
             /\ name = "allowed_zones" => c[name] # {}
             /\ name = "min_approval_tier" => c[name] \in 0 .. 2
  <2>1. CASE name = "required_context"
    BY <2>1 DEF Limits
  <2>2. CASE name # "required_context"
    <3>1. PICK k \in DOMAIN items : Kind(items[k]) = name /\ c[name] = items[k].right
      BY <1>2, <2>2, ReadFromLast
    <3> HIDE DEF c
    <3> QED
      BY <3>1, ReadableFits
  <2> QED
    BY <2>1, <2>2
<1> QED
  BY <1>1, <1>2 DEF ValidRule

(* The time of a constraint is a number, unless it is null. *)
TimeShaped(item) ==
    item.left = "dateTime" /\ item.op \in {"lt", "lteq", "gt", "gteq"} =>
        item.right \in Int \cup {NoValue}

(* What a constraint says, by its kind. *)
LEMMA HoldsByKind ==
    ASSUME NEW item, NEW profile, ReadableItem(item, profile), TimeShaped(item),
           NEW request, NEW t \in Int, IsTime(item) => item.right # t
    PROVE  LET context == request.context IN
           /\ Kind(item) = "purposes" =>
                 (Holds(item, request, t) <=> MatchesAny(item.right, request.purpose))
           /\ Kind(item) = "not_after" => (Holds(item, request, t) <=> t < item.right)
           /\ Kind(item) = "not_before" => (Holds(item, request, t) <=> t >= item.right)
           /\ Kind(item) = "max_force_newtons" =>
                 (Holds(item, request, t) <=>
                     "force_newtons" \in DOMAIN context /\ context["force_newtons"] <= item.right)
           /\ Kind(item) = "max_velocity_mps" =>
                 (Holds(item, request, t) <=>
                     "velocity_mps" \in DOMAIN context /\ context["velocity_mps"] <= item.right)
           /\ Kind(item) = "allowed_zones" =>
                 (Holds(item, request, t) <=>
                     "zone" \in DOMAIN context /\ MatchesAny(item.right, context["zone"]))
           /\ Kind(item) = "min_approval_tier" => Holds(item, request, t)
           /\ Kind(item) = "required_context" =>
                 (Holds(item, request, t) <=> ValueOf(context, item.left) \in item.right)
<1> DEFINE context == request.context
<1>1. CASE Kind(item) = "purposes"
  <2>1. IsPurpose(item) /\ item.left = "purpose"
    BY <1>1, KindIs DEF IsPurpose
  <2> QED
    BY <1>1, <2>1 DEF Holds
<1>2. CASE Kind(item) = "not_after"
  <2>1. item.left = "dateTime" /\ item.op \in {"lt", "lteq"} /\ IsTime(item)
    BY <1>2, KindIs DEF IsTime, Before
  <2>2. item.right \in Int /\ item.right # t /\ ~IsPurpose(item)
    BY <2>1 DEF TimeShaped, IsPurpose, ReadableItem
  <2>3. Holds(item, request, t) <=> IF item.op = "lt" THEN t < item.right ELSE t <= item.right
    BY <2>1, <2>2 DEF Holds
  <2> QED
    BY <1>2, <2>2, <2>3
<1>3. CASE Kind(item) = "not_before"
  <2>1. item.left = "dateTime" /\ item.op \in {"gt", "gteq"} /\ IsTime(item)
    BY <1>3, KindIs DEF IsTime, After
  <2>2. item.right \in Int /\ item.right # t /\ ~IsPurpose(item)
    BY <2>1 DEF TimeShaped, IsPurpose, ReadableItem
  <2>3. Holds(item, request, t) <=> IF item.op = "gt" THEN t > item.right ELSE t >= item.right
    BY <2>1, <2>2 DEF Holds
  <2> QED
    BY <1>3, <2>2, <2>3
<1>4. CASE Kind(item) = "max_force_newtons"
  <2>1. item.left = "maxForceNewtons" /\ ~IsPurpose(item)
    BY <1>4, KindIs DEF IsPurpose
  <2> QED
    BY <1>4, <2>1 DEF Holds
<1>5. CASE Kind(item) = "max_velocity_mps"
  <2>1. item.left = "maxVelocityMps" /\ ~IsPurpose(item)
    BY <1>5, KindIs DEF IsPurpose
  <2> QED
    BY <1>5, <2>1 DEF Holds
<1>6. CASE Kind(item) = "allowed_zones"
  <2>1. item.left = "allowedZones" /\ ~IsPurpose(item)
    BY <1>6, KindIs DEF IsPurpose
  <2> QED
    BY <1>6, <2>1 DEF Holds
<1>7. CASE Kind(item) = "min_approval_tier"
  <2>1. item.left = "minApprovalTier" /\ ~IsPurpose(item)
    BY <1>7, KindIs DEF IsPurpose
  <2> QED
    BY <1>7, <2>1 DEF Holds
<1>8. CASE Kind(item) = "required_context"
  <2>1. item.op = "eq" /\ item.left # "purpose" /\ ~IsPurpose(item) /\ ~IsBound(item)
    BY <1>8, KindIs, ReadableFits
  <2>2. item.left \notin {"maxForceNewtons", "maxVelocityMps", "allowedZones", "minApprovalTier"}
    BY <2>1 DEF IsBound, Bounds
  <2> QED
    BY <1>8, <2>1, <2>2 DEF Holds
<1> QED
  BY <1>1, <1>2, <1>3, <1>4, <1>5, <1>6, <1>7, <1>8

(* Cut, a list of constraints is one still. *)
LEMMA CutIsListed ==
    ASSUME NEW items, Listed(items)
    PROVE  Listed(CutAll(items)) /\ \A k \in DOMAIN CutAll(items) : TimeShaped(CutAll(items)[k])
<1> DEFINE cut == CutAll(items)
<1>1. PICK S : items \in Seq(S)
  BY DEF Listed
<1>2. DOMAIN cut = DOMAIN items /\ \A k \in DOMAIN items : cut[k] = Cut(items[k])
  BY DEF CutAll
<1>3. ASSUME NEW k \in DOMAIN items PROVE ItemShaped(Cut(items[k])) /\ TimeShaped(Cut(items[k]))
  <2> DEFINE item == items[k]
  <2>1. ItemShaped(item)
    BY DEF Listed
  <2> HIDE DEF item
  <2>2. /\ Cut(item).left = LastPart[item.left] /\ Cut(item).op = LastPart[item.op]
        /\ Cut(item).right = item.right
    BY DEF Cut, Item
  <2>3. /\ {LastPart[item.left], LastPart[item.op]} \subseteq DOMAIN LastPart
        /\ LastPart[LastPart[item.left]] = LastPart[item.left]
        /\ LastPart[LastPart[item.op]] = LastPart[item.op]
    BY <2>1, ExchangeAssumption DEF ItemShaped
  <2>4. Cut(Cut(item)) = Cut(item)
    BY <2>2, <2>3 DEF Cut, Item
  <2>5. ItemShaped(Cut(item)) /\ TimeShaped(Cut(item))
    BY <2>1, <2>2, <2>3, <2>4 DEF ItemShaped, TimeShaped
  <2> QED
    BY <2>5 DEF item
<1>4. cut \in Seq({cut[k] : k \in DOMAIN items})
  BY <1>1, <1>2 DEF CutAll
<1> HIDE DEF cut
<1>5. Listed(cut) /\ \A k \in DOMAIN cut : TimeShaped(cut[k])
  BY <1>2, <1>3, <1>4 DEF Listed
<1> QED
  BY <1>5 DEF cut

(* A rule applies exactly when all that its statement says holds. *)
LEMMA StatementHolds ==
    ASSUME NEW rule, NEW items, Listed(items), rule.constraints = ReadConstraints(items),
           rule.purposes = ReadPurposes(items), rule.effect \in {"allow", "deny"},
           NEW profile,
           \A k \in DOMAIN items : ReadableItem(items[k], profile) /\ TimeShaped(items[k]),
           NEW request, RequestShaped(request), NEW t \in Int, Unambiguous(items, t),
           rule.effect = "deny" => ~\E k \in DOMAIN items : IsBound(items[k])
    PROVE  MatchesAny(rule.purposes, request.purpose) /\ ConstraintsHold(rule, request, t)
              <=> \A k \in DOMAIN items : Holds(items[k], request, t)
<1> DEFINE context == request.context
           c == ReadConstraints(items)
           Says(name) == \A k \in DOMAIN items :
                            Kind(items[k]) = name => Holds(items[k], request, t)
<1>1. OncePerKind(items) /\ \A k \in DOMAIN items :
         TimeShaped(items[k]) /\ (IsTime(items[k]) => items[k].right # t)
  BY DEF Unambiguous, OncePerKind
<1>2. MatchesAny(rule.purposes, request.purpose) <=> Says("purposes")
  <2>1. CASE OfKind(items, "purposes") = {}
    <3>1. rule.purposes = {Star}
      BY <2>1 DEF ReadPurposes
    <3>2. MatchesAny(rule.purposes, request.purpose)
      BY <3>1, EngineAssumption DEF MatchesAny, RequestShaped
    <3>3. Says("purposes")
      BY <2>1 DEF OfKind
    <3> QED
      BY <3>2, <3>3
  <2>2. ASSUME NEW k \in OfKind(items, "purposes")
        PROVE  MatchesAny(rule.purposes, request.purpose) <=> Says("purposes")
    <3>1. \A i \in DOMAIN items : Kind(items[i]) = "purposes" <=> i = k
      BY <1>1, <2>2, KindHasLeft DEF OfKind, OncePerKind
    <3>2. OfKind(items, "purposes") = {k} /\ k \in DOMAIN items
      BY <2>2, <3>1 DEF OfKind
    <3>3. rule.purposes = items[k].right
      BY <3>2 DEF ReadPurposes
    <3>4. Holds(items[k], request, t) <=> MatchesAny(items[k].right, request.purpose)
      BY <1>1, <3>1, <3>2, HoldsByKind
    <3> QED
      BY <3>1, <3>2, <3>3, <3>4, Zenon
  <2> QED
    BY <2>1, <2>2
<1>3. ASSUME NEW name, name \notin {"purposes", "required_context"}
      PROVE  /\ Has(rule, name) <=> \E k \in DOMAIN items : Kind(items[k]) = name
             /\ \A k \in DOMAIN items :
                   Kind(items[k]) = name => rule.constraints[name] = items[k].right
  BY <1>1, <1>3, ReadOnce DEF Has
<1>4. InTime(rule, t) <=> Says("not_before") /\ Says("not_after")
  <2>1. (Has(rule, "not_before") => t >= rule.constraints["not_before"]) <=> Says("not_before")
    BY <1>1, <1>3, HoldsByKind
  <2>2. (Has(rule, "not_after") => t < rule.constraints["not_after"]) <=> Says("not_after")
    BY <1>1, <1>3, HoldsByKind
  <2> QED
    BY <2>1, <2>2 DEF InTime
<1>5. InContext(rule, context) <=> Says("required_context")
  <2> DEFINE required == rule.constraints["required_context"]
  <2>1. Has(rule, "required_context") <=>
           \E k \in DOMAIN items : Kind(items[k]) = "required_context"
    BY <1>1, ContextReadOnce DEF Has
  <2>2. Has(rule, "required_context") =>
           /\ \A key : key \in DOMAIN required <=>
                 \E k \in DOMAIN items : Kind(items[k]) = "required_context" /\ items[k].left = key
           /\ \A k \in DOMAIN items :
                 Kind(items[k]) = "required_context" => required[items[k].left] = items[k].right
    BY <1>1, <2>1, ContextReadOnce
  <2>3. \A k \in DOMAIN items : Kind(items[k]) = "required_context" =>
           /\ Holds(items[k], request, t) <=> ValueOf(context, items[k].left) \in items[k].right
           /\ Wanted(items[k].right) = items[k].right
    BY <1>1, HoldsByKind DEF Wanted, ReadableItem
  <2> HIDE DEF required, context
  <2>4. CASE ~Has(rule, "required_context")
    BY <2>1, <2>4 DEF InContext
  <2>5. CASE Has(rule, "required_context")
    <3>1. InContext(rule, context) <=>
             \A key \in DOMAIN required : ValueOf(context, key) \in Wanted(required[key])
      BY <2>5 DEF InContext, required
    <3> QED
      BY <2>2, <2>3, <2>5, <3>1
  <2> QED
    BY <2>4, <2>5
<1>6. Attended(rule, context) /\ WithinRisk(rule, context)
  <2>1. ~Has(rule, "requires_human_present") /\ ~Has(rule, "max_risk_tier")
    BY <1>3, KindIs DEF Limits
  <2> QED
    BY <2>1 DEF Attended, WithinRisk
<1>7. PhysicalHolds(rule, context) <=>
         Says("max_force_newtons") /\ Says("max_velocity_mps") /\ Says("allowed_zones")
  <2>1. CASE rule.effect = "deny"
    <3>1. \A k \in DOMAIN items :
             Kind(items[k]) \notin {"max_force_newtons", "max_velocity_mps", "allowed_zones"}
      BY <2>1, KindIs DEF IsBound, Bounds
    <3>2. ~Has(rule, "max_force_newtons") /\ ~Has(rule, "max_velocity_mps")
          /\ ~Has(rule, "allowed_zones")
      BY <1>3, <3>1
    <3>3. PhysicalHolds(rule, context)
      BY <2>1, <3>2 DEF PhysicalHolds, Limits
    <3> QED
      BY <3>1, <3>3
  <2>2. CASE rule.effect = "allow"
    <3>1. ~Exceeds(rule, context, "max_force_newtons", "force_newtons")
             <=> Says("max_force_newtons")
      BY <1>1, <1>3, HoldsByKind DEF Exceeds
    <3>2. ~Exceeds(rule, context, "max_velocity_mps", "velocity_mps")
             <=> Says("max_velocity_mps")
      BY <1>1, <1>3, HoldsByKind DEF Exceeds
    <3>3. (Has(rule, "allowed_zones") => InZone(rule, context)) <=> Says("allowed_zones")
      BY <1>1, <1>3, HoldsByKind DEF InZone
    <3> HIDE DEF Says
    <3> QED
      BY <2>2, <3>1, <3>2, <3>3 DEF PhysicalHolds, TooMuch
  <2> QED
    BY <2>1, <2>2
<1>8. Says("min_approval_tier")
  BY <1>1, HoldsByKind
<1>9. (\A k \in DOMAIN items : Holds(items[k], request, t)) <=>
         /\ Says("purposes") /\ Says("not_before") /\ Says("not_after")
         /\ Says("required_context") /\ Says("max_force_newtons")
         /\ Says("max_velocity_mps") /\ Says("allowed_zones") /\ Says("min_approval_tier")
  BY KindIs DEF Limits
<1> HIDE DEF Says
<1> QED
  BY <1>2, <1>4, <1>5, <1>6, <1>7, <1>8, <1>9 DEF ConstraintsHold

(* So a statement of any document that is read keeps its meaning. *)
LEMMA StatementsKept ==
    ASSUME DocumentFine
    PROVE  StatementsKeepMeaning
<1> SUFFICES ASSUME document # NoDocument, ReadsRules(document),
                    NEW effect \in {"allow", "deny"},
                    NEW i \in DOMAIN StatementsOf(document, effect)
             PROVE  LET s == StatementsOf(document, effect)[i]
                        rule == ReadStatement(s, effect, i, document.assigner) IN
                    /\ (RequireKnown => rule.actions \subseteq KnownActions) => ValidRule(rule)
                    /\ \A asked \in Asked :
                          StatementSays(rule, CutAll(s.constraint), asked[1], asked[2])
  BY DEF StatementsKeepMeaning
<1> DEFINE s == StatementsOf(document, effect)[i]
           rule == ReadStatement(s, effect, i, document.assigner)
           items == CutAll(s.constraint)
<1>1. s \in AllStatements(document)
  BY DEF AllStatements
<1>2. ReadableStatement(s, document.profile) /\ Listed(s.constraint)
  BY <1>1 DEF ReadsRules, DocumentFine, DocumentShaped, StatementShaped
<1>7. Listed(items) /\ \A k \in DOMAIN items : TimeShaped(items[k])
  BY <1>2, CutIsListed
<1>3. \A k \in DOMAIN items : ReadableItem(items[k], document.profile)
  BY <1>2 DEF ReadableStatement, CutAll
<1>4. /\ rule.constraints = ReadConstraints(items) /\ rule.purposes = ReadPurposes(items)
      /\ rule.effect = effect
  BY DEF ReadStatement
<1> HIDE DEF rule, items
<1>5. (RequireKnown => rule.actions \subseteq KnownActions) => ValidRule(rule)
  BY <1>3, <1>4, <1>7, ReadIsValid
<1>6. ASSUME NEW asked \in Asked PROVE StatementSays(rule, items, asked[1], asked[2])
  <2>1. RequestShaped(asked[1]) /\ asked[2] \in Int
    BY ExchangeAssumption
  <2> QED
    BY <1>3, <1>4, <1>7, <2>1, StatementHolds DEF StatementSays
<1> QED
  BY <1>5, <1>6 DEF rule, items

-----------------------------------------------------------------------------
(* Exports *)

(* Rules with one effect and the same constraints hold alike, whatever     *)
(* their contexts, if these hold alike.                                    *)
LEMMA ConstraintsAlike ==
    ASSUME NEW one, NEW other, NEW request, NEW t, one.effect = other.effect,
           InContext(one, request.context) <=> InContext(other, request.context),
           \A name : name # "required_context" =>
              /\ Has(one, name) <=> Has(other, name)
              /\ Has(one, name) => one.constraints[name] = other.constraints[name]
    PROVE  /\ ConstraintsHold(one, request, t) <=> ConstraintsHold(other, request, t)
           /\ Tier(one) = Tier(other)
<1> DEFINE context == request.context
<1>1. InTime(one, t) <=> InTime(other, t)
  BY DEF InTime
<1>2. Attended(one, context) <=> Attended(other, context)
  BY DEF Attended
<1>3. WithinRisk(one, context) <=> WithinRisk(other, context)
  BY DEF WithinRisk
<1>4. TooMuch(one, context) <=> TooMuch(other, context)
  BY DEF TooMuch, Exceeds
<1>5. Has(one, "allowed_zones") => (InZone(one, context) <=> InZone(other, context))
  BY DEF InZone
<1>6. PhysicalHolds(one, context) <=> PhysicalHolds(other, context)
  BY <1>4, <1>5 DEF PhysicalHolds, Limits
<1>7. Tier(one) = Tier(other)
  BY DEF Tier
<1> QED
  BY <1>1, <1>2, <1>3, <1>6, <1>7 DEF ConstraintsHold

(* A constraint is read as the kind it was written for. *)
LEMMA OperandKind ==
    ASSUME NEW name \in DOMAIN Operand, NEW value
    PROVE  Kind(Item(Operand[name].left, Operand[name].op, value)) = name
<1> DEFINE item == Item(Operand[name].left, Operand[name].op, value)
<1>1. item.left = Operand[name].left /\ item.op = Operand[name].op
  BY DEF Item
<1>2. name \in {"max_force_newtons", "max_velocity_mps", "allowed_zones",
                "min_approval_tier", "not_before", "not_after"}
  BY DEF Operand
<1> HIDE DEF item
<1>3. name = "max_force_newtons" => Kind(item) = name
  BY <1>1, KindIs DEF Operand
<1>4. name = "max_velocity_mps" => Kind(item) = name
  BY <1>1, KindIs DEF Operand
<1>5. name = "allowed_zones" => Kind(item) = name
  BY <1>1, KindIs DEF Operand
<1>6. name = "min_approval_tier" => Kind(item) = name
  BY <1>1, KindIs DEF Operand
<1>7. name = "not_before" => Kind(item) = name
  BY <1>1, KindIs DEF Operand, IsTime, After
<1>8. name = "not_after" => Kind(item) = name
  BY <1>1, KindIs DEF Operand, IsTime, Before
<1> QED
  BY <1>2, <1>3, <1>4, <1>5, <1>6, <1>7, <1>8 DEF item

(* So is a key of the context that is no operand with a meaning of its *)
(* own. *)
LEMMA KeyKind ==
    ASSUME NEW key, key \notin {"purpose"} \cup DOMAIN Bounds, NEW value
    PROVE  Kind(Item(key, "eq", value)) = "required_context"
BY KindIs DEF Item, IsPurpose, IsTime, IsBound, Before, After

(* No key of its context has a path or is an operand with a meaning of its *)
(* own, and its actions are read as they are written.                      *)
Unmistaken(rule) ==
    /\ \A action \in rule.actions : ActionName[action] = action
    /\ Has(rule, "required_context") =>
          \A key \in DOMAIN rule.constraints["required_context"] :
              LastPart[key] = key /\ key \notin {"purpose"} \cup DOMAIN Bounds

(* What was written for such a rule is cut nowhere. *)
LEMMA NothingCut ==
    ASSUME NEW rule, Writable(rule), Unmistaken(rule),
           NEW items, Lists(items, Written(rule)), Listed(items)
    PROVE  CutAll(items) = items
<1>1. ASSUME NEW k \in DOMAIN items PROVE Cut(items[k]) = items[k]
  <2> DEFINE item == items[k]
  <2>1. item \in Written(rule)
    BY DEF Lists
  <2> HIDE DEF item
  <2>2. ASSUME NEW name \in DOMAIN Operand,
               item = Item(Operand[name].left, Operand[name].op, rule.constraints[name])
        PROVE  Cut(item) = item
    <3>1. Operand[name].left \in OdrlNames /\ Operand[name].op \in OdrlNames
      BY DEF Operand, OdrlNames
    <3>2. /\ LastPart[Operand[name].left] = Operand[name].left
          /\ LastPart[Operand[name].op] = Operand[name].op
      BY <3>1, ExchangeAssumption
    <3> QED
      BY <2>2, <3>2 DEF Cut, Item
  <2>3. ASSUME Has(rule, "required_context"),
               NEW key \in DOMAIN rule.constraints["required_context"],
               item = Item(key, "eq", rule.constraints["required_context"][key])
        PROVE  Cut(item) = item
    <3>1. LastPart["eq"] = "eq" /\ LastPart[key] = key
      BY <2>3, ExchangeAssumption DEF OdrlNames, Unmistaken
    <3> QED
      BY <2>3, <3>1 DEF Cut, Item
  <2>4. Cut(item) = item
    BY <2>1, <2>2, <2>3, WrittenIs
  <2> QED
    BY <2>4 DEF item
<1>2. CutAll(items) = [k \in DOMAIN items |-> items[k]]
  BY <1>1 DEF CutAll
<1> QED
  BY <1>2 DEF Listed

(* What was written of a rule is read back.  Only an empty context is not, *)
(* which asks for nothing.                                                 *)
LEMMA ReadBack ==
    ASSUME NEW rule, Writable(rule), Unmistaken(rule), NEW items,
           Lists(items, Written(rule)), Listed(items)
    PROVE  /\ ReadPurposes(items) = {Star}
           /\ \A name : name # "required_context" =>
                 /\ name \in DOMAIN ReadConstraints(items) <=> Has(rule, name)
                 /\ Has(rule, name) => ReadConstraints(items)[name] = rule.constraints[name]
           /\ LET read == ReadConstraints(items)["required_context"]
                  required == rule.constraints["required_context"] IN
              IF "required_context" \in DOMAIN ReadConstraints(items)
              THEN /\ Has(rule, "required_context")
                   /\ \A key : key \in DOMAIN read <=> key \in DOMAIN required
                   /\ \A key \in DOMAIN required : read[key] = required[key]
              ELSE Has(rule, "required_context") => DOMAIN required = {}
<1> DEFINE c == rule.constraints
           Plain(name) == Item(Operand[name].left, Operand[name].op, c[name])
           required == c["required_context"]
           Keyed(key) == Item(key, "eq", required[key])
<1>1. /\ \A name \in DOMAIN Operand : Kind(Plain(name)) = name /\ Plain(name).right = c[name]
      /\ DOMAIN Operand \cap {"purposes", "required_context"} = {}
  BY OperandKind DEF Item, Operand
<1>2. Has(rule, "required_context") =>
         \A key \in DOMAIN required : /\ Kind(Keyed(key)) = "required_context"
                                      /\ Keyed(key).left = key /\ Keyed(key).right = required[key]
  BY KeyKind DEF Item, Unmistaken
<1>3. \A item : item \in Written(rule) <=>
         \/ \E name \in DOMAIN Operand : Has(rule, name) /\ item = Plain(name)
         \/ Has(rule, "required_context") /\ \E key \in DOMAIN required : item = Keyed(key)
  BY WrittenIs
<1>4. \A name : Has(rule, name) => name \in DOMAIN Operand \/ name = "required_context"
  BY DEF Has, Writable
<1> HIDE DEF Plain, Keyed, required, c
<1>5. \A k \in DOMAIN items :
         \/ /\ Kind(items[k]) \in DOMAIN Operand /\ Has(rule, Kind(items[k]))
            /\ items[k] = Plain(Kind(items[k]))
         \/ /\ Kind(items[k]) = "required_context" /\ Has(rule, "required_context")
            /\ items[k].left \in DOMAIN required /\ items[k] = Keyed(items[k].left)
  <2> TAKE k \in DOMAIN items
  <2>1. items[k] \in Written(rule)
    BY DEF Lists
  <2> QED
    BY <1>1, <1>2, <1>3, <2>1
<1>6. OncePerKind(items)
  <2> SUFFICES ASSUME NEW i \in DOMAIN items, NEW j \in DOMAIN items,
                      Kind(items[i]) = Kind(items[j]), items[i].left = items[j].left
               PROVE  i = j
    BY DEF OncePerKind
  <2>1. items[i] = items[j]
    BY <1>1, <1>5
  <2> QED
    BY <2>1 DEF Lists
<1>7. ReadPurposes(items) = {Star}
  <2>1. OfKind(items, "purposes") = {}
    BY <1>1, <1>5 DEF OfKind
  <2> QED
    BY <2>1 DEF ReadPurposes
<1>8. ASSUME NEW name, name # "required_context"
      PROVE  /\ name \in DOMAIN ReadConstraints(items) <=> Has(rule, name)
             /\ Has(rule, name) => ReadConstraints(items)[name] = c[name]
  <2>1. CASE name = "purposes"
    <3>1. name \notin DOMAIN ReadConstraints(items) /\ ~Has(rule, name)
      BY <2>1, <1>1, <1>4 DEF ReadConstraints
    <3> QED
      BY <3>1
  <2>2. CASE name # "purposes"
    <3>1. (\E k \in DOMAIN items : Kind(items[k]) = name) => Has(rule, name)
      BY <1>5, <1>8
    <3>2. ASSUME Has(rule, name)
          PROVE  \E k \in DOMAIN items : Kind(items[k]) = name /\ items[k].right = c[name]
      <4>1. name \in DOMAIN Operand /\ Plain(name) \in Written(rule)
        BY <1>3, <1>4, <1>8, <3>2
      <4>2. PICK k \in DOMAIN items : items[k] = Plain(name)
        BY <4>1 DEF Lists
      <4> QED
        BY <1>1, <4>1, <4>2
    <3> QED
      BY <1>6, <1>8, <2>2, <3>1, <3>2, ReadOnce
  <2> QED
    BY <2>1, <2>2
<1> DEFINE read == ReadConstraints(items)["required_context"]
           OfContext(k) == k \in DOMAIN items /\ Kind(items[k]) = "required_context"
<1>9. /\ "required_context" \in DOMAIN ReadConstraints(items) <=> \E k : OfContext(k)
      /\ (\E k : OfContext(k)) =>
            /\ \A key : key \in DOMAIN read <=> \E k : OfContext(k) /\ items[k].left = key
            /\ \A k : OfContext(k) => read[items[k].left] = items[k].right
  BY <1>6, ContextReadOnce
<1>10. \A k : OfContext(k) => /\ Has(rule, "required_context") /\ items[k].left \in DOMAIN required
                              /\ items[k].right = required[items[k].left]
  BY <1>1, <1>2, <1>5
<1>11. Has(rule, "required_context") =>
          \A key \in DOMAIN required : \E k : OfContext(k) /\ items[k].left = key
  <2> SUFFICES ASSUME Has(rule, "required_context"), NEW key \in DOMAIN required
               PROVE  \E k : OfContext(k) /\ items[k].left = key
    OBVIOUS
  <2>1. Keyed(key) \in Written(rule)
    BY <1>3
  <2>2. PICK k \in DOMAIN items : items[k] = Keyed(key)
    BY <2>1 DEF Lists
  <2> QED
    BY <1>2, <2>2
<1> HIDE DEF read, OfContext
<1>12. IF "required_context" \in DOMAIN ReadConstraints(items)
       THEN /\ Has(rule, "required_context")
            /\ \A key : key \in DOMAIN read <=> key \in DOMAIN required
            /\ \A key \in DOMAIN required : read[key] = required[key]
       ELSE Has(rule, "required_context") => DOMAIN required = {}
  <2>1. CASE ~\E k : OfContext(k)
    <3>1. Has(rule, "required_context") => DOMAIN required = {}
      BY <1>11, <2>1
    <3> QED
      BY <1>9, <2>1, <3>1
  <2>2. CASE \E k : OfContext(k)
    <3>1. Has(rule, "required_context")
      BY <1>10, <2>2
    <3>2. \A key : key \in DOMAIN read <=> key \in DOMAIN required
      BY <1>9, <1>10, <1>11, <2>2, <3>1
    <3>3. ASSUME NEW key \in DOMAIN required PROVE read[key] = required[key]
      <4>1. PICK k : OfContext(k) /\ items[k].left = key
        BY <1>11, <3>1
      <4> QED
        BY <1>9, <1>10, <2>2, <4>1
    <3> QED
      BY <1>9, <2>2, <3>1, <3>2, <3>3
  <2> QED
    BY <2>1, <2>2
<1> QED
  BY <1>7, <1>8, <1>12 DEF read, required, c

(* The rule that is read for the rule at place i of the bundle. *)
Back(i) == ReadStatement(WriteRule(offered[i]), offered[i].effect, i, Publisher)

Exported ==
    /\ offered \in Seq(Offerable)
    /\ document = WriteOffer(offered, combined)
    /\ combined \subseteq Barred
    /\ \A i \in DOMAIN offered : Writable(offered[i])

(* The rules read are those that are read back at each place. *)
LEMMA RulesBack ==
    ASSUME Exported
    PROVE  \A rule : rule \in RulesRead(document) <=> \E i \in DOMAIN offered : rule = Back(i)
<1>1. \A i \in DOMAIN offered : offered[i].effect \in {"allow", "deny"}
  BY ExchangeAssumption DEF Exported
<1>2. ASSUME NEW effect \in {"allow", "deny"}
      PROVE  /\ \A i : i \in DOMAIN StatementsOf(document, effect)
                        <=> i \in DOMAIN offered /\ offered[i].effect = effect
             /\ \A i \in DOMAIN StatementsOf(document, effect) :
                   StatementsOf(document, effect)[i] = WriteRule(offered[i])
             /\ document.assigner = Publisher
  BY <1>2, OfferWritten DEF Exported
<1>3. ASSUME NEW rule
      PROVE  rule \in RulesRead(document) <=>
                \E effect \in {"allow", "deny"} : \E i \in DOMAIN StatementsOf(document, effect) :
                   rule = ReadStatement(StatementsOf(document, effect)[i], effect, i,
                                        document.assigner)
  BY DEF RulesRead
<1>4. ASSUME NEW effect \in {"allow", "deny"}, NEW i \in DOMAIN StatementsOf(document, effect)
      PROVE  /\ i \in DOMAIN offered
             /\ ReadStatement(StatementsOf(document, effect)[i], effect, i, document.assigner)
                   = Back(i)
  BY <1>2, <1>4 DEF Back
<1>5. ASSUME NEW i \in DOMAIN offered
      PROVE  \E effect \in {"allow", "deny"} : i \in DOMAIN StatementsOf(document, effect)
  BY <1>1, <1>2
<1> QED
  BY <1>3, <1>4, <1>5

(* ... which holds when the rule does. *)
LEMMA BackIsAlike ==
    ASSUME Exported, NEW i \in DOMAIN offered, Unmistaken(offered[i]), NEW request, NEW t
    PROVE  LET rule == offered[i] IN
           /\ Back(i).effect = rule.effect /\ Back(i).issuer = Publisher
           /\ Back(i).target = rule.target /\ Back(i).actions = rule.actions
           /\ Back(i).subjects = rule.subjects /\ Back(i).purposes = {Star}
           /\ ConstraintsHold(Back(i), request, t) <=> ConstraintsHold(rule, request, t)
           /\ Tier(Back(i)) = Tier(rule)
<1> DEFINE rule == offered[i]
           items == WriteRule(rule).constraint
<1>1. rule \in Offerable /\ Writable(rule)
  BY DEF Exported
<1>2. Lists(items, Written(rule)) /\ Listed(items)
  BY <1>1, RuleWritten DEF StatementShaped
<1>3. /\ Back(i).effect = rule.effect /\ Back(i).target = rule.target
      /\ Back(i).subjects = rule.subjects /\ Back(i).issuer = Publisher
      /\ Back(i).actions = {ActionName[action] : action \in rule.actions}
      /\ Back(i).purposes = ReadPurposes(items) /\ Back(i).constraints = ReadConstraints(items)
  <2>1. CutAll(items) = items
    BY <1>1, <1>2, NothingCut
  <2> QED
    BY <2>1 DEF Back, ReadStatement, WriteRule
<1>4. Back(i).actions = rule.actions
  BY <1>3 DEF Unmistaken
<1> HIDE DEF items, rule
<1>5. /\ ReadPurposes(items) = {Star}
      /\ \A name : name # "required_context" =>
            /\ name \in DOMAIN ReadConstraints(items) <=> Has(rule, name)
            /\ Has(rule, name) => ReadConstraints(items)[name] = rule.constraints[name]
  BY <1>1, <1>2, ReadBack DEF rule
<1>6. LET read == ReadConstraints(items)["required_context"]
          required == rule.constraints["required_context"] IN
      IF "required_context" \in DOMAIN ReadConstraints(items)
      THEN /\ Has(rule, "required_context")
           /\ \A key : key \in DOMAIN read <=> key \in DOMAIN required
           /\ \A key \in DOMAIN required : read[key] = required[key]
      ELSE Has(rule, "required_context") => DOMAIN required = {}
  BY <1>1, <1>2, ReadBack, Zenon DEF rule
<1>7. InContext(Back(i), request.context) <=> InContext(rule, request.context)
  BY <1>3, <1>6 DEF InContext, Has
<1>8. /\ ConstraintsHold(Back(i), request, t) <=> ConstraintsHold(rule, request, t)
      /\ Tier(Back(i)) = Tier(rule)
  BY <1>3, <1>5, <1>7, ConstraintsAlike DEF Has
<1> QED
  BY <1>3, <1>4, <1>5, <1>8 DEF rule

(* Both readers accept what was exported. *)
LEMMA ExportAccepted ==
    ASSUME Exported, \A rule \in SourceRules : ReadableBack(rule)
    PROVE  ReadsRules(document)
<1>1. document.combinations = combined /\ document.profile = Kgp
  BY OfferWritten DEF Exported
<1>2. ASSUME NEW s \in AllStatements(document) PROVE ReadableStatement(s, Kgp)
  <2>1. PICK effect \in {"allow", "deny"} : \E i \in DOMAIN StatementsOf(document, effect) :
           s = StatementsOf(document, effect)[i]
    BY <1>2 DEF AllStatements
  <2>2. PICK i \in DOMAIN offered : s = WriteRule(offered[i])
    BY <2>1, OfferWritten DEF Exported
  <2> DEFINE rule == offered[i]
             items == WriteRule(rule).constraint
  <2>3. rule \in Offerable /\ Writable(rule) /\ ReadableBack(rule)
    BY DEF Exported, SourceRules
  <2>4. /\ s.unknown = FALSE /\ s.assignee = rule.subjects /\ s.action = rule.actions
        /\ s.duty = rule.obligations /\ s.constraint = items
    BY <2>2 DEF WriteRule
  <2>5. rule.subjects # Implicit /\ rule.actions # {}
    BY <2>3, ExchangeAssumption DEF Implicit
  <2>6. {ActionName[duty] : duty \in rule.obligations} \subseteq KnownObligations
    BY <2>3, ExchangeAssumption DEF Writable
  <2>7. ASSUME NEW k \in DOMAIN items PROVE ReadableItem(Cut(items[k]), Kgp)
    <3> DEFINE written == items[k]
               item == Cut(written)
    <3>1. written \in Written(rule)
      BY <2>3, RuleWritten DEF Lists
    <3>5. /\ item.left = LastPart[written.left] /\ item.op = LastPart[written.op]
          /\ item.right = written.right
      BY DEF Cut, Item
    <3> HIDE DEF written, item, rule
    <3>2. ASSUME NEW name \in DOMAIN Operand, Has(rule, name),
                 written = Item(Operand[name].left, Operand[name].op, rule.constraints[name])
          PROVE  ReadableItem(item, Kgp)
      <4>5. Operand[name].left \in OdrlNames /\ Operand[name].op \in OdrlNames
        BY DEF Operand, OdrlNames
      <4>1. /\ item.left = Operand[name].left /\ item.op = Operand[name].op
            /\ item.right = rule.constraints[name] /\ item.right # NoValue
        <5>1. rule.constraints[name] # NoValue
          BY <2>3, <3>2, ExchangeAssumption DEF Has
        <5> QED
          BY <3>2, <3>5, <4>5, <5>1, ExchangeAssumption DEF Item
      <4>2. /\ name \in Limits => item.right >= 0
            /\ name = "allowed_zones" => item.right # {}
            /\ name = "min_approval_tier" => item.right \in 0 .. 2
        BY <2>3, <3>2, <4>1 DEF ReadableBack, ValidRule, Has
      <4>3. CASE name \in {"not_before", "not_after"}
        <5>1. item.left = "dateTime" /\ item.op \in {"lt", "gt"}
          BY <4>1, <4>3 DEF Operand
        <5>2. IsTime(item) /\ ~IsBound(item)
          BY <5>1 DEF IsTime, IsBound, Bounds, Before, After
        <5> QED
          BY <4>1, <5>2 DEF ReadableItem
      <4>4. CASE name \in Limits \cup {"allowed_zones", "min_approval_tier"}
        <5>1. item.op = "eq" /\ IsBound(item) /\ Bounds[item.left] = name
          BY <4>1, <4>4 DEF Operand, IsBound, Bounds, Limits
        <5>2. Comparable(item)
          BY <4>2, <4>4, <5>1 DEF Comparable, Limits
        <5> QED
          BY <4>1, <5>1, <5>2 DEF ReadableItem
      <4> QED
        BY <3>2, <4>3, <4>4 DEF Operand, Limits
    <3>3. ASSUME Has(rule, "required_context"),
                 NEW key \in DOMAIN rule.constraints["required_context"],
                 written = Item(key, "eq", rule.constraints["required_context"][key])
          PROVE  ReadableItem(item, Kgp)
      <4>1. /\ item.left = LastPart[key] /\ item.op = "eq"
            /\ item.right = rule.constraints["required_context"][key]
        <5>1. LastPart["eq"] = "eq"
          BY ExchangeAssumption DEF OdrlNames
        <5> QED
          BY <3>3, <3>5, <5>1 DEF Item
      <4>2. item.left \notin {""} \cup DOMAIN Bounds /\ item.right # NoValue
        BY <2>3, <3>3, <4>1 DEF ReadableBack
      <4> QED
        BY <4>1, <4>2 DEF ReadableItem, IsBound, IsPurpose
    <3>4. ReadableItem(item, Kgp)
      BY <2>3, <3>1, <3>2, <3>3, WrittenIs
    <3> QED
      BY <3>4 DEF item, written
  <2> HIDE DEF items, rule
  <2> QED
    BY <2>4, <2>5, <2>6, <2>7 DEF ReadableStatement
<1> QED
  BY <1>1, <1>2 DEF ReadsRules

(* Of what was exported everything else is read as it was written. *)
LEMMA CombinationsBack ==
    ASSUME Exported
    PROVE  ReadsCombinations(document) /\ CombinationsRead(document) = combined
<1>1. document.combinations = combined /\ document.profile = Kgp
  BY OfferWritten DEF Exported
<1>2. \A c \in combined : c.patterns # {} /\ \A seconds \in c.window : seconds >= 1
  BY ExchangeAssumption DEF Exported
<1> QED
  BY <1>1, <1>2 DEF ReadsCombinations, CombinationsRead

-----------------------------------------------------------------------------
(* Decisions before and after. *)

(* Two sets of rules numbered alike, each applicable when the other is,    *)
(* decide alike.                                                           *)
Numbered(rules, I, f) == \A rule : rule \in rules <=> \E i \in I : rule = f[i]

AlikeFor(I, f, g, ts, request, t) ==
    \A i \in I : /\ Applies(f[i], ts, request, t) <=> Applies(g[i], ts, request, t)
                 /\ f[i].effect = g[i].effect /\ Tier(f[i]) = Tier(g[i])

LEMMA SameApplicable ==
    ASSUME NEW before, NEW after, NEW ts, NEW request, NEW t, NEW I, NEW f, NEW g,
           Numbered(before, I, f), Numbered(after, I, g), AlikeFor(I, f, g, ts, request, t)
    PROVE  SameDecision(EvaluateAt(before, ts, request, t), EvaluateAt(after, ts, request, t))
<1> USE DEF Numbered, AlikeFor
<1> DEFINE B == Applicable(before, ts, request, t)
           A == Applicable(after, ts, request, t)
<1>1. ASSUME NEW rule \in B
      PROVE  \E other \in A : other.effect = rule.effect /\ Tier(other) = Tier(rule)
  <2>1. rule \in before /\ Applies(rule, ts, request, t)
    BY <1>1 DEF Applicable
  <2>2. PICK i \in I : rule = f[i]
    BY <2>1
  <2>3. g[i] \in after /\ Applies(g[i], ts, request, t)
    BY <2>1, <2>2
  <2>4. g[i] \in A
    BY <2>3 DEF Applicable
  <2> QED
    BY <2>2, <2>4
<1>2. ASSUME NEW rule \in A
      PROVE  \E other \in B : other.effect = rule.effect /\ Tier(other) = Tier(rule)
  <2>1. rule \in after /\ Applies(rule, ts, request, t)
    BY <1>2 DEF Applicable
  <2>2. PICK i \in I : rule = g[i]
    BY <2>1
  <2>3. f[i] \in before /\ Applies(f[i], ts, request, t)
    BY <2>1, <2>2
  <2>4. f[i] \in B
    BY <2>3 DEF Applicable
  <2> QED
    BY <2>2, <2>4
<1> HIDE DEF A, B
<1>3. (B # {}) <=> (A # {})
  BY <1>1, <1>2
<1>4. (\E rule \in B : rule.effect = "deny") <=> (\E rule \in A : rule.effect = "deny")
  BY <1>1, <1>2
<1>5. HighestTier(B) = HighestTier(A)
  <2>1. {Tier(rule) : rule \in B} = {Tier(rule) : rule \in A}
    BY <1>1, <1>2
  <2> QED
    BY <2>1, Zenon DEF HighestTier
<1> DEFINE one == EvaluateAt(before, ts, request, t)
           other == EvaluateAt(after, ts, request, t)
           fresh == Freshness(request, t) = "fresh"
<1>6. CASE ~fresh
  <2>1. Decided(one, FALSE, Freshness(request, t), 0)
    BY <1>6, Outcomes
  <2>2. Decided(other, FALSE, Freshness(request, t), 0)
    BY <1>6, Outcomes
  <2> QED
    BY <2>1, <2>2, Zenon DEF SameDecision, Decided
<1>7. CASE fresh /\ \E rule \in B : rule.effect = "deny"
  <2>1. Decided(one, FALSE, "explicit_deny", 0)
    BY <1>7, Outcomes DEF B
  <2>2. Decided(other, FALSE, "explicit_deny", 0)
    BY <1>4, <1>7, Outcomes DEF A
  <2> QED
    BY <2>1, <2>2, Zenon DEF SameDecision, Decided
<1>8. CASE fresh /\ ~(B # {})
  <2>1. Decided(one, FALSE, "default_deny", 0)
    BY <1>8, Outcomes DEF B
  <2>2. Decided(other, FALSE, "default_deny", 0)
    BY <1>3, <1>8, Outcomes DEF A
  <2> QED
    BY <2>1, <2>2, Zenon DEF SameDecision, Decided
<1>9. CASE fresh /\ B # {} /\ ~\E rule \in B : rule.effect = "deny"
  <2>1. Decided(one, TRUE, "explicit_allow", HighestTier(B))
    BY <1>9, Outcomes DEF B
  <2>2. Decided(other, TRUE, "explicit_allow", HighestTier(A))
    BY <1>3, <1>4, <1>9, Outcomes DEF A
  <2> QED
    BY <1>5, <2>1, <2>2, Zenon DEF SameDecision, Decided
<1> QED
  BY <1>6, <1>7, <1>8, <1>9

(* An expressible rule applies when it is read back. *)
LEMMA BackApplies ==
    ASSUME Exported, NEW i \in DOMAIN offered, Unmistaken(offered[i]), NEW request,
           RequestShaped(request), NEW t
    PROVE  /\ offered[i].issuer = Publisher /\ offered[i].purposes = {Star} =>
                 (Applies(Back(i), {Publisher}, request, t)
                     <=> Applies(offered[i], {Publisher}, request, t))
           /\ offered[i].effect = "deny" /\ Applies(offered[i], {Publisher}, request, t) =>
                 Applies(Back(i), {Publisher}, request, t)
<1> DEFINE rule == offered[i]
           back == Back(i)
<1>1. /\ back.effect = rule.effect /\ back.issuer = Publisher
      /\ back.target = rule.target /\ back.actions = rule.actions
      /\ back.subjects = rule.subjects /\ back.purposes = {Star}
      /\ ConstraintsHold(back, request, t) <=> ConstraintsHold(rule, request, t)
  BY BackIsAlike
<1>2. MatchesAny({Star}, request.purpose)
  BY EngineAssumption DEF RequestShaped, MatchesAny
<1> HIDE DEF rule, back
<1>3. rule.issuer = Publisher /\ rule.purposes = {Star} =>
         (Applies(back, {Publisher}, request, t) <=> Applies(rule, {Publisher}, request, t))
  BY <1>1 DEF Applies, InScope, MayCount
<1>4. rule.effect = "deny" /\ Applies(rule, {Publisher}, request, t) =>
         Applies(back, {Publisher}, request, t)
  BY <1>1, <1>2 DEF Applies, InScope, MayCount
<1> QED
  BY <1>3, <1>4 DEF rule, back

(* Read back, expressible rules decide as before, and the others still *)
(* deny. *)
LEMMA RoundTrips ==
    ASSUME Exported, NEW request, RequestShaped(request), NEW t
    PROVE  RoundTripKeeps(request, t)
<1> DEFINE rules == SourceRules
           read == RulesRead(document)
           before == EvaluateAt(rules, {Publisher}, request, t)
           after == EvaluateAt(read, {Publisher}, request, t)
           places == DOMAIN offered
           back == [i \in places |-> Back(i)]
<1>1. \A rule : rule \in rules <=> \E i \in places : rule = offered[i]
  BY DEF SourceRules
<1>2. \A rule : rule \in read <=> \E i \in places : rule = back[i]
  BY RulesBack
<1>3. \A i \in places : back[i] = Back(i) /\ offered[i] \in rules /\ back[i] \in read
  BY <1>1, <1>2
<1> HIDE DEF rules, read, back, places
<1>4. ASSUME \A rule \in rules : Expressible(rule)
      PROVE  SameDecision(before, after)
  <2>1. ASSUME NEW i \in places
        PROVE  /\ Applies(offered[i], {Publisher}, request, t)
                     <=> Applies(back[i], {Publisher}, request, t)
               /\ offered[i].effect = back[i].effect /\ Tier(offered[i]) = Tier(back[i])
    <3>1. Expressible(offered[i])
      BY <1>3, <1>4
    <3>2. /\ Unmistaken(offered[i]) /\ offered[i].issuer = Publisher
          /\ offered[i].purposes = {Star}
      BY <3>1 DEF Expressible, Unmistaken
    <3> QED
      BY <1>3, <3>2, BackIsAlike, BackApplies DEF places
  <2>2. Numbered(rules, places, offered) /\ Numbered(read, places, back)
    BY <1>1, <1>2 DEF Numbered
  <2>3. AlikeFor(places, offered, back, {Publisher}, request, t)
    BY <2>1 DEF AlikeFor
  <2> QED
    BY <2>2, <2>3, SameApplicable
<1>5. ASSUME \A rule \in rules : Expressible([rule EXCEPT !.issuer = Publisher,
                                                          !.purposes = {Star}]),
             before.reason = "explicit_deny"
      PROVE  after.reason = "explicit_deny"
  <2>1. /\ Freshness(request, t) = "fresh"
        /\ \E rule \in Applicable(rules, {Publisher}, request, t) : rule.effect = "deny"
    BY <1>5, DeniedIs
  <2>2. PICK rule \in rules : rule.effect = "deny" /\ Applies(rule, {Publisher}, request, t)
    BY <2>1 DEF Applicable
  <2>3. PICK i \in places : rule = offered[i]
    BY <1>1
  <2>4. Unmistaken(rule)
    <3> DEFINE other == [rule EXCEPT !.issuer = Publisher, !.purposes = {Star}]
    <3>1. rule \in Offerable
      BY <2>3 DEF Exported, places
    <3>2. other.actions = rule.actions /\ other.constraints = rule.constraints
      OBVIOUS
    <3>3. Expressible(other)
      BY <1>5
    <3> HIDE DEF other
    <3> QED
      BY <3>2, <3>3 DEF Expressible, Unmistaken, Has
  <2>5. /\ Applies(back[i], {Publisher}, request, t) /\ back[i] \in read
        /\ back[i].effect = "deny"
    BY <1>3, <2>2, <2>3, <2>4, BackIsAlike, BackApplies DEF places
  <2>6. back[i] \in Applicable(read, {Publisher}, request, t)
    BY <2>5 DEF Applicable
  <2> QED
    BY <2>1, <2>5, <2>6, DeniedIs
<1> QED
  BY <1>4, <1>5 DEF RoundTripKeeps, rules, read

(* So an exported document that nobody edited keeps its meaning. *)
LEMMA ExportsKept ==
    ASSUME ExchangeInv
    PROVE  ExportsKeepMeaning
<1> SUFFICES ASSUME document # NoDocument, ~byHand, edits = 0
             PROVE  /\ (\A rule \in SourceRules : ReadableBack(rule)) => ReadsRules(document)
                    /\ ReadsCombinations(document)
                    /\ CombinationsRead(document) = combined
                    /\ \A asked \in Asked : RoundTripKeeps(asked[1], asked[2])
  BY DEF ExportsKeepMeaning
<1>1. Exported
  BY DEF ExchangeInv, DocumentFine, Exported
<1>2. ASSUME NEW asked \in Asked PROVE RoundTripKeeps(asked[1], asked[2])
  BY <1>1, RoundTrips, ExchangeAssumption
<1> QED
  BY <1>1, <1>2, ExportAccepted, CombinationsBack

(* The invariant always holds. *)
LEMMA AlwaysExchangeInv == ExchangeSpec => []ExchangeInv
<1>1. ExchangeInit => ExchangeInv
  BY ExchangeInvInit
<1>2. ExchangeInv /\ [ExchangeNext]_exchangeVars => ExchangeInv'
  BY ExchangeInvStep
<1> QED
  BY <1>1, <1>2, PTL DEF ExchangeSpec

(* What comes from outside means what it said: of an exported document     *)
(* whose rules are Expressible, of the statements that are Unambiguous of  *)
(* any document that is read, of a terms document from which fields are    *)
(* left out (other than a target that the document replaces, TargetsKept), *)
(* and of a call over any transport.                                       *)
THEOREM AlwaysAdaptersKeepMeaning == ExchangeSpec => []AdaptersKeepMeaning
<1>1. ExchangeInv => AdaptersKeepMeaning
  BY ExportsKept, StatementsKept, TermsKept, TransportKept DEF AdaptersKeepMeaning, ExchangeInv
<1> QED
  BY <1>1, AlwaysExchangeInv, PTL

=============================================================================
