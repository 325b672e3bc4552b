------------------------------- MODULE PolicyFleet -------------------------------
(***************************************************************************)
(* Signed policy bundles in a fleet of gates (policy_bundle.py): an        *)
(* authority publishes numbered versions of one policy, every gate keeps a *)
(* PolicyRegistry of the versions it has activated and of those revoked    *)
(* there, and a PolicyDistributor brings one bundle to all the registries, *)
(* gate by gate, while operators activate and revoke at single gates and   *)
(* time passes.                                                            *)
(*                                                                         *)
(* A payload stands for its own content id and digest, and a set of rules  *)
(* for its digest; what it is made of are the forms of its rules.  Bundles *)
(* are signed over Python's canonical JSON (the Go module signs nothing).  *)
(* Registries keep policies apart by their id, so one policy is enough.    *)
(* The steps are those between which another thread of the program may     *)
(* run: registries have no lock.                                           *)
(***************************************************************************)
EXTENDS Integers, Sequences, FiniteSets

CONSTANTS
    Kid,               \* the authority's key
    GateOrder,         \* the gates of the fleet, sorted by id
    Trusts,            \* gate -> trusted_authorities of its registry
    DistributorTrusts, \* trusted_authorities of the distributor
    RuleSets,          \* the contents of a bundle
    Content,           \* rule set -> the forms of its rules
    Ed25519Keys,       \* the keys that are not ML-DSA keys
    Windows,           \* <<delay, ttl>> of a publication
    Foreign,           \* envelopes that come from elsewhere
    ChosenVersions,    \* version numbers an operator gives explicitly
    MaxTime,           \* bound on the clock
    MaxBundles,        \* bound on the publications
    MaxRevocations     \* bound on the revocations in all the gates

VARIABLES
    clock,      \* utc_now()
    last,       \* PolicyAuthority._last, or NoPayload
    published,  \* envelopes the authority has signed
    bundles,    \* gate -> PolicyRegistry._bundles, its payloads
    withdrawn,  \* gate -> PolicyRegistry._revocations, its version numbers
    job,        \* the distribution in progress, or its report
    renumbered  \* history: the authority restarted or was told a version

fleetVars == <<clock, last, published, bundles, withdrawn, job, renumbered>>

Gates == {GateOrder[i] : i \in DOMAIN GateOrder}

NoPayload == [version |-> 0]
NoDigest == "none"
Idle == [stage |-> "idle"]

Issuers == {Kid} \cup {e.payload.issuer : e \in Foreign}

(* The form of a rule, as far as the verifiers differ in it.  "other" is a *)
(* text that is no effect; "blank" has a text of blanks only, among the    *)
(* names (id, issuer, target) or the actions; "unlisted" actions are one   *)
(* text or object that tuple() takes apart into texts that are not blank;  *)
(* "none" is anything worse.  rest: the other fields make a PolicyRule.    *)
(* alike: Python and Go write it as the same canonical JSON.               *)
RuleForm == [effect : {"known", "other", "none"}, names : {"filled", "blank", "none"},
             actions : {"listed", "unlisted", "blank", "none"},
             rest : BOOLEAN, alike : BOOLEAN]

(* stamps: the form of the times, of which Python reads either and Go only *)
(* the first.  loose: the policy id is blank, the version is written with  *)
(* a fraction of zero, or the previous digest is empty or not a text.      *)
Payload == [issuer : Issuers, version : Int, rules : RuleSets, digest : RuleSets,
            prev : RuleSets \cup {NoDigest}, issued : Int, from : Int, until : Int,
            stamps : {"rfc3339", "iso"}, loose : BOOLEAN]

Envelope == [payload : Payload, kid : Issuers, intact : BOOLEAN]

Ack == [gate : Gates, applied : BOOLEAN, before : Nat, after : Nat]

Job == [stage : {"look", "activate", "ack", "done"}, env : Envelope,
        before : Nat, acks : Seq(Ack)]

-----------------------------------------------------------------------------
(* Rules: _rule_from_dict with PolicyRule, and validateBundleRule. *)

RuleFromDict(rule) ==
    /\ rule.effect = "known" /\ rule.names = "filled"
    /\ rule.actions \in {"listed", "unlisted"}
    /\ rule.rest

ValidateBundleRule(rule) ==
    /\ rule.effect # "none" /\ rule.names # "none"
    /\ rule.actions \in {"listed", "blank"}

Parses(rules) == Content[rules] # {} /\ \A rule \in Content[rules] : RuleFromDict(rule)

GoParses(rules) == Content[rules] # {} /\ \A rule \in Content[rules] : ValidateBundleRule(rule)

Alike(rules) == \A rule \in Content[rules] : rule.alike

(* Rules that exist as PolicyRules are written with their actions listed.  *)
Publishable ==
    {rules \in RuleSets : /\ Parses(rules)
                          /\ \A rule \in Content[rules] : rule.actions = "listed"}

(* Windows are not empty, or publish raises; and with the authority's key  *)
(* nothing is signed elsewhere that PolicyRule accepts.                    *)
ASSUME FleetAssumption ==
    /\ MaxTime \in Nat /\ MaxBundles \in Nat /\ MaxRevocations \in Nat
    /\ GateOrder \in Seq(Gates) /\ GateOrder # <<>>
    /\ ChosenVersions \subseteq Nat \ {0}
    /\ Windows \subseteq Int \X (Nat \ {0})
    /\ NoDigest \notin RuleSets
    /\ Content \in [RuleSets -> SUBSET RuleForm]
    /\ Foreign \subseteq [payload : [issuer : STRING, version : Int, rules : RuleSets,
                                     digest : RuleSets, prev : RuleSets \cup {NoDigest},
                                     issued : Int, from : Int, until : Int,
                                     stamps : {"rfc3339", "iso"}, loose : BOOLEAN],
                          kid : STRING, intact : BOOLEAN]
    /\ \A e \in Foreign : e.intact /\ e.kid = Kid => ~Parses(e.payload.rules)

(* Every variable keeps its shape, and acknowledgements follow the order   *)
(* of the gates.                                                           *)
FleetTypeOK ==
    /\ clock \in 0 .. MaxTime
    /\ last \in Payload \cup {NoPayload}
    /\ published \subseteq Envelope
    /\ bundles \in [Gates -> SUBSET Payload]
    /\ withdrawn \in [Gates -> SUBSET (Nat \ {0})]
    /\ job \in Job \cup {Idle}
    /\ renumbered \in BOOLEAN
    /\ job # Idle =>
          /\ \A i \in DOMAIN job.acks : job.acks[i].gate = GateOrder[i]
          /\ job.stage = "done" <=> Len(job.acks) = Len(GateOrder)

FleetInit ==
    /\ clock = 0
    /\ last = NoPayload
    /\ published = {}
    /\ bundles = [g \in Gates |-> {}]
    /\ withdrawn = [g \in Gates |-> {}]
    /\ job = Idle
    /\ renumbered = FALSE

-----------------------------------------------------------------------------
(* verify_policy_bundle, and the Go verifier's. *)

InWindow(p, t) == p.from <= t /\ t < p.until

(* A registry made without trusted authorities, or with none, trusts all.  *)
TrustedBy(trusted, issuer) == trusted = {} \/ issuer \in trusted

WellFormed(p) ==
    /\ ~p.loose
    /\ p.version >= 1
    /\ Parses(p.rules)
    /\ p.digest = p.rules
    /\ p.from < p.until

Verifies(env, trusted, t) ==
    /\ env.intact
    /\ env.kid = env.payload.issuer
    /\ TrustedBy(trusted, env.payload.issuer)
    /\ WellFormed(env.payload)
    /\ InWindow(env.payload, t)

(* VerifyEnvelope: Ed25519 only, over Go's own canonical JSON. *)
GoVerifyEnvelope(env) ==
    /\ env.intact
    /\ env.kid \in Ed25519Keys
    /\ Alike(env.payload.rules)

GoVerifiesInclusive(env, trusted, t) ==
    LET p == env.payload IN
    /\ GoVerifyEnvelope(env)
    /\ p.issuer = env.kid /\ p.issuer \in trusted
    /\ p.version >= 1
    /\ GoParses(p.rules) /\ p.digest = p.rules
    /\ p.stamps = "rfc3339" /\ p.until > p.from
    /\ ~(t < p.from) /\ ~(p.until < t)

(* For the Go verifier no trusted authority is nobody. *)
GoVerifies(env, trusted, t) ==
    LET p == env.payload IN
    /\ GoVerifyEnvelope(env)
    /\ p.issuer = env.kid /\ p.issuer \in trusted
    /\ p.version >= 1
    /\ GoParses(p.rules) /\ p.digest = p.rules
    /\ p.stamps = "rfc3339" /\ p.until > p.from
    /\ ~(t < p.from) /\ t < p.until

-----------------------------------------------------------------------------
(* PolicyRegistry *)

Candidates(g, t) ==
    {p \in bundles[g] : p.version \notin withdrawn[g] /\ InWindow(p, t)}

CurrentLatestIssued(g, t) ==
    LET live == Candidates(g, t) IN
    IF live = {} THEN NoPayload
    ELSE CHOOSE p \in live : \A q \in live : q.issued <= p.issued

(* The highest version that is in its window and not revoked. *)
Current(g, t) ==
    LET live == Candidates(g, t) IN
    IF live = {} THEN NoPayload
    ELSE CHOOSE p \in live : \A q \in live : q.version <= p.version

(* CurrentPolicyVersion of the Go verifier, over the same payloads: one    *)
(* pass over those that are not revoked, which keeps the best so far and   *)
(* ends with an error at a time that it cannot read.                       *)
GoCurrent(g, t) ==
    LET kept == {p \in bundles[g] : p.version \notin withdrawn[g]}
        live == {p \in kept : ~(t < p.from) /\ t < p.until}
        best == {p \in live : ~\E q \in live : q.version > p.version} IN
    IF best = {} \/ \E p \in kept : p.stamps # "rfc3339" THEN NoPayload
    ELSE CHOOSE p \in best : TRUE

ActivatesUnverified(g, env) ==
    \A p \in bundles[g] : p.version = env.payload.version => p = env.payload

(* activate returns: the bundle verifies under the gate's own authorities, *)
(* and no other bundle has its version.                                    *)
Activates(g, env) ==
    /\ Verifies(env, Trusts[g], clock)
    /\ \A p \in bundles[g] : p.version = env.payload.version => p = env.payload

Store(g, env) == bundles' = [bundles EXCEPT ![g] = @ \cup {env.payload}]

Received == published \cup Foreign

(* An operator activates a bundle at one gate. *)
Activate(g) ==
    /\ \E env \in Received : Activates(g, env) /\ Store(g, env)
    /\ UNCHANGED <<clock, last, published, withdrawn, job, renumbered>>

(* revoke; a version need not be activated to be revoked. *)
Revoke(g, v) ==
    /\ v >= 1
    /\ Cardinality(UNION {withdrawn[h] \X {h} : h \in Gates}) < MaxRevocations
    /\ withdrawn' = [withdrawn EXCEPT ![g] = @ \cup {v}]
    /\ UNCHANGED <<clock, last, published, bundles, job, renumbered>>

(* An operator revokes a version at one gate. *)
RevokeVersion(g) == \E v \in {e.payload.version : e \in Received} : Revoke(g, v)

-----------------------------------------------------------------------------
(* PolicyAuthority *)

NextVersionRepeats == IF last.version < 1 THEN last.version + 1 ELSE last.version

NextVersion == last.version + 1

(* publish: the next version by default, linked to the last one's rules. *)
Publish ==
    /\ Cardinality(published) < MaxBundles
    /\ \E rules \in Publishable, w \in Windows,
          v \in {NextVersion} \cup ChosenVersions :
          LET body == [issuer |-> Kid, version |-> v, rules |-> rules, digest |-> rules,
                       prev |-> IF last = NoPayload THEN NoDigest ELSE last.digest,
                       issued |-> clock, from |-> clock + w[1],
                       until |-> clock + w[1] + w[2],
                       stamps |-> "rfc3339", loose |-> FALSE] IN
          /\ last' = body
          /\ published' = published \cup {[payload |-> body, kid |-> Kid, intact |-> TRUE]}
          /\ renumbered' = (renumbered \/ v # NextVersion)
    /\ UNCHANGED <<clock, bundles, withdrawn, job>>

(* The authority keeps its last version in memory only. *)
RestartAuthority ==
    /\ last # NoPayload
    /\ last' = NoPayload
    /\ renumbered' = TRUE
    /\ UNCHANGED <<clock, published, bundles, withdrawn, job>>

RevokeLatest(g) ==
    /\ last # NoPayload
    /\ Revoke(g, last.version)

-----------------------------------------------------------------------------
(* PolicyDistributor.distribute *)

Running == job.stage \in {"look", "activate", "ack"}

Here == GateOrder[Len(job.acks) + 1]

Version == job.env.payload.version

(* The bundle verifies under the distributor's authorities before any gate *)
(* is touched; if it does not, nothing happens.                            *)
BeginDistribution ==
    /\ ~Running
    /\ \E env \in Received :
          /\ Verifies(env, DistributorTrusts, clock)
          /\ job' = [stage |-> "look", env |-> env, before |-> 0, acks |-> <<>>]
    /\ UNCHANGED <<clock, last, published, bundles, withdrawn, renumbered>>

AcknowledgeAllButLast(applied, before, after) ==
    LET acks == Append(job.acks, [gate |-> Here, applied |-> applied,
                                  before |-> before, after |-> after]) IN
    job' = [job EXCEPT !.acks = acks, !.before = 0,
                       !.stage = IF Len(acks) + 1 >= Len(GateOrder) THEN "done" ELSE "look"]

(* An acknowledgement; the last one makes the report. *)
Acknowledge(applied, before, after) ==
    LET acks == Append(job.acks, [gate |-> Here, applied |-> applied,
                                  before |-> before, after |-> after]) IN
    job' = [job EXCEPT !.acks = acks, !.before = 0,
                       !.stage = IF Len(acks) = Len(GateOrder) THEN "done" ELSE "look"]

LookAnyCurrent ==
    /\ job.stage = "look"
    /\ LET current == Current(Here, clock).version IN
       IF current # 0
       THEN Acknowledge(FALSE, current, current)
       ELSE job' = [job EXCEPT !.stage = "activate", !.before = current]
    /\ UNCHANGED <<clock, last, published, bundles, withdrawn, renumbered>>

(* A gate that runs this version or a newer one is left alone. *)
Look ==
    /\ job.stage = "look"
    /\ LET current == Current(Here, clock).version IN
       IF current >= Version
       THEN Acknowledge(FALSE, current, current)
       ELSE job' = [job EXCEPT !.stage = "activate", !.before = current]
    /\ UNCHANGED <<clock, last, published, bundles, withdrawn, renumbered>>

ActivateHere ==
    /\ job.stage = "activate"
    /\ Activates(Here, job.env)
    /\ Store(Here, job.env)
    /\ job' = [job EXCEPT !.stage = "ack"]
    /\ UNCHANGED <<clock, last, published, withdrawn, renumbered>>

(* activate raises and the distribution ends: the gates before this one    *)
(* keep what they were given, and there is no report.                      *)
ActivationFails ==
    /\ job.stage = "activate"
    /\ ~Activates(Here, job.env)
    /\ job' = Idle
    /\ UNCHANGED <<clock, last, published, bundles, withdrawn, renumbered>>

AckHere ==
    /\ job.stage = "ack"
    /\ Acknowledge(TRUE, job.before, Current(Here, clock).version)
    /\ UNCHANGED <<clock, last, published, bundles, withdrawn, renumbered>>

FleetTick ==
    /\ clock < MaxTime
    /\ clock' = clock + 1
    /\ UNCHANGED <<last, published, bundles, withdrawn, job, renumbered>>

FleetNext ==
    \/ Publish \/ RestartAuthority
    \/ \E g \in Gates : Activate(g) \/ RevokeVersion(g) \/ RevokeLatest(g)
    \/ BeginDistribution \/ Look \/ ActivateHere \/ ActivationFails \/ AckHere
    \/ FleetTick

FleetSpec == FleetInit /\ [][FleetNext]_fleetVars

-----------------------------------------------------------------------------
(* verify_policy_distribution_report over the bundle the job was for.      *)

CountAcks(acks, applied) == Cardinality({i \in DOMAIN acks : acks[i].applied = applied})

Report ==
    [bundle |-> job.env.payload, acks |-> job.acks,
     registries |-> Len(job.acks),
     applied |-> CountAcks(job.acks, TRUE),
     present |-> CountAcks(job.acks, FALSE)]

ReportVerifies(report, env, trusted, t) ==
    /\ Verifies(env, trusted, t)
    /\ report.bundle = env.payload
    /\ report.acks # <<>>
    /\ report.registries = Len(report.acks)
    /\ report.applied = CountAcks(report.acks, TRUE)
    /\ report.present = CountAcks(report.acks, FALSE)

-----------------------------------------------------------------------------
(* Properties *)

(* "downgrades are never applied automatically": a gate goes to an older   *)
(* version, or to none, only when the version it ran has been revoked      *)
(* there or has expired, whoever activates what and in whatever order.     *)
NoSilentDowngrade ==
    [][\A g \in Gates :
          LET before == Current(g, clock) IN
          Current(g, clock)'.version < before.version =>
              before.version \in withdrawn'[g] \/ clock' >= before.until]_fleetVars

(* While the authority neither restarts nor is told a version number, two  *)
(* gates that hold the same version of its policy hold the same rules.     *)
SameVersionSameRules ==
    renumbered \/
    \A g, h \in Gates : \A p \in bundles[g], q \in bundles[h] :
        p.issuer = Kid /\ q.issuer = Kid /\ p.version = q.version => p = q

(* What a gate holds was signed by an authority that this gate trusts, for *)
(* whomever the distributor trusts, and in no gate do two bundles share a  *)
(* version.                                                                *)
GatesDecideForThemselves ==
    \A g \in Gates : \A p \in bundles[g] :
        /\ TrustedBy(Trusts[g], p.issuer) /\ WellFormed(p)
        /\ \A q \in bundles[g] : q.version = p.version => q = p

(* A report that verifies means that every gate of the fleet runs the      *)
(* version it names or a newer one, except where such a version has been   *)
(* revoked or has expired since or before.                                 *)
ReportHolds ==
    job.stage = "done" /\ ReportVerifies(Report, job.env, DistributorTrusts, clock) =>
        \A g \in Gates :
            \/ Current(g, clock).version >= Version
            \/ \E v \in withdrawn[g] : v >= Version
            \/ \E p \in bundles[g] : p.version >= Version /\ clock >= p.until

(* What Python takes and Go does not: an ML-DSA key, times in another ISO  *)
(* form, canonical JSON of which the two write different texts, actions    *)
(* that are no list (policy_bundle.py:61, verify.go:161).                  *)
PythonOnly(env) ==
    \/ env.kid \notin Ed25519Keys
    \/ env.payload.stamps = "iso"
    \/ \E rule \in Content[env.payload.rules] : ~rule.alike \/ rule.actions = "unlisted"

(* What Go takes and Python does not: loose fields, another effect than    *)
(* allow and deny, blank texts, and a rule whose other fields, which Go    *)
(* does not look at, make no PolicyRule (verify.go:150).                   *)
GoOnly(env) ==
    \/ env.payload.loose
    \/ \E rule \in Content[env.payload.rules] :
          \/ rule.effect = "other" \/ rule.names = "blank" \/ rule.actions = "blank"
          \/ ~rule.rest

(* Where the Python and the Go implementation agree.  With the trusted     *)
(* authorities of a gate, if it has any, both accept the same of the       *)
(* bundles that an authority with an Ed25519 key has published and that    *)
(* both write alike; of any other bundle that only one accepts, there is a *)
(* reason in the list above.  And of a gate's bundles both take the same   *)
(* one as current, if Go can read the times of all that are not revoked.   *)
VerifiersAgree ==
    \A g \in Gates :
        /\ Trusts[g] # {} =>
              \A env \in Received :
                  LET python == Verifies(env, Trusts[g], clock)
                      go == GoVerifies(env, Trusts[g], clock) IN
                  /\ env \in published /\ Kid \in Ed25519Keys /\ Alike(env.payload.rules) =>
                        (python <=> go)
                  /\ python /\ ~go => PythonOnly(env)
                  /\ go /\ ~python => GoOnly(env)
        /\ (\A p \in bundles[g] : p.version \in withdrawn[g] \/ p.stamps = "rfc3339") =>
              GoCurrent(g, clock) = Current(g, clock)
=============================================================================
