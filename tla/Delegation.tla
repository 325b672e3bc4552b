------------------------------- MODULE Delegation -------------------------------
(***************************************************************************)
(* Scoped capabilities, attenuation and delegation (capability.py,         *)
(* attenuation.py), and their acceptance by the Python gate (gate.py) and  *)
(* by the Go verifier.  An issuer signs roots, and children of what it     *)
(* signed; it may also sign a child that attenuate_capability would not    *)
(* have made, and a gate that is shown the parent must tell.               *)
(*                                                                         *)
(* A capability's id is its place in the order of signing, a request       *)
(* stands for its digest, and times are in units of which a lifetime may   *)
(* have MaxLifetime.  Nonces, obligations and the ids of the matched rules *)
(* pass unchanged from parent to child and are left out; replay across     *)
(* stores and threads is in ActionGate.                                    *)
(***************************************************************************)
EXTENDS Integers, Sequences, FiniteSets, TLC

CONSTANTS
    Names,            \* target names and patterns, agents and zones
    Matching,         \* pattern -> the names that fnmatchcase matches
    GoMatching,       \* pattern -> the names that Go's path.Match matches
    Decided,          \* requests the policy allowed
    Grants,           \* arguments of issue and issue_scoped
    Narrowings,       \* arguments of issue_attenuated
    Tweaks,           \* what a child signed by hand has of its own
    Null,             \* JSON null as the value of a limit
    TrustedIssuers,   \* of the gate
    MaxLifetime,      \* MAX_TTL_SECONDS
    MaxCaps,          \* bound on the capabilities signed
    MaxUses,          \* bound on the capabilities accepted
    LastTime          \* bound on the clock

(* _CONSTRAINT_KEYS *)
Constraints == {"max_force_newtons", "max_velocity_mps", "allowed_zones"}

(* The limits a hand may sign: numbers or null, under any names; zones are *)
(* a list, maybe an empty one, or null.                                    *)
Signable(limits) ==
    \A name \in DOMAIN limits \ {"allowed_zones"} : limits[name] = Null \/ limits[name] \in Int

(* The limits attenuate_capability takes: None is no limit. *)
Takable(limits) ==
    /\ DOMAIN limits \subseteq Constraints
    /\ \A name \in DOMAIN limits \ {"allowed_zones"} : limits[name] \in Nat
    /\ "allowed_zones" \in DOMAIN limits => limits["allowed_zones"] \notin {{}, Null}

(* What issue_scoped and attenuate_capability require of their arguments.  *)
(* What a hand signs has its other fields in the form the wire format      *)
(* gives them, written as the library writes them.                         *)
ASSUME DelegationAssumption ==
    /\ Null \notin Int
    /\ Matching \in [Names -> SUBSET Names] /\ GoMatching \in [Names -> SUBSET Names]
    /\ MaxLifetime \in Nat \ {0} /\ MaxCaps \in Nat /\ MaxUses \in Nat /\ LastTime \in Nat
    /\ \A g \in Grants :
          /\ g.version \in {"0.1", "0.2", "1.0"} /\ g.ttl \in 1 .. MaxLifetime
          /\ g.actions # {} /\ g.purposes # {} /\ g.tier \in 0 .. 2
          /\ g.allowed \in BOOLEAN /\ g.maxDepth \in 0 .. 3
    /\ \A n \in Narrowings : n.ttl \in Int /\ Takable(n.limits)
    /\ \A t \in Tweaks : \A field \in DOMAIN t :
          /\ field = "version" => t[field] \in {"0.2", "1.0"}
          /\ field = "tier" => t[field] \in 0 .. 2
          /\ field \in {"depth", "maxDepth"} => t[field] \in 0 .. 3
          /\ field = "allowed" => t[field] \in BOOLEAN
          /\ field \in {"from", "until"} => t[field] \in Int
          /\ field = "limits" => Signable(t[field])

VARIABLES
    instant,   \* utc_now()
    caps,      \* capabilities in the order they were signed
    revoked,   \* ids in the gate's revocation list
    consumed,  \* ids in the gate's replay store
    uses       \* history: what the gate accepted

delegationVars == <<instant, caps, revoked, consumed, uses>>

Same == "same"   \* an argument that was not given
None == "none"   \* JSON null
NoParent == 0
NoLimits == [name \in {} |-> 0]

CapIds == DOMAIN caps

Matches(name, patterns) == \E p \in patterns : name \in Matching[p]

(* Every variable keeps its shape, and children come after their parents.  *)
DelegationTypeOK ==
    /\ instant \in 0 .. LastTime
    /\ \A i \in CapIds :
          /\ caps[i].id = i
          /\ caps[i].parent \in 0 .. i - 1
          /\ caps[i].version \in {"0.1", "0.2", "1.0"}
          /\ caps[i].depth \in 0 .. 3 /\ caps[i].maxDepth \in 0 .. 3
          /\ caps[i].allowed \in BOOLEAN /\ caps[i].tier \in 0 .. 2
          /\ Signable(caps[i].limits)
          /\ caps[i].made \in {"root", "child", "hand"}
    /\ revoked \subseteq CapIds
    /\ consumed = {u.cap : u \in uses}
    /\ \A u \in uses : u.cap \in CapIds /\ u.shown \in CapIds \cup {NoParent}

DelegationInit ==
    /\ instant = 0
    /\ caps = <<>>
    /\ revoked = {}
    /\ consumed = {}
    /\ uses = {}

-----------------------------------------------------------------------------
(* issue and issue_scoped: the scope is the caller's, the rest follows the *)
(* request; only version 0.1 ties the scope to the request.                *)
Root(grant, id) ==
    LET r == grant.request
        exact == grant.version = "0.1" IN
    [id |-> id, made |-> "root", version |-> grant.version,
     issuer |-> "issuer", agent |-> r.agent, request |-> r.id,
     target |-> IF exact THEN r.target ELSE grant.target,
     actions |-> IF exact THEN {r.action} ELSE grant.actions,
     purposes |-> IF exact THEN {r.purpose} ELSE grant.purposes,
     tier |-> IF exact THEN 0 ELSE grant.tier,
     allowed |-> ~exact /\ grant.allowed,
     maxDepth |-> IF exact THEN 0 ELSE grant.maxDepth,
     allowlist |-> IF exact THEN {} ELSE grant.allowlist,
     parent |-> NoParent, root |-> id, limits |-> NoLimits,
     delegate |-> None, depth |-> 0,
     from |-> instant, until |-> instant + grant.ttl]

NewId == Len(caps) + 1

Issue ==
    /\ Len(caps) < MaxCaps
    /\ \E grant \in Grants : caps' = Append(caps, Root(grant, NewId))
    /\ UNCHANGED <<instant, revoked, consumed, uses>>

-----------------------------------------------------------------------------
(* attenuate_capability *)

Scoped(version) == version \in {"0.2", "1.0"}

(* A null limit is no limit. *)
Sets(limits, name) == name \in DOMAIN limits /\ limits[name] # Null

(* Where both set a limit the child's is not above the parent's, and a     *)
(* child's zones are matched, as texts, by the parent's.  A limit that the *)
(* child does not set is not looked at.                                    *)
LimitsTighten(child, parent) ==
    \A name \in Constraints : Sets(child, name) /\ Sets(parent, name) =>
        IF name = "allowed_zones"
        THEN \A zone \in child[name] : Matches(zone, parent[name])
        ELSE child[name] <= parent[name]

TargetWithin(target, scope) == target = scope \/ target \in Matching[scope]

Lifetime(parent, ttl) ==
    LET remaining == parent.until - instant
        capped == IF remaining < MaxLifetime THEN remaining ELSE MaxLifetime IN
    IF ttl # 0 THEN ttl ELSE IF capped < 1 THEN 1 ELSE capped

Given(argument, default) == IF argument = Same THEN default ELSE argument

GivenSet(argument, default) == IF argument = {} THEN default ELSE argument

(* A delegation is to another agent, that the root's list has if there is  *)
(* one, for a request within the child's scope; and it is the last.        *)
MayDelegate(parent, n, target, actions, purposes) ==
    /\ n.delegate # parent.agent
    /\ parent.allowed
    /\ parent.depth < parent.maxDepth
    /\ n.request.agent = n.delegate
    /\ n.request.target \in Matching[target]
    /\ n.request.action \in actions
    /\ n.request.purpose \in purposes
    /\ parent.allowlist # {} => Matches(n.delegate, parent.allowlist)

MayAttenuate(parent, n) ==
    LET target == Given(n.target, parent.target)
        actions == GivenSet(n.actions, parent.actions)
        purposes == GivenSet(n.purposes, parent.purposes) IN
    /\ TargetWithin(target, parent.target)
    /\ actions \subseteq parent.actions
    /\ purposes \subseteq parent.purposes
    /\ Lifetime(parent, n.ttl) \in 1 .. MaxLifetime
    /\ parent.from <= instant /\ instant + Lifetime(parent, n.ttl) <= parent.until
    /\ LimitsTighten(n.limits, parent.limits)
    /\ n.delegate # None => MayDelegate(parent, n, target, actions, purposes)

ChildOfParent(parent, n, id) ==
    [parent EXCEPT !.id = id, !.made = "child",
                   !.version = IF Scoped(parent.version) THEN @ ELSE "0.2",
                   !.target = Given(n.target, @),
                   !.actions = GivenSet(n.actions, @),
                   !.purposes = GivenSet(n.purposes, @),
                   !.request = IF n.delegate = None THEN @ ELSE n.request.id,
                   !.parent = parent.id, !.root = parent.id,
                   !.limits = n.limits,
                   !.delegate = IF n.delegate = None THEN @ ELSE n.delegate,
                   !.depth = IF n.delegate = None THEN @ ELSE @ + 1,
                   !.allowed = @ /\ n.delegate = None,
                   !.maxDepth = IF n.delegate = None THEN @ ELSE 0,
                   !.from = instant, !.until = instant + Lifetime(parent, n.ttl)]

ChildKeepsDelegating(parent, n, id) ==
    [parent EXCEPT !.id = id, !.made = "child",
                   !.version = IF Scoped(parent.version) THEN @ ELSE "0.2",
                   !.target = Given(n.target, @),
                   !.actions = GivenSet(n.actions, @),
                   !.purposes = GivenSet(n.purposes, @),
                   !.request = IF n.delegate = None THEN @ ELSE n.request.id,
                   !.parent = parent.id,
                   !.limits = n.limits,
                   !.delegate = IF n.delegate = None THEN @ ELSE n.delegate,
                   !.depth = IF n.delegate = None THEN @ ELSE @ + 1,
                   !.from = instant, !.until = instant + Lifetime(parent, n.ttl)]

(* The child keeps issuer, agent, policy, tier, list and root; its limits  *)
(* are the ones given, and none of the parent's.                           *)
Child(parent, n, id) ==
    [parent EXCEPT !.id = id, !.made = "child",
                   !.version = IF Scoped(parent.version) THEN @ ELSE "0.2",
                   !.target = Given(n.target, @),
                   !.actions = GivenSet(n.actions, @),
                   !.purposes = GivenSet(n.purposes, @),
                   !.request = IF n.delegate = None THEN @ ELSE n.request.id,
                   !.parent = parent.id,
                   !.limits = n.limits,
                   !.delegate = IF n.delegate = None THEN @ ELSE n.delegate,
                   !.depth = IF n.delegate = None THEN @ ELSE @ + 1,
                   !.allowed = @ /\ n.delegate = None,
                   !.maxDepth = IF n.delegate = None THEN @ ELSE 0,
                   !.from = instant, !.until = instant + Lifetime(parent, n.ttl)]

Attenuate(p) ==
    /\ Len(caps) < MaxCaps
    /\ \E n \in Narrowings :
          /\ MayAttenuate(caps[p], n)
          /\ caps' = Append(caps, Child(caps[p], n, NewId))
    /\ UNCHANGED <<instant, revoked, consumed, uses>>

ByHand(parent, tweak, id) ==
    [[field \in DOMAIN parent |->
         IF field \in DOMAIN tweak THEN tweak[field] ELSE parent[field]]
     EXCEPT !.id = id, !.parent = parent.id, !.made = "hand"]

(* A child the issuer's key signed without attenuate_capability's checks.  *)
SignByHand(p) ==
    /\ Len(caps) < MaxCaps
    /\ Scoped(caps[p].version)
    /\ \E tweak \in Tweaks : caps' = Append(caps, ByHand(caps[p], tweak, NewId))
    /\ UNCHANGED <<instant, revoked, consumed, uses>>

-----------------------------------------------------------------------------
(* verify_attenuation, which needs the two payloads only. *)

DelegationVerifies(child, parent) ==
    IF child.delegate = parent.delegate
    THEN child.depth = parent.depth /\ child.request = parent.request
    ELSE /\ parent.allowed /\ parent.depth < parent.maxDepth
         /\ child.depth = parent.depth + 1
         /\ child.delegate # None /\ child.delegate # child.agent
         /\ ~child.allowed /\ child.maxDepth = 0
         /\ parent.allowlist # {} => Matches(child.delegate, parent.allowlist)

VerifyScopeOnly(child, parent) ==
    /\ Scoped(child.version)
    /\ Scoped(parent.version) => child.version = parent.version
    /\ child.parent = parent.id /\ child.root = parent.root
    /\ child.allowlist = parent.allowlist
    /\ child.issuer = parent.issuer /\ child.agent = parent.agent
    /\ TargetWithin(child.target, parent.target)
    /\ child.actions # {} /\ child.actions \subseteq parent.actions
    /\ child.purposes # {} /\ child.purposes \subseteq parent.purposes
    /\ child.tier = parent.tier
    /\ child.from >= parent.from /\ child.until <= parent.until
    /\ LimitsTighten(child.limits, parent.limits)

VerifyAttenuation(child, parent) ==
    /\ Scoped(child.version)
    /\ Scoped(parent.version) => child.version = parent.version
    /\ child.parent = parent.id /\ child.root = parent.root
    /\ child.allowlist = parent.allowlist
    /\ child.issuer = parent.issuer /\ child.agent = parent.agent
    /\ TargetWithin(child.target, parent.target)
    /\ child.actions # {} /\ child.actions \subseteq parent.actions
    /\ child.purposes # {} /\ child.purposes \subseteq parent.purposes
    /\ DelegationVerifies(child, parent)
    /\ child.maxDepth <= parent.maxDepth
    /\ child.allowed => parent.allowed
    /\ child.from >= parent.from /\ child.until <= parent.until
    /\ child.tier = parent.tier
    /\ DOMAIN child.limits \subseteq Constraints
    /\ LimitsTighten(child.limits, parent.limits)

-----------------------------------------------------------------------------
(* ActionGate.authorize *)

ScopeAllows(cap, r) ==
    IF cap.version = "0.1"
    THEN /\ cap.agent = r.agent /\ cap.target = r.target
         /\ cap.actions = {r.action} /\ cap.purposes = {r.purpose}
    ELSE /\ r.agent = IF cap.delegate = None THEN cap.agent ELSE cap.delegate
         /\ r.target \in Matching[cap.target]
         /\ r.action \in cap.actions /\ r.purpose \in cap.purposes

WindowAllows(cap) ==
    /\ cap.from < cap.until /\ cap.until - cap.from <= MaxLifetime
    /\ cap.from <= instant /\ instant < cap.until

(* _validate_v2_fields: known constraints, null or not negative, zones     *)
(* null or some; and no permission to delegate beyond the depth.           *)
FieldsAllowed(cap) ==
    /\ DOMAIN cap.limits \subseteq Constraints
    /\ \A name \in DOMAIN cap.limits : Sets(cap.limits, name) =>
          IF name = "allowed_zones" THEN cap.limits[name] # {} ELSE cap.limits[name] >= 0
    /\ cap.allowed => cap.depth <= cap.maxDepth

Accepts(cap, r) ==
    /\ Scoped(cap.version) => FieldsAllowed(cap)
    /\ cap.issuer \in TrustedIssuers
    /\ cap.request = r.id
    /\ ScopeAllows(cap, r)
    /\ WindowAllows(cap)

(* A parent may be shown, for version 0.2 only; what is shown need not be  *)
(* valid itself.  The capability's own id and its root's are looked up.    *)
Authorize(i, shown) ==
    /\ \E r \in Decided : Accepts(caps[i], r)
    /\ shown # NoParent => /\ caps[i].version = "0.2"
                           /\ VerifyAttenuation(caps[i], caps[shown])
    /\ {i, caps[i].root} \cap revoked = {}
    /\ i \notin consumed /\ Cardinality(uses) < MaxUses
    /\ consumed' = consumed \cup {i}
    /\ uses' = uses \cup {[cap |-> i, shown |-> shown, revoked |-> revoked]}
    /\ UNCHANGED <<instant, caps, revoked>>

RevokeCap(i) ==
    /\ revoked = {}
    /\ revoked' = {i}
    /\ UNCHANGED <<instant, caps, consumed, uses>>

Wait ==
    /\ instant < LastTime
    /\ instant' = instant + 1
    /\ UNCHANGED <<caps, revoked, consumed, uses>>

-----------------------------------------------------------------------------
(* VerifyCapability of the Go verifier; it knows neither revocation nor    *)
(* replay.                                                                 *)

(* What it reads of the limits it knows: null is not a number and no list, *)
(* and other names are not looked at.                                      *)
GoLimitsAllow(limits) ==
    \A name \in DOMAIN limits \cap Constraints :
        /\ limits[name] # Null
        /\ IF name = "allowed_zones" THEN limits[name] # {} ELSE limits[name] >= 0

(* verifyCapabilityV2, which asks for the principal's request even of a    *)
(* capability that has a delegate, and not about permission to delegate.   *)
GoScopeAllows(cap, r) ==
    /\ cap.agent = r.agent
    /\ GoLimitsAllow(cap.limits)
    /\ r.target \in GoMatching[cap.target]
    /\ r.action \in cap.actions /\ r.purpose \in cap.purposes
    /\ cap.depth \in 0 .. 3 /\ cap.maxDepth \in 0 .. 3 /\ cap.tier \in 0 .. 2

(* validateCommonCapability *)
GoWindowAllows(cap) ==
    /\ cap.from < cap.until /\ cap.until - cap.from <= MaxLifetime
    /\ ~(instant < cap.from) /\ instant < cap.until

GoAcceptsExactTarget(cap, r) ==
    /\ cap.issuer \in TrustedIssuers
    /\ cap.request = r.id
    /\ cap.agent = r.agent /\ cap.target = r.target
    /\ r.action \in cap.actions /\ r.purpose \in cap.purposes
    /\ GoWindowAllows(cap)

GoAccepts(cap, r) ==
    /\ cap.issuer \in TrustedIssuers
    /\ cap.request = r.id
    /\ IF cap.version = "0.1"
       THEN /\ cap.agent = r.agent /\ cap.target = r.target
            /\ cap.actions = {r.action} /\ cap.purposes = {r.purpose}
       ELSE GoScopeAllows(cap, r)
    /\ GoWindowAllows(cap)

-----------------------------------------------------------------------------

DelegationNext ==
    \/ Issue \/ Wait
    \/ \E i \in CapIds : \/ Attenuate(i) \/ SignByHand(i) \/ RevokeCap(i)
                         \/ \E shown \in CapIds \cup {NoParent} : Authorize(i, shown)

DelegationSpec == DelegationInit /\ [][DelegationNext]_delegationVars

-----------------------------------------------------------------------------
(* Properties *)

(* Sets of capabilities that hold the parent of each member. *)
Lineages ==
    {S \in SUBSET CapIds : \A j \in S : caps[j].parent # NoParent => caps[j].parent \in S}

(* The line of capability i: itself, its parent, and so on up to its root. *)
Line(i) ==
    LET around == {S \in Lineages : i \in S} IN
    {j \in CapIds : \A S \in around : j \in S}

LineVerifies(i) ==
    \A j \in Line(i) : caps[j].parent # NoParent =>
                           VerifyAttenuation(caps[j], caps[caps[j].parent])

ByLibrary(i) == \A j \in Line(i) : caps[j].made # "hand"

(* The two sides agree: in a line that only attenuate_capability made, of  *)
(* any version, delegating or not, verify_attenuation accepts every child. *)
ChildVerifies ==
    \A i \in CapIds : ByLibrary(i) => LineVerifies(i)

Within(c, a) ==
    /\ c.actions \subseteq a.actions /\ c.purposes \subseteq a.purposes
    /\ c.from >= a.from /\ c.until <= a.until
    /\ c.issuer = a.issuer /\ c.agent = a.agent /\ c.tier = a.tier
    /\ c.depth <= IF a.allowed THEN a.depth + 1 ELSE a.depth
    /\ c.delegate # a.delegate =>
          a.allowed /\ ~c.allowed /\ (a.allowlist # {} => Matches(c.delegate, a.allowlist))

(* If every link of a line verifies, the last capability is within all the *)
(* others, not just its parent: in actions, purposes, time, tier and       *)
(* agents, with one delegation in the whole line.  Its target too, where   *)
(* each target is a name or the parent's; and a limit that every           *)
(* capability from an ancestor on sets is never  above the ancestor's.     *)
LinesNarrow ==
    \A i \in CapIds : LineVerifies(i) =>
        \A j \in Line(i) :
            LET c == caps[i]  a == caps[j]
                between == {k \in Line(i) : j \in Line(k)} IN
            /\ Within(c, a)
            /\ (\A k \in between : \/ Matching[caps[k].target] = {caps[k].target}
                                   \/ k = j \/ caps[k].target = caps[caps[k].parent].target) =>
                  Matching[c.target] \subseteq Matching[a.target]
            /\ \A name \in Constraints \ {"allowed_zones"} :
                  (\A k \in between : Sets(caps[k].limits, name)) =>
                      c.limits[name] <= a.limits[name]

(* Revoking the root of a line stops all of it: whatever was accepted, its *)
(* root was not in the gate's list, though the gate saw no more than the   *)
(* capability; for a line attenuate_capability made or that verifies.      *)
RootStopsAll ==
    \A u \in uses :
        LineVerifies(u.cap) \/ ByLibrary(u.cap) =>
            \A j \in Line(u.cap) : caps[j].parent = NoParent => j \notin u.revoked

(* Of capabilities that attenuate_capability and the issuer made, with no  *)
(* delegate and a target that both ways of matching read alike, the Python *)
(* gate and the Go verifier accept the same for the same requests.  Of     *)
(* those signed by hand too, but for the differences in the code: the gate *)
(* alone takes a null limit, and the Go verifier alone takes a constraint  *)
(* nobody knows and permission to delegate beyond the capability's depth.  *)
CapabilityVerifiersAgree ==
    \A i \in CapIds : \A r \in Decided :
        LET c == caps[i]
            python == Accepts(c, r)
            go == GoAccepts(c, r) IN
        ( /\ c.delegate = None
          /\ r.target \in Matching[c.target] <=> r.target \in GoMatching[c.target] )
            => /\ ByLibrary(i) => (python <=> go)
               /\ python /\ ~go => \E name \in DOMAIN c.limits : c.limits[name] = Null
               /\ go /\ ~python =>
                     \/ DOMAIN c.limits \ Constraints # {}
                     \/ c.allowed /\ c.depth > c.maxDepth
=============================================================================
