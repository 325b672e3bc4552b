-------------------------- MODULE AuthorizationProofs --------------------------
(***************************************************************************)
(* What authorization guarantees (MC_Authorization), for any number of     *)
(* threads, rules, capabilities and receipts.  Capabilities (Delegation):  *)
(* what every line that the library made keeps, from its root to each      *)
(* child and through what its gates accept.  Decisions (DecisionCache):    *)
(* what is kept in the cache follows the policy.  Policies                 *)
(* (PolicyAnalysis): what the static checks say, the engine does.          *)
(* Receipts (ReceiptEvidence): what verifies is the log.  The parts share  *)
(* no state; each has its own inductive invariant.                         *)
(***************************************************************************)
EXTENDS MC_Authorization, FiniteSetTheorems, WellFoundedInduction, TLAPS

-----------------------------------------------------------------------------
(* Capabilities *)

CapFields ==
    {"id", "made", "version", "issuer", "agent", "request", "target", "actions", "purposes",
     "tier", "allowed", "maxDepth", "allowlist", "parent", "root", "limits", "delegate",
     "depth", "from", "until"}

(* A capability as the wire has it. *)
Wired(c) ==
    /\ DOMAIN c = CapFields
    /\ c.version \in {"0.1", "0.2", "1.0"} /\ c.made \in {"root", "child", "hand"}
    /\ c.depth \in 0 .. 3 /\ c.maxDepth \in 0 .. 3 /\ c.tier \in 0 .. 2
    /\ c.allowed \in BOOLEAN /\ c.from \in Int /\ c.until \in Int
    /\ Signable(c.limits)

(* What every capability of a line that the library made has. *)
Sound(c) ==
    /\ c.actions # {} /\ c.purposes # {} /\ Takable(c.limits)
    /\ c.allowed => c.delegate = None /\ c.depth <= c.maxDepth

(* A root is its own root, and comes from the library. *)
OwnRoot(c) == c.parent = NoParent => c.root = c.id /\ c.made = "root"

LEMMA RootIsWired ==
    ASSUME NEW grant \in Grants, NEW id, instant \in Int
    PROVE  LET c == Root(grant, id) IN
           /\ Wired(c) /\ Sound(c) /\ OwnRoot(c)
           /\ c.id = id /\ c.parent = NoParent
<1> DEFINE c == Root(grant, id)
<1>1. /\ DOMAIN c = CapFields /\ c.version = grant.version /\ c.made = "root"
      /\ c.id = id /\ c.parent = NoParent /\ c.root = id /\ c.limits = NoLimits
      /\ c.delegate = None /\ c.depth = 0 /\ c.from = instant
      /\ c.until = instant + grant.ttl
      /\ c.allowed = (grant.version # "0.1" /\ grant.allowed)
      /\ c.maxDepth = IF grant.version = "0.1" THEN 0 ELSE grant.maxDepth
      /\ c.tier = IF grant.version = "0.1" THEN 0 ELSE grant.tier
      /\ c.actions = IF grant.version = "0.1" THEN {grant.request.action} ELSE grant.actions
      /\ c.purposes = IF grant.version = "0.1" THEN {grant.request.purpose} ELSE grant.purposes
  BY DEF Root, CapFields
<1> HIDE DEF c
<1>2. /\ grant.version \in {"0.1", "0.2", "1.0"} /\ grant.ttl \in 1 .. MaxLifetime
      /\ grant.actions # {} /\ grant.purposes # {} /\ grant.tier \in 0 .. 2
      /\ grant.allowed \in BOOLEAN /\ grant.maxDepth \in 0 .. 3 /\ MaxLifetime \in Nat
  BY DelegationAssumption
<1>3. Signable(NoLimits) /\ Takable(NoLimits)
  BY DEF Signable, Takable, NoLimits
<1>4. c.until \in Int /\ c.from \in Int
  BY <1>1, <1>2
<1>5. c.actions # {} /\ c.purposes # {}
  BY <1>1, <1>2
<1>6. c.allowed \in BOOLEAN /\ c.maxDepth \in 0 .. 3 /\ c.tier \in 0 .. 2
  BY <1>1, <1>2
<1>7. Wired(c)
  BY <1>1, <1>2, <1>3, <1>4, <1>6 DEF Wired
<1>8. Sound(c)
  BY <1>1, <1>3, <1>5, <1>6 DEF Sound
<1>9. OwnRoot(c) /\ c.id = id /\ c.parent = NoParent
  BY <1>1 DEF OwnRoot
<1> QED
  BY <1>7, <1>8, <1>9 DEF c

LEMMA ChildFields ==
    ASSUME NEW parent, Wired(parent), NEW n, NEW id
    PROVE  LET c == Child(parent, n, id) IN
           /\ DOMAIN c = CapFields /\ c.id = id /\ c.made = "child"
           /\ c.version = IF Scoped(parent.version) THEN parent.version ELSE "0.2"
           /\ c.issuer = parent.issuer /\ c.agent = parent.agent /\ c.tier = parent.tier
           /\ c.allowlist = parent.allowlist /\ c.root = parent.root /\ c.parent = parent.id
           /\ c.target = Given(n.target, parent.target)
           /\ c.actions = GivenSet(n.actions, parent.actions)
           /\ c.purposes = GivenSet(n.purposes, parent.purposes)
           /\ c.request = IF n.delegate = None THEN parent.request ELSE n.request.id
           /\ c.limits = n.limits
           /\ c.delegate = IF n.delegate = None THEN parent.delegate ELSE n.delegate
           /\ c.depth = IF n.delegate = None THEN parent.depth ELSE parent.depth + 1
           /\ c.allowed = (parent.allowed /\ n.delegate = None)
           /\ c.maxDepth = IF n.delegate = None THEN parent.maxDepth ELSE 0
           /\ c.from = instant /\ c.until = instant + Lifetime(parent, n.ttl)
  BY DEF Child, Wired, CapFields

LEMMA HandFields ==
    ASSUME NEW parent, Wired(parent), NEW tweak \in Tweaks, NEW id
    PROVE  LET c == ByHand(parent, tweak, id) IN
           /\ Wired(c) /\ c.id = id /\ c.parent = parent.id /\ c.made = "hand"
<1> DEFINE c == ByHand(parent, tweak, id)
<1>1. /\ DOMAIN c = CapFields /\ c.id = id /\ c.parent = parent.id /\ c.made = "hand"
      /\ \A f \in CapFields \ {"id", "parent", "made"} :
            c[f] = IF f \in DOMAIN tweak THEN tweak[f] ELSE parent[f]
  BY DEF ByHand, Wired, CapFields
<1> HIDE DEF c
<1>2. \A f \in DOMAIN tweak :
          /\ f = "version" => tweak[f] \in {"0.2", "1.0"}
          /\ f = "tier" => tweak[f] \in 0 .. 2
          /\ f \in {"depth", "maxDepth"} => tweak[f] \in 0 .. 3
          /\ f = "allowed" => tweak[f] \in BOOLEAN
          /\ f \in {"from", "until"} => tweak[f] \in Int
          /\ f = "limits" => Signable(tweak[f])
  BY DelegationAssumption
<1>3. /\ c["version"] \in {"0.1", "0.2", "1.0"}
      /\ c["depth"] \in 0 .. 3 /\ c["maxDepth"] \in 0 .. 3 /\ c["tier"] \in 0 .. 2
      /\ c["from"] \in Int /\ c["until"] \in Int
  BY <1>1, <1>2 DEF Wired, CapFields
<1>4. c["allowed"] \in BOOLEAN
  BY <1>1, <1>2 DEF Wired, CapFields
<1>5. Signable(c["limits"])
  BY <1>1, <1>2 DEF Wired, CapFields
<1> QED
  BY <1>1, <1>3, <1>4, <1>5 DEF Wired, c

-----------------------------------------------------------------------------
(* Lines. *)

(* The numbering of capabilities: parents come before their children.      *)
Numbered ==
    /\ \E S : caps \in Seq(S)
    /\ \A i \in CapIds : caps[i].id = i /\ caps[i].parent \in 0 .. i - 1

LEMMA LineShape ==
    ASSUME NEW i \in CapIds, Numbered
    PROVE  /\ i \in Line(i) /\ Line(i) \subseteq CapIds
           /\ \A j \in Line(i) : /\ j <= i /\ Line(j) \subseteq Line(i)
                                 /\ caps[j].parent # NoParent =>
                                       /\ caps[j].parent \in Line(i) /\ caps[j].parent < j
                                       /\ caps[j].parent \in Line(j)
<1>1. PICK S : caps \in Seq(S)
  BY DEF Numbered
<1>2. CapIds = 1 .. Len(caps) /\ Len(caps) \in Nat
  BY <1>1 DEF CapIds
<1>3. \A j \in CapIds : caps[j].parent # NoParent => caps[j].parent \in CapIds /\ caps[j].parent < j
  BY <1>2 DEF Numbered, NoParent
<1>4. i \in Line(i) /\ Line(i) \subseteq CapIds
  BY DEF Line
<1>5. ASSUME NEW j \in CapIds, NEW k \in Line(j), caps[k].parent # NoParent
      PROVE  caps[k].parent \in Line(j)
  <2>1. k \in CapIds /\ caps[k].parent \in CapIds
    BY <1>3, <1>5 DEF Line
  <2>2. \A T \in Lineages : j \in T => caps[k].parent \in T
    BY <1>5 DEF Line, Lineages
  <2> QED
    BY <2>1, <2>2 DEF Line
<1>6. ASSUME NEW j \in Line(i) PROVE j <= i
  <2> DEFINE T == {k \in CapIds : k <= i}
  <2>1. T \in Lineages
    <3>1. ASSUME NEW k \in T, caps[k].parent # NoParent PROVE caps[k].parent \in T
      BY <1>2, <1>3, <3>1
    <3> QED
      BY <3>1 DEF Lineages
  <2>2. i \in T
    BY <1>2
  <2> HIDE DEF T
  <2>3. j \in T
    BY <1>6, <2>1, <2>2 DEF Line
  <2> QED
    BY <2>3 DEF T
<1>7. ASSUME NEW j \in Line(i) PROVE Line(j) \subseteq Line(i)
  BY <1>4, <1>7 DEF Line
<1>8. \A j \in CapIds : j \in Line(j)
  BY DEF Line
<1>9. ASSUME NEW j \in Line(i), caps[j].parent # NoParent
      PROVE  caps[j].parent \in Line(i) /\ caps[j].parent < j /\ caps[j].parent \in Line(j)
  <2>1. j \in CapIds
    BY <1>4
  <2>2. caps[j].parent < j
    BY <1>3, <1>9, <2>1
  <2>3. caps[j].parent \in Line(i)
    BY <1>5, <1>9
  <2>4. caps[j].parent \in Line(j)
    BY <1>5, <1>8, <1>9, <2>1
  <2> QED
    BY <2>2, <2>3, <2>4
<1> QED
  BY <1>4, <1>6, <1>7, <1>9

(* What holds of a capability and passes from each member of its line to   *)
(* that one's parent holds of the line.                                    *)
LEMMA LineInduction ==
    ASSUME NEW i \in CapIds, Numbered, NEW S, i \in S,
           \A j \in Line(i) : j \in S /\ caps[j].parent # NoParent => caps[j].parent \in S
    PROVE  Line(i) \subseteq S
<1> DEFINE T == Line(i) \cap S
<1>1. T \in Lineages /\ i \in T
  BY LineShape DEF Lineages
<1> HIDE DEF T
<1>2. Line(i) \subseteq T
  BY <1>1 DEF Line
<1> QED
  BY <1>2 DEF T

-----------------------------------------------------------------------------
(* Signing one more. *)

Signs(c) == caps' = Append(caps, c) /\ c.id = NewId /\ c.parent \in 0 .. Len(caps)

LEMMA Signed ==
    ASSUME Numbered, NEW c, Signs(c)
    PROVE  /\ Numbered' /\ CapIds' = CapIds \cup {NewId} /\ NewId \notin CapIds
           /\ caps'[NewId] = c /\ \A i \in CapIds : caps'[i] = caps[i]
           /\ c.parent # NoParent => c.parent \in CapIds
           /\ CapIds = 1 .. Len(caps) /\ Len(caps) \in Nat
<1>1. PICK S : caps \in Seq(S)
  BY DEF Numbered
<1> DEFINE T == S \cup {c}
<1>2. caps \in Seq(T) /\ c \in T
  BY <1>1
<1> HIDE DEF T
<1>3. caps' \in Seq(T) /\ Len(caps') = Len(caps) + 1 /\ Len(caps) \in Nat
  BY <1>2 DEF Signs
<1>4. /\ CapIds = 1 .. Len(caps) /\ CapIds' = CapIds \cup {NewId} /\ NewId \notin CapIds
  BY <1>2, <1>3 DEF CapIds, NewId
<1>5. caps'[NewId] = c /\ \A i \in CapIds : caps'[i] = caps[i]
  BY <1>2, <1>3, <1>4 DEF Signs, NewId, CapIds
<1>6. c.parent # NoParent => c.parent \in CapIds
  BY <1>3, <1>4 DEF Signs, NoParent
<1>7. \A i \in CapIds' : caps'[i].id = i /\ caps'[i].parent \in 0 .. i - 1
  BY <1>3, <1>4, <1>5 DEF Signs, NewId, Numbered
<1> QED
  BY <1>3, <1>4, <1>5, <1>6, <1>7 DEF Numbered

(* The lines there were stay, and the new line goes on along its parent's. *)
LEMMA LinesStay ==
    ASSUME Numbered, NEW c, Signs(c)
    PROVE  /\ \A i \in CapIds : Line(i)' = Line(i)
           /\ c.id \in Line(c.id)'
           /\ c.parent # NoParent => Line(c.parent) \subseteq Line(c.id)'
<1>1. /\ CapIds' = CapIds \cup {c.id} /\ c.id \notin CapIds
      /\ caps'[c.id] = c /\ \A i \in CapIds : caps'[i] = caps[i]
      /\ c.parent # NoParent => c.parent \in CapIds
  BY Signed DEF Signs
<1>2. ASSUME NEW S \in Lineages PROVE S \in Lineages'
  BY <1>1, <1>2 DEF Lineages
<1>3. CapIds \in Lineages
  <2>1. PICK S : caps \in Seq(S)
    BY DEF Numbered
  <2>2. CapIds = 1 .. Len(caps) /\ Len(caps) \in Nat
    BY <2>1 DEF CapIds
  <2> QED
    BY <2>2 DEF Numbered, Lineages, NoParent
<1>4. ASSUME NEW S \in Lineages' PROVE S \cap CapIds \in Lineages
  <2>1. ASSUME NEW j \in S \cap CapIds, caps[j].parent # NoParent
        PROVE  caps[j].parent \in S \cap CapIds
    <3>1. caps[j].parent \in S
      BY <1>1, <1>4, <2>1 DEF Lineages
    <3>2. caps[j].parent \in CapIds
      BY <1>3, <2>1 DEF Lineages
    <3> QED
      BY <3>1, <3>2
  <2> QED
    BY <2>1 DEF Lineages
<1>5. ASSUME NEW i \in CapIds PROVE Line(i)' = Line(i)
  <2>1. ASSUME NEW j \in Line(i)' PROVE j \in Line(i)
    <3>1. \A S \in Lineages : i \in S => j \in S
      BY <1>2, <2>1 DEF Line
    <3>2. j \in CapIds
      BY <1>3, <3>1
    <3> QED
      BY <3>1, <3>2 DEF Line
  <2>2. ASSUME NEW j \in Line(i) PROVE j \in Line(i)'
    <3>1. j \in CapIds'
      BY <1>1, <2>2 DEF Line
    <3>2. ASSUME NEW S \in Lineages', i \in S PROVE j \in S
      BY <1>4, <1>5, <2>2, <3>2 DEF Line
    <3> QED
      BY <3>1, <3>2 DEF Line
  <2> QED
    BY <2>1, <2>2
<1>6. c.id \in Line(c.id)'
  BY <1>1 DEF Line
<1>7. ASSUME c.parent # NoParent, NEW j \in Line(c.parent) PROVE j \in Line(c.id)'
  <2>1. j \in CapIds'
    BY <1>1, <1>7 DEF Line
  <2>2. ASSUME NEW S \in Lineages', c.id \in S PROVE j \in S
    <3>1. c.parent \in S \cap CapIds
      BY <1>1, <1>7, <2>2 DEF Lineages
    <3> QED
      BY <1>4, <1>7, <3>1 DEF Line
  <2> QED
    BY <2>1, <2>2 DEF Line
<1> QED
  BY <1>5, <1>6, <1>7

-----------------------------------------------------------------------------
(* What the library makes. *)

(* attenuate_capability and verify_attenuation agree on one child: what    *)
(* the first makes of a sound parent is sound, and the second accepts it.  *)
LEMMA ChildIsSound ==
    ASSUME NEW parent, Wired(parent), NEW n \in Narrowings, NEW id,
           MayAttenuate(parent, n), instant \in Int
    PROVE  LET c == Child(parent, n, id) IN
           /\ Wired(c) /\ c.id = id /\ c.parent = parent.id /\ c.made = "child"
           /\ Sound(parent) => Sound(c) /\ VerifyAttenuation(c, parent)
<1> DEFINE c == Child(parent, n, id)
<1>1. /\ DOMAIN c = CapFields /\ c.id = id /\ c.made = "child"
      /\ c.version = IF Scoped(parent.version) THEN parent.version ELSE "0.2"
      /\ c.issuer = parent.issuer /\ c.agent = parent.agent /\ c.tier = parent.tier
      /\ c.allowlist = parent.allowlist /\ c.root = parent.root /\ c.parent = parent.id
      /\ c.target = Given(n.target, parent.target)
      /\ c.actions = GivenSet(n.actions, parent.actions)
      /\ c.purposes = GivenSet(n.purposes, parent.purposes)
      /\ c.request = IF n.delegate = None THEN parent.request ELSE n.request.id
      /\ c.limits = n.limits
      /\ c.delegate = IF n.delegate = None THEN parent.delegate ELSE n.delegate
      /\ c.depth = IF n.delegate = None THEN parent.depth ELSE parent.depth + 1
      /\ c.allowed = (parent.allowed /\ n.delegate = None)
      /\ c.maxDepth = IF n.delegate = None THEN parent.maxDepth ELSE 0
      /\ c.from = instant /\ c.until = instant + Lifetime(parent, n.ttl)
  BY ChildFields
<1> HIDE DEF c
<1>2. /\ TargetWithin(c.target, parent.target)
      /\ c.actions \subseteq parent.actions /\ c.purposes \subseteq parent.purposes
      /\ Lifetime(parent, n.ttl) \in 1 .. MaxLifetime
      /\ parent.from <= c.from /\ c.until <= parent.until
      /\ LimitsTighten(c.limits, parent.limits)
      /\ n.delegate # None => MayDelegate(parent, n, c.target, c.actions, c.purposes)
  BY <1>1 DEF MayAttenuate
<1>3. /\ parent.depth \in 0 .. 3 /\ parent.maxDepth \in 0 .. 3 /\ parent.allowed \in BOOLEAN
      /\ parent.tier \in 0 .. 2 /\ parent.version \in {"0.1", "0.2", "1.0"}
  BY DEF Wired
<1>4. n.delegate # None => /\ n.delegate # parent.agent /\ parent.allowed
                           /\ parent.depth < parent.maxDepth
                           /\ parent.allowlist # {} => Matches(n.delegate, parent.allowlist)
  BY <1>2 DEF MayDelegate
<1>5. Scoped(c.version) /\ (Scoped(parent.version) => c.version = parent.version)
  BY <1>1, <1>3 DEF Scoped
<1>6. Wired(c)
  <2>1. c.depth \in 0 .. 3 /\ c.maxDepth \in 0 .. 3
    BY <1>1, <1>3, <1>4
  <2>2. c.from \in Int /\ c.until \in Int
    BY <1>1, <1>2
  <2>3. Signable(c.limits)
    BY <1>1, DelegationAssumption DEF Takable, Signable
  <2>4. c.allowed \in BOOLEAN
    BY <1>1, <1>3
  <2>5. c.version \in {"0.1", "0.2", "1.0"} /\ c.tier \in 0 .. 2
    BY <1>1, <1>3
  <2> QED
    BY <1>1, <2>1, <2>2, <2>3, <2>4, <2>5 DEF Wired
<1>7. ASSUME Sound(parent) PROVE Sound(c) /\ VerifyAttenuation(c, parent)
  <2>1. c.actions # {} /\ c.purposes # {} /\ Takable(c.limits)
    BY <1>1, <1>7, DelegationAssumption DEF GivenSet, Sound
  <2>2. c.allowed => /\ n.delegate = None /\ parent.allowed
                     /\ c.delegate = None /\ c.depth <= c.maxDepth
    BY <1>1, <1>3, <1>7 DEF Sound
  <2>3. DelegationVerifies(c, parent)
    <3>1. CASE n.delegate = None
      BY <1>1, <3>1 DEF DelegationVerifies
    <3>2. CASE n.delegate # None
      <4>1. parent.delegate = None /\ c.delegate = n.delegate
        BY <1>1, <1>4, <1>7, <3>2 DEF Sound
      <4>2. ~c.allowed /\ c.maxDepth = 0 /\ c.depth = parent.depth + 1 /\ c.agent = parent.agent
        BY <1>1, <3>2
      <4> QED
        BY <1>4, <3>2, <4>1, <4>2 DEF DelegationVerifies
    <3> QED
      BY <3>1, <3>2
  <2>4. c.maxDepth <= parent.maxDepth
    BY <1>1, <1>3
  <2>5. c.allowed => parent.allowed
    BY <2>2
  <2>6. VerifyAttenuation(c, parent)
    BY <1>1, <1>2, <1>5, <2>1, <2>3, <2>4, <2>5, <1>6 DEF VerifyAttenuation, Wired, Takable
  <2> QED
    BY <2>1, <2>2, <2>6 DEF Sound
<1> QED
  BY <1>1, <1>6, <1>7 DEF c

-----------------------------------------------------------------------------
(* The inductive invariant. *)

(* A link that the library made, in a line that it made, verifies. *)
Links(i) ==
    /\ Sound(caps[i])
    /\ caps[i].parent # NoParent => VerifyAttenuation(caps[i], caps[caps[i].parent])

DelegationInv ==
    /\ DelegationTypeOK /\ Numbered
    /\ \A i \in CapIds : Wired(caps[i]) /\ OwnRoot(caps[i]) /\ (ByLibrary(i) => Links(i))
    /\ \A u \in uses : u.cap \notin u.revoked /\ caps[u.cap].root \notin u.revoked

LEMMA DelegationInvInit == DelegationInit => DelegationInv
<1> SUFFICES ASSUME DelegationInit PROVE DelegationInv
  OBVIOUS
<1>1. instant = 0 /\ caps = <<>> /\ revoked = {} /\ consumed = {} /\ uses = {} /\ CapIds = {}
  BY DEF DelegationInit, CapIds
<1>2. caps \in Seq({})
  BY <1>1
<1>3. Numbered
  BY <1>1, <1>2 DEF Numbered
<1>4. DelegationTypeOK
  BY <1>1, DelegationAssumption DEF DelegationTypeOK
<1> QED
  BY <1>1, <1>3, <1>4 DEF DelegationInv

LEMMA SignKeeps ==
    ASSUME DelegationInv, NEW c, Signs(c), Wired(c), OwnRoot(c),
           UNCHANGED <<instant, revoked, consumed, uses>>,
           c.made # "hand" /\ (c.parent # NoParent => ByLibrary(c.parent)) =>
               /\ Sound(c)
               /\ c.parent # NoParent => VerifyAttenuation(c, caps[c.parent])
    PROVE  DelegationInv'
<1>0. /\ DelegationTypeOK /\ Numbered
      /\ \A i \in CapIds : Wired(caps[i]) /\ OwnRoot(caps[i]) /\ (ByLibrary(i) => Links(i))
      /\ \A u \in uses : u.cap \notin u.revoked /\ caps[u.cap].root \notin u.revoked
  BY DEF DelegationInv
<1>1. /\ Numbered' /\ CapIds' = CapIds \cup {c.id} /\ c.id \notin CapIds
      /\ caps'[c.id] = c /\ \A i \in CapIds : caps'[i] = caps[i]
      /\ c.parent # NoParent => c.parent \in CapIds
      /\ CapIds = 1 .. Len(caps) /\ Len(caps) \in Nat
  BY <1>0, Signed DEF Signs
<1>2. /\ \A i \in CapIds : Line(i)' = Line(i)
      /\ c.id \in Line(c.id)'
      /\ c.parent # NoParent => Line(c.parent) \subseteq Line(c.id)'
  BY <1>0, LinesStay
<1>3. \A i \in CapIds' : Wired(caps'[i]) /\ OwnRoot(caps'[i])
  BY <1>0, <1>1
<1>4. ASSUME NEW i \in CapIds, ByLibrary(i)' PROVE Links(i)'
  <2>1. ByLibrary(i)
    <3>1. \A j \in Line(i) : j \in CapIds /\ caps'[j] = caps[j]
      BY <1>1 DEF Line
    <3> QED
      BY <1>2, <1>4, <3>1 DEF ByLibrary
  <2>2. Links(i)
    BY <1>0, <2>1
  <2>3. caps[i].parent # NoParent => caps[i].parent \in CapIds
    BY <1>0, <1>1 DEF Numbered, NoParent
  <2> QED
    BY <1>1, <2>2, <2>3 DEF Links
<1>5. ASSUME ByLibrary(c.id)' PROVE Links(c.id)'
  <2>1. c.made # "hand"
    BY <1>1, <1>2, <1>5 DEF ByLibrary
  <2>2. ASSUME c.parent # NoParent PROVE ByLibrary(c.parent)
    <3>1. \A j \in Line(c.parent) : j \in CapIds /\ caps'[j] = caps[j]
      BY <1>1 DEF Line
    <3> QED
      BY <1>2, <1>5, <2>2, <3>1 DEF ByLibrary
  <2>3. Sound(c) /\ (c.parent # NoParent => VerifyAttenuation(c, caps[c.parent]))
    BY <2>1, <2>2
  <2> QED
    BY <1>1, <2>3 DEF Links
<1>6. \A u \in uses' : u.cap \notin u.revoked /\ caps'[u.cap].root \notin u.revoked
  BY <1>0, <1>1 DEF DelegationTypeOK
<1>7. DelegationTypeOK'
  <2>1. \A i \in CapIds' :
          /\ caps'[i].id = i /\ caps'[i].parent \in 0 .. i - 1
          /\ caps'[i].version \in {"0.1", "0.2", "1.0"}
          /\ caps'[i].depth \in 0 .. 3 /\ caps'[i].maxDepth \in 0 .. 3
          /\ caps'[i].allowed \in BOOLEAN /\ caps'[i].tier \in 0 .. 2
          /\ Signable(caps'[i].limits)
          /\ caps'[i].made \in {"root", "child", "hand"}
    BY <1>1, <1>3 DEF Wired, Numbered
  <2> QED
    BY <1>0, <1>1, <2>1 DEF DelegationTypeOK, NoParent
<1> QED
  BY <1>1, <1>3, <1>4, <1>5, <1>6, <1>7 DEF DelegationInv

(* Where nothing is signed, the lines are what they were. *)
LEMMA CapsKeep ==
    ASSUME DelegationInv, UNCHANGED caps
    PROVE  /\ Numbered' /\ CapIds' = CapIds
           /\ \A i \in CapIds : /\ Wired(caps[i])' /\ OwnRoot(caps[i])'
                                /\ ByLibrary(i)' => Links(i)'
<1>1. /\ Numbered
      /\ \A i \in CapIds : Wired(caps[i]) /\ OwnRoot(caps[i]) /\ (ByLibrary(i) => Links(i))
  BY DEF DelegationInv
<1>2. CapIds' = CapIds /\ Numbered'
  BY <1>1 DEF CapIds, Numbered
<1>3. Lineages' = Lineages
  BY <1>2 DEF Lineages
<1>4. \A i \in CapIds : Line(i)' = Line(i)
  BY <1>2, <1>3 DEF Line
<1>5. \A i \in CapIds : (ByLibrary(i)' <=> ByLibrary(i)) /\ (Links(i)' <=> Links(i))
  BY <1>4 DEF ByLibrary, Links
<1> QED
  BY <1>1, <1>2, <1>5

LEMMA AuthorizeKeeps ==
    ASSUME DelegationInv, NEW i \in CapIds, NEW shown \in CapIds \cup {NoParent},
           Authorize(i, shown)
    PROVE  DelegationInv'
<1>0. DelegationTypeOK /\ \A u \in uses : u.cap \notin u.revoked /\ caps[u.cap].root \notin u.revoked
  BY DEF DelegationInv
<1> DEFINE use == [cap |-> i, shown |-> shown, revoked |-> revoked]
<1>1. /\ UNCHANGED <<instant, caps, revoked>>
      /\ uses' = uses \cup {use} /\ consumed' = consumed \cup {i}
      /\ i \notin revoked /\ caps[i].root \notin revoked
  BY DEF Authorize
<1>2. use.cap = i /\ use.shown = shown /\ use.revoked = revoked
  OBVIOUS
<1> HIDE DEF use
<1>3. \A u \in uses' : u.cap \notin u.revoked /\ caps'[u.cap].root \notin u.revoked
  BY <1>0, <1>1, <1>2
<1>4. DelegationTypeOK'
  BY <1>0, <1>1, <1>2, CapsKeep DEF DelegationTypeOK
<1> QED
  BY <1>1, <1>3, <1>4, CapsKeep DEF DelegationInv

LEMMA DelegationInvStep == DelegationInv /\ [DelegationNext]_delegationVars => DelegationInv'
<1> SUFFICES ASSUME DelegationInv, [DelegationNext]_delegationVars PROVE DelegationInv'
  OBVIOUS
<1>0. /\ DelegationTypeOK /\ Numbered /\ instant \in Int
      /\ \A i \in CapIds : Wired(caps[i]) /\ OwnRoot(caps[i]) /\ (ByLibrary(i) => Links(i))
      /\ \A i \in CapIds : caps[i].id = i
      /\ \A u \in uses : u.cap \notin u.revoked /\ caps[u.cap].root \notin u.revoked
  BY DEF DelegationInv, DelegationTypeOK
<1>1. CapIds = 1 .. Len(caps) /\ Len(caps) \in Nat
  <2>1. PICK S : caps \in Seq(S)
    BY <1>0 DEF Numbered
  <2> QED
    BY <2>1 DEF CapIds
<1>2. CASE Issue
  <2>1. PICK grant \in Grants : caps' = Append(caps, Root(grant, NewId))
    BY <1>2 DEF Issue
  <2> DEFINE c == Root(grant, NewId)
  <2>2. Wired(c) /\ Sound(c) /\ OwnRoot(c) /\ c.id = NewId /\ c.parent = NoParent
    BY <1>0, RootIsWired
  <2>3. caps' = Append(caps, c)
    BY <2>1
  <2>4. UNCHANGED <<instant, revoked, consumed, uses>>
    BY <1>2 DEF Issue
  <2> HIDE DEF c
  <2>5. Signs(c)
    BY <1>1, <2>2, <2>3 DEF Signs, NoParent
  <2> QED
    BY <2>2, <2>4, <2>5, SignKeeps
<1>3. ASSUME NEW i \in CapIds, Attenuate(i) PROVE DelegationInv'
  <2>1. PICK n \in Narrowings : /\ MayAttenuate(caps[i], n)
                                /\ caps' = Append(caps, Child(caps[i], n, NewId))
    BY <1>3 DEF Attenuate
  <2> DEFINE c == Child(caps[i], n, NewId)
  <2>2. /\ Wired(c) /\ c.id = NewId /\ c.parent = caps[i].id /\ c.made = "child"
        /\ Sound(caps[i]) => Sound(c) /\ VerifyAttenuation(c, caps[i])
    BY <1>0, <2>1, ChildIsSound
  <2>3. caps' = Append(caps, c) /\ UNCHANGED <<instant, revoked, consumed, uses>>
    BY <1>3, <2>1 DEF Attenuate
  <2> HIDE DEF c
  <2>4. c.parent = i /\ c.parent # NoParent
    BY <1>0, <1>1, <2>2 DEF NoParent
  <2>5. Signs(c) /\ OwnRoot(c)
    BY <1>1, <2>2, <2>3, <2>4 DEF Signs, OwnRoot
  <2>6. ByLibrary(c.parent) => Sound(caps[i])
    BY <1>0, <2>4 DEF Links
  <2> QED
    BY <2>2, <2>3, <2>4, <2>5, <2>6, SignKeeps
<1>4. ASSUME NEW i \in CapIds, SignByHand(i) PROVE DelegationInv'
  <2>1. PICK tweak \in Tweaks : caps' = Append(caps, ByHand(caps[i], tweak, NewId))
    BY <1>4 DEF SignByHand
  <2> DEFINE c == ByHand(caps[i], tweak, NewId)
  <2>2. Wired(c) /\ c.id = NewId /\ c.parent = caps[i].id /\ c.made = "hand"
    BY <1>0, HandFields
  <2>3. caps' = Append(caps, c) /\ UNCHANGED <<instant, revoked, consumed, uses>>
    BY <1>4, <2>1 DEF SignByHand
  <2> HIDE DEF c
  <2>4. c.parent = i /\ c.parent # NoParent
    BY <1>0, <1>1, <2>2 DEF NoParent
  <2>5. Signs(c) /\ OwnRoot(c)
    BY <1>1, <2>2, <2>3, <2>4 DEF Signs, OwnRoot
  <2> QED
    BY <2>2, <2>3, <2>5, SignKeeps
<1>5. CASE Wait
  <2>1. instant' \in 0 .. LastTime /\ UNCHANGED <<caps, revoked, consumed, uses>>
    BY <1>0, <1>5, DelegationAssumption DEF Wait, DelegationTypeOK
  <2> QED
    BY <1>0, <2>1, CapsKeep DEF DelegationInv, DelegationTypeOK
<1>6. ASSUME NEW i \in CapIds, RevokeCap(i) PROVE DelegationInv'
  <2>1. revoked' = {i} /\ UNCHANGED <<instant, caps, consumed, uses>>
    BY <1>6 DEF RevokeCap
  <2> QED
    BY <1>0, <2>1, CapsKeep DEF DelegationInv, DelegationTypeOK
<1>7. CASE UNCHANGED delegationVars
  BY <1>0, <1>7, CapsKeep DEF DelegationInv, DelegationTypeOK, delegationVars
<1> QED
  BY <1>2, <1>3, <1>4, <1>5, <1>6, <1>7, AuthorizeKeeps DEF DelegationNext

LEMMA DelegationInvAlways == DelegationSpec => []DelegationInv
  BY DelegationInvInit, DelegationInvStep, PTL DEF DelegationSpec

-----------------------------------------------------------------------------
(* The results. *)

(* Every variable keeps its shape (issue, issue_scoped, issue_attenuated,  *)
(* authorize).                                                             *)
THEOREM DelegationTypeCorrect == DelegationSpec => []DelegationTypeOK
<1>1. DelegationInv => DelegationTypeOK
  BY DEF DelegationInv
<1> QED
  BY <1>1, DelegationInvAlways, PTL

(* In a line that only attenuate_capability made, every link verifies. *)
LEMMA LibraryVerifies ==
    ASSUME DelegationInv, NEW i \in CapIds, ByLibrary(i)
    PROVE  LineVerifies(i)
<1>1. Numbered /\ \A j \in CapIds : ByLibrary(j) => Links(j)
  BY DEF DelegationInv
<1>2. ASSUME NEW j \in Line(i) PROVE Links(j)
  <2>1. j \in CapIds /\ Line(j) \subseteq Line(i)
    BY <1>1, LineShape
  <2> QED
    BY <1>1, <2>1 DEF ByLibrary
<1> QED
  BY <1>2 DEF Links, LineVerifies

(* attenuate_capability and verify_attenuation agree, for every parent the *)
(* library made, every narrowing of it and every depth of delegation.      *)
THEOREM ChildrenVerify == DelegationSpec => []ChildVerifies
<1>1. DelegationInv => ChildVerifies
  BY LibraryVerifies DEF ChildVerifies
<1> QED
  BY <1>1, DelegationInvAlways, PTL

(* The root of a verified line is the root its capabilities name. *)
LEMMA RootOfLine ==
    ASSUME DelegationInv, NEW i \in CapIds, LineVerifies(i), NEW j \in Line(i),
           caps[j].parent = NoParent
    PROVE  caps[i].root = j
<1>1. Numbered /\ \A k \in CapIds : OwnRoot(caps[k]) /\ caps[k].id = k
  BY DEF DelegationInv, Numbered
<1> DEFINE S == {k \in CapIds : caps[k].root = caps[i].root}
<1>2. ASSUME NEW k \in Line(i), k \in S, caps[k].parent # NoParent PROVE caps[k].parent \in S
  <2>1. caps[k].parent \in CapIds
    BY <1>1, <1>2, LineShape
  <2>2. caps[k].root = caps[caps[k].parent].root
    BY <1>2 DEF LineVerifies, VerifyAttenuation
  <2> QED
    BY <1>2, <2>1, <2>2
<1>3. i \in S
  OBVIOUS
<1> HIDE DEF S
<1>4. j \in S
  BY <1>1, <1>2, <1>3, LineInduction
<1>5. j \in CapIds
  BY <1>1, LineShape
<1> QED
  BY <1>1, <1>4, <1>5 DEF S, OwnRoot

(* A gate that is shown one capability refuses it once its root is revoked,*)
(* however long the line is.                                               *)
THEOREM RootStopsLine == DelegationSpec => []RootStopsAll
<1>1. ASSUME DelegationInv PROVE RootStopsAll
  <2>1. SUFFICES ASSUME NEW u \in uses, LineVerifies(u.cap) \/ ByLibrary(u.cap),
                        NEW j \in Line(u.cap), caps[j].parent = NoParent
                 PROVE  j \notin u.revoked
    BY DEF RootStopsAll
  <2>2. u.cap \in CapIds /\ caps[u.cap].root \notin u.revoked
    BY <1>1 DEF DelegationInv, DelegationTypeOK
  <2>3. LineVerifies(u.cap)
    BY <1>1, <2>1, <2>2, LibraryVerifies
  <2>4. caps[u.cap].root = j
    BY <1>1, <2>1, <2>2, <2>3, RootOfLine
  <2> QED
    BY <2>2, <2>4
<1> QED
  BY <1>1, DelegationInvAlways, PTL

(* One verified link more. *)
LEMMA LinkNarrows ==
    ASSUME NEW c, NEW a, NEW p, Wired(c), Wired(a), Wired(p), VerifyAttenuation(a, p),
           Within(c, a), c.allowed => a.allowed
    PROVE  Within(c, p) /\ (c.allowed => p.allowed)
<1>1. /\ a.actions \subseteq p.actions /\ a.purposes \subseteq p.purposes
      /\ a.from >= p.from /\ a.until <= p.until
      /\ a.issuer = p.issuer /\ a.agent = p.agent /\ a.tier = p.tier
      /\ a.allowlist = p.allowlist /\ DelegationVerifies(a, p) /\ (a.allowed => p.allowed)
  BY DEF VerifyAttenuation
<1>2. /\ c.actions \subseteq a.actions /\ c.purposes \subseteq a.purposes
      /\ c.from >= a.from /\ c.until <= a.until
      /\ c.issuer = a.issuer /\ c.agent = a.agent /\ c.tier = a.tier
      /\ c.depth <= IF a.allowed THEN a.depth + 1 ELSE a.depth
      /\ c.delegate # a.delegate =>
            a.allowed /\ ~c.allowed /\ (a.allowlist # {} => Matches(c.delegate, a.allowlist))
  BY DEF Within
<1>3. /\ c.from \in Int /\ c.until \in Int /\ a.from \in Int /\ a.until \in Int
      /\ p.from \in Int /\ p.until \in Int
      /\ c.depth \in 0 .. 3 /\ a.depth \in 0 .. 3 /\ p.depth \in 0 .. 3
      /\ c.allowed \in BOOLEAN /\ a.allowed \in BOOLEAN /\ p.allowed \in BOOLEAN
  BY DEF Wired
<1>4. c.from >= p.from /\ c.until <= p.until
  BY <1>1, <1>2, <1>3
<1>5. CASE a.delegate = p.delegate
  <2>1. a.depth = p.depth
    BY <1>1, <1>5 DEF DelegationVerifies
  <2>2. c.depth <= IF p.allowed THEN p.depth + 1 ELSE p.depth
    BY <1>1, <1>2, <1>3, <2>1
  <2>3. c.delegate # p.delegate =>
            p.allowed /\ ~c.allowed /\ (p.allowlist # {} => Matches(c.delegate, p.allowlist))
    BY <1>1, <1>2, <1>5
  <2> QED
    BY <1>1, <1>2, <1>4, <2>2, <2>3 DEF Within
<1>6. CASE a.delegate # p.delegate
  <2>1. /\ p.allowed /\ a.depth = p.depth + 1 /\ ~a.allowed
        /\ p.allowlist # {} => Matches(a.delegate, p.allowlist)
    BY <1>1, <1>6 DEF DelegationVerifies
  <2>2. c.depth <= p.depth + 1 /\ c.delegate = a.delegate /\ ~c.allowed
    BY <1>2, <1>3, <2>1
  <2> QED
    BY <1>1, <1>2, <1>4, <2>1, <2>2 DEF Within
<1> QED
  BY <1>5, <1>6

(* The capabilities of the line of i that come from j. *)
Between(i, j) == {k \in Line(i) : j \in Line(k)}

LEMMA BetweenGrows ==
    ASSUME Numbered, NEW i \in CapIds, NEW j \in Line(i), caps[j].parent # NoParent
    PROVE  LET p == caps[j].parent IN
           /\ p \in CapIds /\ p # j /\ j \in Between(i, p)
           /\ \A k \in Between(i, j) : k \in Between(i, p) /\ k # p
<1>1. /\ j \in CapIds /\ caps[j].parent \in Line(i) /\ caps[j].parent < j
      /\ caps[j].parent \in Line(j) /\ caps[j].parent \in CapIds
  BY LineShape
<1>2. ASSUME NEW k \in Between(i, j) PROVE k \in Between(i, caps[j].parent) /\ k # caps[j].parent
  <2>1. k \in Line(i) /\ k \in CapIds /\ j \in Line(k)
    BY <1>2, LineShape DEF Between
  <2>2. j <= k /\ caps[j].parent \in Line(k)
    BY <2>1, LineShape
  <2>3. j \in Int /\ k \in Int /\ caps[j].parent \in Int
    <3>1. PICK S : caps \in Seq(S)
      BY DEF Numbered
    <3> QED
      BY <1>1, <2>1, <3>1 DEF CapIds
  <2> QED
    BY <1>1, <2>1, <2>2, <2>3 DEF Between
<1>3. caps[j].parent # j
  <2>1. PICK S : caps \in Seq(S)
    BY DEF Numbered
  <2> QED
    BY <1>1, <2>1 DEF CapIds
<1> QED
  BY <1>1, <1>2, <1>3 DEF Between

(* Attenuation composes: whatever the length of a line whose links verify, *)
(* its last capability is within every other.                              *)
THEOREM NarrowAlongLines == DelegationSpec => []LinesNarrow
<1>1. ASSUME DelegationInv PROVE LinesNarrow
  <2>0. Numbered /\ \A i \in CapIds : Wired(caps[i])
    BY <1>1 DEF DelegationInv
  <2>1. SUFFICES ASSUME NEW i \in CapIds, LineVerifies(i)
                 PROVE  \A j \in Line(i) :
                          /\ Within(caps[i], caps[j])
                          /\ (\A k \in Between(i, j) :
                                  \/ Matching[caps[k].target] = {caps[k].target}
                                  \/ k = j \/ caps[k].target = caps[caps[k].parent].target) =>
                                Matching[caps[i].target] \subseteq Matching[caps[j].target]
                          /\ \A name \in Constraints \ {"allowed_zones"} :
                                (\A k \in Between(i, j) : Sets(caps[k].limits, name)) =>
                                    caps[i].limits[name] <= caps[j].limits[name]
    BY DEF LinesNarrow, Between
  <2>2. ASSUME NEW j \in Line(i), caps[j].parent # NoParent
        PROVE  /\ VerifyAttenuation(caps[j], caps[caps[j].parent])
               /\ j \in CapIds /\ caps[j].parent \in CapIds
    BY <2>0, <2>1, <2>2, LineShape DEF LineVerifies
  <2>3. \A j \in Line(i) : Within(caps[i], caps[j])
    <3> DEFINE S == {j \in CapIds : Within(caps[i], caps[j]) /\ (caps[i].allowed => caps[j].allowed)}
    <3>1. i \in S
      BY <2>0 DEF Within, Wired
    <3>2. ASSUME NEW j \in Line(i), j \in S, caps[j].parent # NoParent PROVE caps[j].parent \in S
      BY <2>0, <2>2, <3>2, LinkNarrows
    <3> HIDE DEF S
    <3>3. Line(i) \subseteq S
      BY <2>0, <3>1, <3>2, LineInduction
    <3> QED
      BY <3>3 DEF S
  <2>4. ASSUME NEW j \in Line(i),
               \A k \in Between(i, j) : \/ Matching[caps[k].target] = {caps[k].target}
                                        \/ k = j \/ caps[k].target = caps[caps[k].parent].target
        PROVE  Matching[caps[i].target] \subseteq Matching[caps[j].target]
    <3> DEFINE Fixed(k, j0) == \/ Matching[caps[k].target] = {caps[k].target}
                               \/ k = j0 \/ caps[k].target = caps[caps[k].parent].target
               S == {j0 \in CapIds : (\A k \in Between(i, j0) : Fixed(k, j0)) =>
                                       Matching[caps[i].target] \subseteq Matching[caps[j0].target]}
    <3>1. i \in S
      OBVIOUS
    <3>2. ASSUME NEW j0 \in Line(i), j0 \in S, caps[j0].parent # NoParent
          PROVE  caps[j0].parent \in S
      <4> DEFINE p == caps[j0].parent
      <4>1. /\ p \in CapIds /\ p # j0 /\ j0 \in Between(i, p)
            /\ \A k \in Between(i, j0) : k \in Between(i, p) /\ k # p
        BY <2>0, <3>2, BetweenGrows
      <4>2. SUFFICES ASSUME \A k \in Between(i, p) : Fixed(k, p)
                     PROVE  Matching[caps[i].target] \subseteq Matching[caps[p].target]
        BY <4>1
      <4>3. \A k \in Between(i, j0) : Fixed(k, j0)
        BY <4>1, <4>2
      <4>4. Matching[caps[i].target] \subseteq Matching[caps[j0].target]
        BY <3>2, <4>3
      <4>5. TargetWithin(caps[j0].target, caps[p].target)
        BY <2>2, <3>2 DEF VerifyAttenuation
      <4>6. Matching[caps[j0].target] \subseteq Matching[caps[p].target]
        BY <4>1, <4>2, <4>5 DEF TargetWithin
      <4> QED
        BY <4>4, <4>6
    <3> HIDE DEF S
    <3>3. j \in S
      BY <2>0, <3>1, <3>2, LineInduction
    <3> QED
      BY <2>4, <3>3 DEF S
  <2>5. ASSUME NEW name \in Constraints, name # "allowed_zones", NEW j \in Line(i),
               Sets(caps[j].limits, name),
               \A k \in Between(i, j) : Sets(caps[k].limits, name)
        PROVE  caps[i].limits[name] <= caps[j].limits[name]
    <3> DEFINE S == {j0 \in CapIds : /\ Sets(caps[j0].limits, name)
                                     /\ \A k \in Between(i, j0) : Sets(caps[k].limits, name)
                                     => caps[i].limits[name] <= caps[j0].limits[name]}
    <3>0. \A k \in CapIds : Sets(caps[k].limits, name) => caps[k].limits[name] \in Int
      BY <2>0, <2>5 DEF Wired, Signable, Sets
    <3>1. i \in S
      BY <3>0
    <3>2. ASSUME NEW j0 \in Line(i), j0 \in S, caps[j0].parent # NoParent
          PROVE  caps[j0].parent \in S
      <4> DEFINE p == caps[j0].parent
      <4>1. /\ p \in CapIds /\ p # j0 /\ j0 \in Between(i, p)
            /\ \A k \in Between(i, j0) : k \in Between(i, p) /\ k # p
        BY <2>0, <3>2, BetweenGrows
      <4>2. SUFFICES ASSUME Sets(caps[p].limits, name),
                            \A k \in Between(i, p) : Sets(caps[k].limits, name)
                     PROVE  caps[i].limits[name] <= caps[p].limits[name]
        BY <4>1
      <4>3. caps[i].limits[name] <= caps[j0].limits[name]
        BY <3>2, <4>1, <4>2
      <4>4. caps[j0].limits[name] <= caps[p].limits[name]
        <5>1. LimitsTighten(caps[j0].limits, caps[p].limits)
          BY <2>2, <3>2 DEF VerifyAttenuation
        <5>2. Sets(caps[j0].limits, name) /\ Sets(caps[p].limits, name)
          BY <4>1, <4>2
        <5> QED
          BY <2>5, <5>1, <5>2 DEF LimitsTighten
      <4>5. Sets(caps[i].limits, name) /\ j0 \in CapIds /\ Sets(caps[j0].limits, name)
        <5>1. j0 \in Line(i) /\ i \in Line(i) /\ p \in Line(i)
          BY <2>0, <3>2, LineShape
        <5>2. p \in Line(i) => i \in Between(i, p)
          BY <5>1 DEF Between
        <5> QED
          BY <2>2, <3>2, <4>1, <4>2, <5>1, <5>2
      <4> QED
        BY <3>0, <4>1, <4>2, <4>3, <4>4, <4>5
    <3> HIDE DEF S
    <3>3. j \in S
      BY <2>0, <3>1, <3>2, LineInduction
    <3> QED
      BY <2>5, <3>3 DEF S
  <2>6. ASSUME NEW j \in Line(i) PROVE j \in Between(i, j)
    BY <2>0, <2>6, LineShape DEF Between
  <2> QED
    BY <2>3, <2>4, <2>5, <2>6
<1> QED
  BY <1>1, DelegationInvAlways, PTL

(* For every way of matching names, the Python gate and the Go verifier    *)
(* agree on what the library made and nobody was delegated to; and of what *)
(* was signed by hand, the gate alone takes null limits, and the Go        *)
(* verifier alone takes unknown constraints and too deep a permission.     *)
THEOREM VerifiersAgreeOnCapabilities == DelegationSpec => []CapabilityVerifiersAgree
<1>1. ASSUME DelegationInv PROVE CapabilityVerifiersAgree
  <2>1. SUFFICES ASSUME NEW i \in CapIds, NEW r \in Decided, caps[i].delegate = None,
                        r.target \in Matching[caps[i].target] <=>
                            r.target \in GoMatching[caps[i].target]
                 PROVE  /\ ByLibrary(i) => (Accepts(caps[i], r) <=> GoAccepts(caps[i], r))
                        /\ Accepts(caps[i], r) /\ ~GoAccepts(caps[i], r) =>
                              \E name \in DOMAIN caps[i].limits : caps[i].limits[name] = Null
                        /\ GoAccepts(caps[i], r) /\ ~Accepts(caps[i], r) =>
                              \/ DOMAIN caps[i].limits \ Constraints # {}
                              \/ caps[i].allowed /\ caps[i].depth > caps[i].maxDepth
    BY DEF CapabilityVerifiersAgree
  <2> DEFINE c == caps[i]
  <2>2. /\ c.depth \in 0 .. 3 /\ c.maxDepth \in 0 .. 3 /\ c.tier \in 0 .. 2
        /\ c.from \in Int /\ c.until \in Int /\ instant \in Int
        /\ c.version \in {"0.1", "0.2", "1.0"} /\ Signable(c.limits)
    BY <1>1 DEF DelegationInv, DelegationTypeOK, Wired
  <2>3. ByLibrary(i) => Sound(c)
    BY <1>1 DEF DelegationInv, Links
  <2>4. Null \notin Int
    BY DelegationAssumption
  <2> HIDE DEF c
  <2>5. Sound(c) => FieldsAllowed(c) /\ GoLimitsAllow(c.limits)
    BY <2>2, <2>4 DEF Sound, Takable, FieldsAllowed, GoLimitsAllow, Sets, Constraints
  <2>6. FieldsAllowed(c) => \/ GoLimitsAllow(c.limits)
                            \/ \E name \in DOMAIN c.limits : c.limits[name] = Null
    BY DEF FieldsAllowed, GoLimitsAllow, Sets
  <2>7. GoLimitsAllow(c.limits) => \/ FieldsAllowed(c)
                                   \/ DOMAIN c.limits \ Constraints # {}
                                   \/ c.allowed /\ c.depth > c.maxDepth
    BY <2>2 DEF FieldsAllowed, GoLimitsAllow, Sets
  <2>8. WindowAllows(c) <=> GoWindowAllows(c)
    BY <2>2 DEF WindowAllows, GoWindowAllows
  <2>9. c.version # "0.1" => (GoScopeAllows(c, r) <=> ScopeAllows(c, r) /\ GoLimitsAllow(c.limits))
    BY <2>1, <2>2 DEF ScopeAllows, GoScopeAllows, c
  <2>10. c.version = "0.1" =>
             (ScopeAllows(c, r) <=>
                 /\ c.agent = r.agent /\ c.target = r.target
                 /\ c.actions = {r.action} /\ c.purposes = {r.purpose})
    BY DEF ScopeAllows
  <2>11. c.version # "0.1" <=> Scoped(c.version)
    BY <2>2 DEF Scoped
  <2>12. CASE c.version = "0.1"
    BY <2>8, <2>10, <2>11, <2>12 DEF Accepts, GoAccepts, c
  <2>13. CASE c.version # "0.1"
    <3>1. /\ Accepts(c, r) <=> /\ FieldsAllowed(c) /\ c.issuer \in TrustedIssuers
                               /\ c.request = r.id /\ ScopeAllows(c, r) /\ WindowAllows(c)
          /\ GoAccepts(c, r) <=> /\ GoLimitsAllow(c.limits) /\ c.issuer \in TrustedIssuers
                                 /\ c.request = r.id /\ ScopeAllows(c, r) /\ WindowAllows(c)
      BY <2>8, <2>9, <2>11, <2>13 DEF Accepts, GoAccepts
    <3> QED
      BY <2>3, <2>5, <2>6, <2>7, <3>1 DEF c
  <2> QED
    BY <2>12, <2>13
<1> QED
  BY <1>1, DelegationInvAlways, PTL

-----------------------------------------------------------------------------
(* Decisions and the cache *)

(* The decision names the policy it was made under, and the request. *)
LEMMA AnswerShape ==
    ASSUME NEW rs, NEW ts, NEW request, NEW t, NEW named
    PROVE  LET answer == EvaluateAt(rs, ts, request, t)
               given == [answer EXCEPT !.policy = named] IN
           /\ answer.policy = Snapshot(rs, ts)
           /\ given.policy = named
           /\ named = Snapshot(rs, ts) => given = answer
<1> DEFINE answer == EvaluateAt(rs, ts, request, t)
<1>1. \E allowed, reason, matched, tier :
          answer = Answer(Snapshot(rs, ts), request, allowed, reason, matched, tier)
  BY DEF EvaluateAt
<1> HIDE DEF answer
<1>2. answer.policy = Snapshot(rs, ts) /\ [answer EXCEPT !.policy = named].policy = named
  BY <1>1 DEF Answer
<1>3. named = Snapshot(rs, ts) => [answer EXCEPT !.policy = named] = answer
  BY <1>1 DEF Answer
<1> QED
  BY <1>2, <1>3 DEF answer

LEMMA SnapshotFields ==
    ASSUME NEW rs, NEW ts
    PROVE  Snapshot(rs, ts).rules = rs /\ Snapshot(rs, ts).trusted = ts
  BY DEF Snapshot

(* The clauses of AnswersFollowPolicy about one answer. *)
Follows(key, request, answer, times) ==
    /\ ~mixed => \E t \in times : answer = EvaluateAt(answer.policy.rules,
                                           answer.policy.trusted, request, t)
    /\ ~raced => answer.policy = key.policy

CallFine(c) ==
    /\ call[c].key.request = call[c].request.id
    /\ call[c].stage = "ask" => (call[c].kept <=> call[c].at = Present)
    /\ call[c].stage \in {"decide", "keep"} =>
          call[c].at # Present /\ (call[c].kept => call[c].at <= time)
    /\ ~raced => call[c].key.policy = PolicyDigest
    /\ call[c].stage = "decide" /\ ~mixed => call[c].named = PolicyDigest
    /\ call[c].stage = "keep" =>
          Follows(call[c].key, call[c].request, call[c].answer,
                  IF call[c].kept THEN 0 .. time ELSE {call[c].at})

EntryFine(entry) ==
    \E r \in Requests : r.id = entry.key.request /\ Follows(entry.key, r, entry.answer, 0 .. time)

Entries(entries) ==
    /\ \E S : entries \in Seq(S)
    /\ Len(entries) <= Capacity
    /\ \A i, j \in DOMAIN entries : entries[i].key = entries[j].key => i = j
    /\ \A i \in DOMAIN entries :
          entries[i].key \in Key /\ entries[i].answer.reason # "future_request"

CacheInv ==
    /\ CacheTypeOK /\ Entries(lru)
    /\ \A c \in Callers : call[c] # NoCall => CallFine(c)
    /\ \A i \in DOMAIN lru : EntryFine(lru[i])

(* What a call has while it is under way. *)
LEMMA CallShape ==
    ASSUME CacheTypeOK, NEW c \in Callers, call[c].stage # "none"
    PROVE  /\ call[c] # NoCall
           /\ DOMAIN call[c] = {"stage", "key", "request", "at", "named", "kept", "answer"}
           /\ call[c].stage \in {"hit", "ask", "decide", "keep"}
           /\ call[c].key \in Key /\ call[c].request \in Requests
           /\ call[c].at \in 0 .. EndOfTime \cup {Present} /\ call[c].named \in Policies
           /\ call[c].kept \in BOOLEAN
<1>1. call[c] # NoCall
  BY DEF NoCall
<1>2. [call[c] EXCEPT !.answer = Undecided] \in Call
  BY <1>1 DEF CacheTypeOK
<1> DEFINE r == call[c]
<1> HIDE DEF r
<1>3. [r EXCEPT !.answer = Undecided] \in Call
  BY <1>2 DEF r
<1>4. /\ DOMAIN r = {"stage", "key", "request", "at", "named", "kept", "answer"}
      /\ r.stage \in {"hit", "ask", "decide", "keep"}
      /\ r.key \in Key /\ r.request \in Requests
      /\ r.at \in 0 .. EndOfTime \cup {Present} /\ r.named \in Policies /\ r.kept \in BOOLEAN
  BY <1>3 DEF Call
<1> QED
  BY <1>1, <1>4 DEF r

LEMMA IsCall ==
    ASSUME NEW r, DOMAIN r = {"stage", "key", "request", "at", "named", "kept", "answer"},
           r.stage \in {"hit", "ask", "decide", "keep"}, r.key \in Key, r.request \in Requests,
           r.at \in 0 .. EndOfTime \cup {Present}, r.named \in Policies, r.kept \in BOOLEAN
    PROVE  [r EXCEPT !.answer = Undecided] \in Call
<1> DEFINE q == [r EXCEPT !.answer = Undecided]
<1>1. q = [stage |-> r.stage, key |-> r.key, request |-> r.request, at |-> r.at,
           named |-> r.named, kept |-> r.kept, answer |-> Undecided]
  OBVIOUS
<1> QED
  BY <1>1 DEF Call

(* An entry taken out of the dictionary, if it is there. *)
LEMMA TakenOut ==
    ASSUME NEW S, NEW entries \in Seq(S), NEW key,
           \A i, j \in DOMAIN entries : entries[i].key = entries[j].key => i = j
    PROVE  LET rest == Without(entries, key) IN
           /\ rest \in Seq(S) /\ Len(rest) <= Len(entries)
           /\ Find(entries, key) # {} => Len(rest) < Len(entries)
           /\ \A i \in DOMAIN rest : rest[i].key # key
                                     /\ \E j \in DOMAIN entries : rest[i] = entries[j]
           /\ \A i, j \in DOMAIN rest : rest[i].key = rest[j].key => i = j
<1>1. CASE Find(entries, key) = {}
  BY <1>1 DEF Without, Find
<1>2. CASE Find(entries, key) # {}
  <2> DEFINE i == CHOOSE i \in Find(entries, key) : TRUE
             rest == [j \in 1 .. Len(entries) - 1 |->
                         IF j < i THEN entries[j] ELSE entries[j + 1]]
  <2>1. i \in Find(entries, key) /\ Without(entries, key) = rest
    BY <1>2 DEF Without
  <2>2. i \in 1 .. Len(entries) /\ entries[i].key = key /\ Len(entries) \in Nat
    BY <2>1 DEF Find
  <2> HIDE DEF i
  <2>3. rest \in Seq(S) /\ Len(rest) = Len(entries) - 1
    <3>1. \A j \in 1 .. Len(entries) - 1 :
              (IF j < i THEN entries[j] ELSE entries[j + 1]) \in S
      BY <2>2
    <3>2. rest \in [1 .. Len(entries) - 1 -> S] /\ Len(entries) - 1 \in Nat
      BY <2>2, <3>1
    <3> QED
      BY <3>2
  <2> DEFINE from(j) == IF j < i THEN j ELSE j + 1
  <2>4. \A j \in DOMAIN rest : /\ from(j) \in DOMAIN entries /\ from(j) # i
                               /\ rest[j] = entries[from(j)] /\ j \in Int
    BY <2>2
  <2>5. \A j, k \in Int : from(j) = from(k) => j = k
    BY <2>2
  <2> HIDE DEF rest, from
  <2>6. \A j \in DOMAIN rest : rest[j].key # key
    BY <2>2, <2>4
  <2>7. \A j, k \in DOMAIN rest : rest[j].key = rest[k].key => j = k
    BY <2>4, <2>5
  <2> QED
    BY <2>1, <2>2, <2>3, <2>4, <2>6, <2>7
<1> QED
  BY <1>1, <1>2

(* An entry put at the end in place of the one with its key, and the       *)
(* oldest dropped if there are too many.                                   *)
LEMMA PutLast ==
    ASSUME NEW entries, Entries(entries), NEW entry, entry.key \in Key,
           entry.answer.reason # "future_request"
    PROVE  LET longer == Append(Without(entries, entry.key), entry)
               put == IF Len(longer) > Capacity THEN Tail(longer) ELSE longer IN
           /\ Entries(put)
           /\ \A i \in DOMAIN put : put[i] = entry \/ \E j \in DOMAIN entries : put[i] = entries[j]
           /\ Find(entries, entry.key) # {} => put = longer
<1>1. PICK R : entries \in Seq(R)
  BY DEF Entries
<1> DEFINE S == R \cup {entry}
<1>2. entries \in Seq(S) /\ entry \in S
  BY <1>1
<1> HIDE DEF S
<1> DEFINE rest == Without(entries, entry.key)
           longer == Append(rest, entry)
           put == IF Len(longer) > Capacity THEN Tail(longer) ELSE longer
<1>3. /\ rest \in Seq(S) /\ Len(rest) <= Len(entries) /\ Len(entries) <= Capacity
      /\ Find(entries, entry.key) # {} => Len(rest) < Len(entries)
      /\ \A i \in DOMAIN rest : rest[i].key # entry.key
                                /\ \E j \in DOMAIN entries : rest[i] = entries[j]
      /\ \A i, j \in DOMAIN rest : rest[i].key = rest[j].key => i = j
  BY <1>2, TakenOut DEF Entries
<1>4. Len(rest) \in Nat /\ Len(entries) \in Nat /\ Capacity \in Nat \ {0}
  BY <1>2, <1>3, CacheAssumption
<1> HIDE DEF rest
<1>5. /\ longer \in Seq(S) /\ Len(longer) = Len(rest) + 1
      /\ \A i \in DOMAIN longer :
            \/ i = Len(longer) /\ longer[i] = entry
            \/ i \in DOMAIN rest /\ longer[i] = rest[i]
  <2>1. rest \in Seq(S)
    BY <1>3
  <2>2. longer \in Seq(S) /\ Len(longer) = Len(rest) + 1
    BY <1>2, <2>1
  <2>3. \A i \in 1 .. Len(rest) + 1 :
           \/ i = Len(rest) + 1 /\ longer[i] = entry
           \/ i \in 1 .. Len(rest) /\ longer[i] = rest[i]
    <3>1. ASSUME NEW i \in 1 .. Len(rest) + 1
          PROVE  longer[i] = IF i <= Len(rest) THEN rest[i] ELSE entry
      BY <1>2, <1>4, <2>1
    <3> HIDE DEF longer
    <3> QED
      BY <1>4, <3>1
  <2>4. DOMAIN longer = 1 .. Len(rest) + 1 /\ DOMAIN rest = 1 .. Len(rest)
    BY <2>1, <2>2
  <2> QED
    BY <2>2, <2>3, <2>4
<1> HIDE DEF longer
<1>6. /\ \A i, j \in DOMAIN longer : longer[i].key = longer[j].key => i = j
      /\ \A i \in DOMAIN longer :
            /\ longer[i].key \in Key /\ longer[i].answer.reason # "future_request"
            /\ longer[i] = entry \/ \E j \in DOMAIN entries : longer[i] = entries[j]
  BY <1>3, <1>5 DEF Entries
<1>7. CASE Len(longer) > Capacity
  <2>1. /\ Tail(longer) \in Seq(S) /\ Len(Tail(longer)) = Len(longer) - 1
        /\ \A i \in DOMAIN Tail(longer) : i + 1 \in DOMAIN longer /\ i \in Int
                                          /\ Tail(longer)[i] = longer[i + 1]
    BY <1>4, <1>5, <1>7
  <2>2. put = Tail(longer)
    BY <1>7
  <2>3. Len(Tail(longer)) <= Capacity
    BY <1>3, <1>4, <1>5, <2>1
  <2>4. \A i, j \in DOMAIN Tail(longer) : Tail(longer)[i].key = Tail(longer)[j].key => i = j
    <3>1. SUFFICES ASSUME NEW i \in DOMAIN Tail(longer), NEW j \in DOMAIN Tail(longer),
                          Tail(longer)[i].key = Tail(longer)[j].key
                   PROVE  i = j
      OBVIOUS
    <3>2. i + 1 = j + 1
      BY <1>6, <2>1, <3>1
    <3> QED
      BY <2>1, <3>2
  <2>5. \A i \in DOMAIN Tail(longer) :
            /\ Tail(longer)[i].key \in Key /\ Tail(longer)[i].answer.reason # "future_request"
            /\ Tail(longer)[i] = entry \/ \E j \in DOMAIN entries : Tail(longer)[i] = entries[j]
    BY <1>6, <2>1
  <2>6. Entries(Tail(longer))
    BY <2>1, <2>3, <2>4, <2>5 DEF Entries
  <2>7. Find(entries, entry.key) = {}
    BY <1>3, <1>4, <1>5, <1>7
  <2> HIDE DEF put
  <2> QED
    BY <2>2, <2>5, <2>6, <2>7 DEF longer, rest, put
<1>8. CASE ~(Len(longer) > Capacity)
  <2>1. put = longer /\ Len(longer) <= Capacity
    BY <1>4, <1>5, <1>8
  <2>2. Entries(longer)
    BY <1>5, <1>6, <2>1 DEF Entries
  <2> QED
    BY <1>6, <2>1, <2>2 DEF longer, rest
<1>9. Find(entries, entry.key) # {} => put = longer
  BY <1>3, <1>4, <1>5
<1> QED
  BY <1>7, <1>8, <1>9 DEF longer, rest

(* Later, and after changes of the policy that were seen, an answer that   *)
(* followed the policy still does.                                         *)
LEMMA FollowsLater ==
    ASSUME NEW key, NEW request, NEW answer, NEW times, NEW later,
           Follows(key, request, answer, times), times \subseteq later,
           mixed => mixed', raced => raced'
    PROVE  Follows(key, request, answer, later)'
  BY DEF Follows

LEMMA EntryLater ==
    ASSUME NEW entry, EntryFine(entry), time \in Int, time' \in Int, time <= time',
           mixed => mixed', raced => raced'
    PROVE  EntryFine(entry)'
<1>1. PICK r \in Requests : r.id = entry.key.request /\ Follows(entry.key, r, entry.answer, 0 .. time)
  BY DEF EntryFine
<1> DEFINE later == 0 .. time'
<1>2. 0 .. time \subseteq later
  OBVIOUS
<1> HIDE DEF later
<1>3. /\ ~mixed' => \E t \in later : entry.answer = EvaluateAt(entry.answer.policy.rules,
                                      entry.answer.policy.trusted, r, t)
      /\ ~raced' => entry.answer.policy = entry.key.policy
  BY <1>1, <1>2 DEF Follows
<1> QED
  BY <1>1, <1>3 DEF EntryFine, Follows, later

LEMMA EntriesLater ==
    ASSUME \A i \in DOMAIN lru : EntryFine(lru[i]), time \in Int, time' \in Int, time <= time',
           mixed => mixed', raced => raced',
           NEW new, EntryFine(new)',
           \A i \in DOMAIN lru' : lru'[i] = new \/ \E j \in DOMAIN lru : lru'[i] = lru[j]
    PROVE  (\A i \in DOMAIN lru : EntryFine(lru[i]))'
<1> SUFFICES ASSUME NEW i \in DOMAIN lru' PROVE EntryFine(lru[i])'
  OBVIOUS
<1>1. CASE lru'[i] = new
  BY <1>1 DEF EntryFine, Follows
<1>2. ASSUME NEW j \in DOMAIN lru, lru'[i] = lru[j] PROVE EntryFine(lru[i])'
  <2> DEFINE e == lru[j]
  <2>1. EntryFine(e) /\ lru'[i] = e
    BY <1>2
  <2> HIDE DEF e
  <2>2. EntryFine(lru'[i])
    BY <2>1
  <2>3. PICK entry : entry = lru'[i] /\ EntryFine(entry)
    BY <2>2
  <2>4. EntryFine(entry)'
    BY <2>3, EntryLater
  <2> QED
    BY <2>3, <2>4 DEF EntryFine, Follows
<1> QED
  BY <1>1, <1>2

(* The same of a call that another step leaves alone. *)
LEMMA CallLater ==
    ASSUME CacheTypeOK, NEW c \in Callers, call[c] # NoCall, CallFine(c), call'[c] = call[c],
           time \in Int, time' \in Int, time <= time',
           mixed => mixed', raced => raced',
           raced' \/ PolicyDigest' = PolicyDigest,
           call[c].stage = "decide" => mixed' \/ PolicyDigest' = PolicyDigest
    PROVE  CallFine(c)'
<1>0. call[c].stage # "none"
  <2>1. [call[c] EXCEPT !.answer = Undecided] \in Call
    BY DEF CacheTypeOK
  <2> DEFINE r == call[c]
  <2> HIDE DEF r
  <2>2. [r EXCEPT !.answer = Undecided].stage # "none" /\ "stage" \in DOMAIN r
    BY <2>1 DEF Call, r
  <2> QED
    BY <2>2 DEF r
<1>1. /\ call[c].at \in Int /\ call[c].kept \in BOOLEAN
  BY <1>0, CallShape, CacheAssumption DEF Present
<1> DEFINE times == IF call[c].kept THEN 0 .. time ELSE {call[c].at}
           later == IF call[c].kept THEN 0 .. time' ELSE {call[c].at}
<1>2. times \subseteq later
  OBVIOUS
<1>3. call[c].stage = "keep" => Follows(call[c].key, call[c].request, call[c].answer, times)
  BY DEF CallFine
<1> HIDE DEF times, later
<1>4. call[c].stage = "keep" =>
          /\ ~mixed' => \E t \in later : call[c].answer = EvaluateAt(call[c].answer.policy.rules,
                                           call[c].answer.policy.trusted, call[c].request, t)
          /\ ~raced' => call[c].answer.policy = call[c].key.policy
  BY <1>2, <1>3 DEF Follows
<1>5. (call[c].stage = "keep" =>
          Follows(call[c].key, call[c].request, call[c].answer,
                  IF call[c].kept THEN 0 .. time ELSE {call[c].at}))'
  BY <1>4 DEF Follows, later
<1>6. call[c].stage \in {"decide", "keep"} =>
          call[c].at # Present /\ (call[c].kept => call[c].at <= time')
  BY <1>1 DEF CallFine
<1> QED
  BY <1>5, <1>6 DEF CallFine

-----------------------------------------------------------------------------

LEMMA CacheInvInit == CacheInit => CacheInv
<1> SUFFICES ASSUME CacheInit PROVE CacheInv
  OBVIOUS
<1>1. /\ rules \subseteq RulePool /\ trusted \in TrustChoices /\ time = 0 /\ lru = <<>>
      /\ seen = Snapshot(rules, trusted) /\ changes = 0 /\ raced = FALSE /\ mixed = FALSE
      /\ call = [c \in Callers |-> NoCall]
  BY CacheAssumption DEF CacheInit
<1>2. seen \in Policies
  BY <1>1 DEF Snapshot, Policies
<1>3. Len(lru) = 0 /\ DOMAIN lru = {} /\ lru \in Seq({})
  BY <1>1
<1>4. Entries(lru)
  BY <1>3, CacheAssumption DEF Entries
<1>5. DOMAIN call = Callers /\ \A c \in Callers : call[c] = NoCall
  BY <1>1
<1>6. raced \in BOOLEAN /\ mixed \in BOOLEAN /\ (mixed => raced)
  BY <1>1
<1>7. time \in 0 .. EndOfTime /\ changes \in 0 .. MaxChanges
  BY <1>1, CacheAssumption
<1>8. CacheTypeOK
  BY <1>1, <1>2, <1>3, <1>4, <1>5, <1>6, <1>7 DEF CacheTypeOK, Entries
<1> QED
  BY <1>3, <1>4, <1>5, <1>8 DEF CacheInv

(* What the steps have in common. *)
LEMMA CacheFacts ==
    ASSUME CacheInv
    PROVE  /\ CacheTypeOK /\ Entries(lru) /\ time \in 0 .. EndOfTime /\ EndOfTime \in Nat
           /\ PolicyDigest \in Policies /\ PolicyDigest = Snapshot(rules, trusted)
           /\ \A c \in Callers : call[c] # NoCall => CallFine(c)
           /\ \A i \in DOMAIN lru : EntryFine(lru[i])
  BY CacheAssumption DEF CacheInv, CacheTypeOK, PolicyDigest, Snapshot, Policies

LEMMA NoneIsNoCall ==
    ASSUME CacheTypeOK, NEW c \in Callers, call[c] # NoCall
    PROVE  call[c].stage # "none"
<1> DEFINE r == call[c]
<1>1. [r EXCEPT !.answer = Undecided] \in Call
  BY DEF CacheTypeOK
<1> HIDE DEF r
<1>2. [r EXCEPT !.answer = Undecided].stage # "none" /\ "stage" \in DOMAIN r
  BY <1>1 DEF Call
<1>3. r.stage # "none"
  BY <1>2
<1> QED
  BY <1>3 DEF r

(* Changes of the policy, of the clock and of the cache as a whole. *)
LEMMA AsideKeeps ==
    ASSUME CacheInv, call' = call, seen' \in Policies,
           rules' \subseteq RulePool, trusted' \in TrustChoices, changes' \in 0 .. MaxChanges,
           time' \in 0 .. EndOfTime, time <= time',
           lru' = lru \/ lru' = <<>>,
           \/ UNCHANGED <<rules, trusted, raced, mixed>>
           \/ /\ raced' = (raced \/ \E c \in Callers : call[c] # NoCall)
              /\ mixed' = (mixed \/ \E c \in Callers : call[c].stage = "decide")
    PROVE  CacheInv'
<1>0. /\ CacheTypeOK /\ Entries(lru) /\ time \in 0 .. EndOfTime /\ EndOfTime \in Nat
      /\ \A c \in Callers : call[c] # NoCall => CallFine(c)
      /\ \A i \in DOMAIN lru : EntryFine(lru[i])
  BY CacheFacts
<1>1. /\ raced' \in BOOLEAN /\ mixed' \in BOOLEAN
      /\ (mixed => mixed') /\ (raced => raced') /\ (mixed' => raced')
  <2>1. /\ raced \in BOOLEAN /\ mixed \in BOOLEAN /\ (mixed => raced)
    BY <1>0 DEF CacheTypeOK
  <2>2. (\E c \in Callers : call[c].stage = "decide") => \E c \in Callers : call[c] # NoCall
    BY DEF NoCall
  <2>3. CASE UNCHANGED <<rules, trusted, raced, mixed>>
    <3>1. raced' = raced /\ mixed' = mixed
      BY <2>3
    <3> QED
      BY <2>1, <3>1
  <2>4. CASE /\ raced' = (raced \/ \E c \in Callers : call[c] # NoCall)
             /\ mixed' = (mixed \/ \E c \in Callers : call[c].stage = "decide")
    BY <2>1, <2>2, <2>4, Zenon
  <2> QED
    BY <2>3, <2>4
<1>2. Entries(lru')
  <2>1. CASE lru' = <<>>
    <3>1. Len(lru') = 0 /\ DOMAIN lru' = {} /\ lru' \in Seq({})
      BY <2>1
    <3> QED
      BY <3>1, CacheAssumption DEF Entries
  <2> QED
    BY <1>0, <2>1
<1>3. CacheTypeOK'
  <2>1. /\ DOMAIN call' = Callers
        /\ \A c \in Callers : call'[c] = NoCall \/ [call'[c] EXCEPT !.answer = Undecided] \in Call
    BY <1>0 DEF CacheTypeOK
  <2>2. /\ Len(lru') <= Capacity
        /\ \A i, j \in DOMAIN lru' : lru'[i].key = lru'[j].key => i = j
        /\ \A i \in DOMAIN lru' : lru'[i].key \in Key /\ lru'[i].answer.reason # "future_request"
    BY <1>2 DEF Entries
  <2>3. /\ rules' \subseteq RulePool /\ trusted' \in TrustChoices /\ time' \in 0 .. EndOfTime
        /\ seen' \in Policies /\ changes' \in 0 .. MaxChanges
    OBVIOUS
  <2> QED
    BY <1>1, <2>1, <2>2, <2>3 DEF CacheTypeOK
<1>4. ASSUME NEW c \in Callers, call[c] # NoCall PROVE CallFine(c)'
  <2>1. raced' \/ PolicyDigest' = PolicyDigest
    BY <1>4 DEF PolicyDigest
  <2>2. call[c].stage = "decide" => mixed' \/ PolicyDigest' = PolicyDigest
    BY DEF PolicyDigest
  <2>3. time \in Int /\ time' \in Int
    BY <1>0
  <2> QED
    BY <1>0, <1>1, <1>4, <2>1, <2>2, <2>3, CallLater
<1>5. (\A i \in DOMAIN lru : EntryFine(lru[i]))'
  <2>1. time \in Int /\ time' \in Int
    BY <1>0
  <2>2. CASE lru' = <<>>
    BY <2>2
  <2>3. CASE lru' = lru
    <3>1. CASE DOMAIN lru = {}
      BY <2>3, <3>1
    <3>2. CASE DOMAIN lru # {}
      <4>1. PICK new : EntryFine(new)
        BY <1>0, <3>2
      <4>2. EntryFine(new)'
        BY <1>1, <2>1, <4>1, EntryLater
      <4> QED
        BY <1>0, <1>1, <2>1, <2>3, <4>2, EntriesLater
    <3> QED
      BY <3>1, <3>2
  <2> QED
    BY <2>2, <2>3
<1> QED
  BY <1>2, <1>3, <1>4, <1>5 DEF CacheInv

(* A step of one thread. *)
LEMMA ThreadKeeps ==
    ASSUME CacheInv, NEW c \in Callers, NEW new, call' = [call EXCEPT ![c] = new],
           seen' \in Policies, UNCHANGED <<rules, trusted, time, changes, raced, mixed>>,
           new = NoCall \/ ([new EXCEPT !.answer = Undecided] \in Call /\ CallFine(c)'),
           Entries(lru'), \A i \in DOMAIN lru' : EntryFine(lru'[i])
    PROVE  CacheInv'
<1>0. /\ CacheTypeOK /\ Entries(lru) /\ time \in 0 .. EndOfTime /\ EndOfTime \in Nat
      /\ \A d \in Callers : call[d] # NoCall => CallFine(d)
  BY CacheFacts
<1>1. /\ DOMAIN call = Callers /\ rules \subseteq RulePool /\ trusted \in TrustChoices
      /\ changes \in 0 .. MaxChanges /\ raced \in BOOLEAN /\ mixed \in BOOLEAN
      /\ (mixed => raced)
      /\ \A d \in Callers : call[d] = NoCall \/ [call[d] EXCEPT !.answer = Undecided] \in Call
  BY <1>0 DEF CacheTypeOK
<1>2. /\ DOMAIN call' = Callers /\ call'[c] = new
      /\ \A d \in Callers : d # c => call'[d] = call[d]
  BY <1>1
<1>3. \A d \in Callers : call'[d] = NoCall \/ [call'[d] EXCEPT !.answer = Undecided] \in Call
  BY <1>1, <1>2
<1>4. raced' = raced /\ mixed' = mixed
  OBVIOUS
<1>5. raced' \in BOOLEAN /\ mixed' \in BOOLEAN /\ (mixed' => raced')
  BY <1>1, <1>4
<1>6. /\ Len(lru') <= Capacity
      /\ \A i, j \in DOMAIN lru' : lru'[i].key = lru'[j].key => i = j
      /\ \A i \in DOMAIN lru' : lru'[i].key \in Key /\ lru'[i].answer.reason # "future_request"
  BY DEF Entries
<1>7. /\ rules' \subseteq RulePool /\ trusted' \in TrustChoices /\ time' \in 0 .. EndOfTime
      /\ changes' \in 0 .. MaxChanges
  BY <1>0, <1>1
<1>8. CacheTypeOK'
  BY <1>2, <1>3, <1>5, <1>6, <1>7 DEF CacheTypeOK
<1>9. ASSUME NEW d \in Callers, call'[d] # NoCall PROVE CallFine(d)'
  <2>1. CASE d = c
    BY <1>2, <1>9, <2>1
  <2>2. CASE d # c
    <3>1. call'[d] = call[d] /\ call[d] # NoCall /\ CallFine(d)
      BY <1>0, <1>2, <1>9, <2>2
    <3>2. PolicyDigest' = PolicyDigest /\ time \in Int /\ time' \in Int /\ time <= time'
      BY <1>0 DEF PolicyDigest
    <3>3. (mixed => mixed') /\ (raced => raced')
      BY <1>4
    <3> QED
      BY <1>0, <3>1, <3>2, <3>3, CallLater
  <2> QED
    BY <2>1, <2>2
<1>10. (\A i \in DOMAIN lru : EntryFine(lru[i]))'
  <2>1. ASSUME NEW i \in DOMAIN lru' PROVE EntryFine(lru[i])'
    <3>1. PICK entry : entry = lru'[i] /\ EntryFine(entry)
      OBVIOUS
    <3>2. time \in Int /\ time' \in Int /\ time <= time'
      BY <1>0
    <3>3. (mixed => mixed') /\ (raced => raced')
      BY <1>4
    <3>4. EntryFine(entry)'
      BY <3>1, <3>2, <3>3, EntryLater
    <3> QED
      BY <3>1, <3>4 DEF EntryFine, Follows
  <2> QED
    BY <2>1
<1> QED
  BY <1>8, <1>9, <1>10 DEF CacheInv

LEMMA BeginCallKeeps == ASSUME CacheInv, NEW c \in Callers, BeginCall(c) PROVE CacheInv'
<1>0. /\ CacheTypeOK /\ Entries(lru) /\ time \in 0 .. EndOfTime /\ EndOfTime \in Nat
      /\ PolicyDigest \in Policies
      /\ \A i \in DOMAIN lru : EntryFine(lru[i])
  BY CacheFacts
<1> DEFINE kept == IF PolicyDigest = seen THEN lru ELSE <<>>
           new(r, at) ==
               [stage |-> IF at = Present /\ Find(kept, [policy |-> PolicyDigest, request |-> r.id]) # {}
                          THEN "hit" ELSE "ask",
                key |-> [policy |-> PolicyDigest, request |-> r.id],
                request |-> r, at |-> at, named |-> PolicyDigest,
                kept |-> at = Present, answer |-> Undecided]
<1>1. PICK r \in Requests, at \in {Present} \cup 0 .. EndOfTime :
          call' = [call EXCEPT ![c] = new(r, at)]
  BY DEF BeginCall
<1>2. lru' = kept /\ seen' = PolicyDigest /\ UNCHANGED <<rules, trusted, time, changes, raced, mixed>>
  BY DEF BeginCall
<1>3. Entries(kept) /\ \A i \in DOMAIN kept : EntryFine(kept[i])
  <2>1. CASE kept = lru
    BY <1>0, <2>1
  <2>2. CASE kept = <<>>
    <3>1. Len(<<>>) = 0 /\ DOMAIN <<>> = {} /\ <<>> \in Seq({})
      OBVIOUS
    <3> HIDE DEF kept
    <3> QED
      BY <2>2, <3>1, CacheAssumption DEF Entries
  <2> QED
    BY <2>1, <2>2
<1> DEFINE n == new(r, at)
<1>4. /\ n.stage \in {"hit", "ask"} /\ n.key = [policy |-> PolicyDigest, request |-> r.id]
      /\ n.request = r /\ n.at = at /\ n.named = PolicyDigest /\ n.kept = (at = Present)
      /\ DOMAIN n = {"stage", "key", "request", "at", "named", "kept", "answer"}
      /\ (n.stage = "hit" => at = Present)
  OBVIOUS
<1> HIDE DEF n, kept
<1>5. n.key \in Key /\ n.key.policy = PolicyDigest /\ n.key.request = n.request.id
  BY <1>0, <1>4 DEF Key
<1>6. [n EXCEPT !.answer = Undecided] \in Call
  <2>1. n.kept \in BOOLEAN
    BY <1>4
  <2> QED
    BY <1>0, <1>1, <1>4, <1>5, <2>1, IsCall
<1>7. call' = [call EXCEPT ![c] = n]
  BY <1>1 DEF n
<1>8. call'[c] = n
  BY <1>0, <1>7 DEF CacheTypeOK
<1>9. CallFine(c)'
  <2>1. PolicyDigest' = PolicyDigest
    BY <1>2 DEF PolicyDigest
  <2>2. n.kept <=> n.at = Present
    BY <1>4
  <2>3. n.stage # "decide" /\ n.stage # "keep"
    BY <1>4
  <2> QED
    BY <1>5, <1>8, <2>1, <2>2, <2>3 DEF CallFine
<1> QED
  BY <1>0, <1>2, <1>3, <1>6, <1>7, <1>9, ThreadKeeps

LEMMA ServeHitKeeps == ASSUME CacheInv, NEW c \in Callers, ServeHit(c) PROVE CacheInv'
<1>0. /\ CacheTypeOK /\ Entries(lru) /\ \A i \in DOMAIN lru : EntryFine(lru[i])
  BY CacheFacts
<1> DEFINE key == call[c].key
<1>1. /\ call' = [call EXCEPT ![c] = NoCall] /\ call[c].stage = "hit"
      /\ UNCHANGED <<rules, trusted, time, seen, changes, raced, mixed>>
      /\ \/ \E i \in Find(lru, key) : lru' = Append(Without(lru, key), lru[i])
         \/ lru' = lru
  BY DEF ServeHit
<1>2. seen' \in Policies
  BY <1>0, <1>1 DEF CacheTypeOK
<1> HIDE DEF key
<1>3. CASE lru' = lru
  BY <1>0, <1>1, <1>2, <1>3, ThreadKeeps
<1>4. ASSUME NEW i \in Find(lru, key), lru' = Append(Without(lru, key), lru[i])
      PROVE  CacheInv'
  <2> DEFINE entry == lru[i]
  <2>1. i \in DOMAIN lru /\ entry.key = key /\ Find(lru, entry.key) # {}
    BY DEF Find
  <2>2. entry.key \in Key /\ entry.answer.reason # "future_request"
    BY <1>0, <2>1 DEF Entries
  <2>3. EntryFine(entry)
    BY <1>0, <2>1
  <2>4. lru' = Append(Without(lru, entry.key), entry)
    BY <1>4, <2>1
  <2>5. \E j \in DOMAIN lru : entry = lru[j]
    BY <2>1
  <2> DEFINE longer == Append(Without(lru, entry.key), entry)
             put == IF Len(longer) > Capacity THEN Tail(longer) ELSE longer
  <2> HIDE DEF entry
  <2>6. /\ Entries(lru')
        /\ \A j \in DOMAIN lru' : lru'[j] = entry \/ \E k \in DOMAIN lru : lru'[j] = lru[k]
    <3>1. /\ Entries(put)
          /\ \A j \in DOMAIN put : put[j] = entry \/ \E k \in DOMAIN lru : put[j] = lru[k]
      BY <1>0, <2>2, PutLast
    <3>2. put = longer
      BY <1>0, <2>1, <2>2, PutLast
    <3>3. lru' = put
      BY <2>4, <3>2
    <3> HIDE DEF put
    <3> QED
      BY <3>1, <3>3
  <2>7. \A j \in DOMAIN lru' : EntryFine(lru'[j])
    BY <1>0, <2>3, <2>6
  <2> QED
    BY <1>1, <1>2, <2>6, <2>7, ThreadKeeps
<1> QED
  BY <1>1, <1>3, <1>4

LEMMA AskEngineKeeps == ASSUME CacheInv, NEW c \in Callers, AskEngine(c) PROVE CacheInv'
<1>0. /\ CacheTypeOK /\ Entries(lru) /\ time \in 0 .. EndOfTime /\ EndOfTime \in Nat
      /\ PolicyDigest \in Policies
      /\ \A i \in DOMAIN lru : EntryFine(lru[i])
      /\ \A d \in Callers : call[d] # NoCall => CallFine(d)
  BY CacheFacts
<1> DEFINE r == call[c]
           n == [r EXCEPT !.stage = "decide", !.named = PolicyDigest,
                          !.at = IF r.at = Present THEN time ELSE r.at]
<1>1. /\ r.stage = "ask" /\ lru' = lru
      /\ UNCHANGED <<rules, trusted, time, seen, changes, raced, mixed>>
      /\ call' = [call EXCEPT ![c] = n]
  <2>1. call' = [call EXCEPT ![c].stage = "decide", ![c].named = PolicyDigest,
                             ![c].at = IF @ = Present THEN time ELSE @]
    BY DEF AskEngine
  <2>2. DOMAIN call = Callers
    BY <1>0 DEF CacheTypeOK
  <2>3. call' = [call EXCEPT ![c] = n]
    BY <2>1, <2>2
  <2> QED
    BY <2>3 DEF AskEngine
<1>2. /\ DOMAIN r = {"stage", "key", "request", "at", "named", "kept", "answer"}
      /\ r.key \in Key /\ r.request \in Requests
      /\ r.at \in 0 .. EndOfTime \cup {Present} /\ r.kept \in BOOLEAN
      /\ CallFine(c) /\ seen' \in Policies
  BY <1>0, <1>1, CallShape DEF CacheTypeOK
<1>3. /\ r.key.request = r.request.id /\ (r.kept <=> r.at = Present)
      /\ (~raced => r.key.policy = PolicyDigest)
  BY <1>1, <1>2 DEF CallFine
<1> HIDE DEF r
<1>4. /\ DOMAIN n = {"stage", "key", "request", "at", "named", "kept", "answer"}
      /\ n.stage = "decide" /\ n.key = r.key /\ n.request = r.request
      /\ n.at = (IF r.at = Present THEN time ELSE r.at)
      /\ n.named = PolicyDigest /\ n.kept = r.kept
  BY <1>2
<1> HIDE DEF n
<1>5. /\ n.at \in 0 .. EndOfTime /\ n.at # Present /\ (n.kept => n.at <= time)
  BY <1>0, <1>2, <1>3, <1>4 DEF Present
<1>6. [n EXCEPT !.answer = Undecided] \in Call
  BY <1>0, <1>2, <1>4, <1>5, IsCall
<1>7. call'[c] = n
  BY <1>0, <1>1 DEF CacheTypeOK
<1>8. CallFine(c)'
  <2>1. PolicyDigest' = PolicyDigest /\ raced' = raced /\ mixed' = mixed /\ time' = time
    BY <1>1 DEF PolicyDigest
  <2> QED
    BY <1>3, <1>4, <1>5, <1>7, <2>1 DEF CallFine
<1> QED
  BY <1>0, <1>1, <1>2, <1>6, <1>8, ThreadKeeps

LEMMA DecideKeeps == ASSUME CacheInv, NEW c \in Callers, Decide(c) PROVE CacheInv'
<1>0. /\ CacheTypeOK /\ Entries(lru) /\ time \in 0 .. EndOfTime /\ EndOfTime \in Nat
      /\ PolicyDigest \in Policies /\ PolicyDigest = Snapshot(rules, trusted)
      /\ \A i \in DOMAIN lru : EntryFine(lru[i])
      /\ \A d \in Callers : call[d] # NoCall => CallFine(d)
  BY CacheFacts
<1> DEFINE r == call[c]
           answer == EvaluateAt(rules, trusted, r.request, r.at)
           given == [answer EXCEPT !.policy = r.named]
           n == [r EXCEPT !.stage = "keep", !.answer = given]
<1>1. /\ r.stage = "decide" /\ lru' = lru
      /\ UNCHANGED <<rules, trusted, time, seen, changes, raced, mixed>>
      /\ call' = [call EXCEPT ![c] = n]
  <2>1. call' = [call EXCEPT ![c].stage = "keep", ![c].answer = given]
    BY DEF Decide
  <2>2. DOMAIN call = Callers
    BY <1>0 DEF CacheTypeOK
  <2> HIDE DEF given
  <2>3. call' = [call EXCEPT ![c] = n]
    BY <2>1, <2>2
  <2> QED
    BY <2>3 DEF Decide
<1>2. /\ DOMAIN r = {"stage", "key", "request", "at", "named", "kept", "answer"}
      /\ r.key \in Key /\ r.request \in Requests /\ r.named \in Policies
      /\ r.at \in 0 .. EndOfTime \cup {Present} /\ r.kept \in BOOLEAN
      /\ CallFine(c) /\ seen' \in Policies
  BY <1>0, <1>1, CallShape DEF CacheTypeOK
<1>3. /\ r.key.request = r.request.id /\ r.at # Present /\ (r.kept => r.at <= time)
      /\ (~raced => r.key.policy = PolicyDigest)
      /\ (~mixed => r.named = PolicyDigest)
  BY <1>1, <1>2 DEF CallFine
<1>4. r.at \in 0 .. EndOfTime
  BY <1>2, <1>3
<1> HIDE DEF r
<1>5. given.policy = r.named /\ (~mixed => given = answer)
  BY <1>0, <1>3, AnswerShape
<1>6. ~mixed => given = EvaluateAt(given.policy.rules, given.policy.trusted, r.request, r.at)
  <2>1. PolicyDigest.rules = rules /\ PolicyDigest.trusted = trusted
    BY <1>0, SnapshotFields
  <2> HIDE DEF given
  <2> QED
    BY <1>3, <1>5, <2>1
<1> HIDE DEF answer, given
<1>7. /\ DOMAIN n = {"stage", "key", "request", "at", "named", "kept", "answer"}
      /\ n.stage = "keep" /\ n.key = r.key /\ n.request = r.request /\ n.at = r.at
      /\ n.named = r.named /\ n.kept = r.kept /\ n.answer = given
  BY <1>2
<1> HIDE DEF n
<1>8. [n EXCEPT !.answer = Undecided] \in Call
  BY <1>2, <1>4, <1>7, IsCall
<1>9. call'[c] = n
  BY <1>0, <1>1 DEF CacheTypeOK
<1>10. CallFine(c)'
  <2>1. /\ PolicyDigest' = PolicyDigest /\ time' = time
        /\ (~raced' => ~raced /\ ~mixed) /\ (~mixed' => ~mixed)
    BY <1>0, <1>1 DEF PolicyDigest, CacheTypeOK
  <2> DEFINE times == IF n.kept THEN 0 .. time ELSE {n.at}
  <2>2. n.at \in times
    BY <1>0, <1>3, <1>4, <1>7
  <2> HIDE DEF times
  <2>3. /\ ~mixed' => \E t \in times : n.answer = EvaluateAt(n.answer.policy.rules,
                                          n.answer.policy.trusted, n.request, t)
        /\ ~raced' => n.answer.policy = n.key.policy
    BY <1>3, <1>5, <1>6, <1>7, <2>1, <2>2
  <2>4. (Follows(call[c].key, call[c].request, call[c].answer,
                 IF call[c].kept THEN 0 .. time ELSE {call[c].at}))'
    BY <1>9, <2>1, <2>3 DEF Follows, times
  <2> QED
    BY <1>3, <1>7, <1>9, <2>1, <2>4 DEF CallFine
<1> QED
  BY <1>0, <1>1, <1>2, <1>8, <1>10, ThreadKeeps

LEMMA KeepAnswerKeeps == ASSUME CacheInv, NEW c \in Callers, KeepAnswer(c) PROVE CacheInv'
<1>0. /\ CacheTypeOK /\ Entries(lru) /\ time \in 0 .. EndOfTime
      /\ \A i \in DOMAIN lru : EntryFine(lru[i])
      /\ \A d \in Callers : call[d] # NoCall => CallFine(d)
  BY CacheFacts
<1> DEFINE entry == [key |-> call[c].key, answer |-> call[c].answer]
           longer == Append(Without(lru, entry.key), entry)
           put == IF Len(longer) > Capacity THEN Tail(longer) ELSE longer
<1>1. /\ call[c].stage = "keep" /\ call' = [call EXCEPT ![c] = NoCall]
      /\ UNCHANGED <<rules, trusted, time, seen, changes, raced, mixed>>
      /\ lru' = IF ~call[c].kept \/ call[c].answer.reason = "future_request" THEN lru ELSE put
  BY DEF KeepAnswer
<1>2. seen' \in Policies
  BY <1>0, <1>1 DEF CacheTypeOK
<1>3. CASE lru' = lru
  BY <1>0, <1>1, <1>2, <1>3, ThreadKeeps
<1>4. CASE call[c].kept /\ call[c].answer.reason # "future_request"
  <2>1. /\ call[c] # NoCall /\ call[c].key \in Key /\ call[c].request \in Requests
        /\ CallFine(c)
    BY <1>0, <1>1, CallShape
  <2>2. /\ call[c].key.request = call[c].request.id
        /\ Follows(call[c].key, call[c].request, call[c].answer,
                   IF call[c].kept THEN 0 .. time ELSE {call[c].at})
    BY <1>1, <2>1 DEF CallFine
  <2>3. entry.key = call[c].key /\ entry.answer = call[c].answer
    OBVIOUS
  <2>4. lru' = put
    BY <1>1, <1>4
  <2> HIDE DEF entry
  <2>5. EntryFine(entry) /\ entry.key \in Key /\ entry.answer.reason # "future_request"
    BY <1>4, <2>1, <2>2, <2>3 DEF EntryFine
  <2>6. /\ Entries(put)
        /\ \A j \in DOMAIN put : put[j] = entry \/ \E k \in DOMAIN lru : put[j] = lru[k]
    BY <1>0, <2>5, PutLast
  <2> HIDE DEF put
  <2>7. \A j \in DOMAIN put : EntryFine(put[j])
    BY <1>0, <2>5, <2>6
  <2> QED
    BY <1>1, <1>2, <2>4, <2>6, <2>7, ThreadKeeps
<1> QED
  BY <1>1, <1>3, <1>4

LEMMA CacheInvStep == CacheInv /\ [CacheNext]_cacheVars => CacheInv'
<1> SUFFICES ASSUME CacheInv, [CacheNext]_cacheVars PROVE CacheInv'
  OBVIOUS
<1>0. /\ CacheTypeOK /\ time \in 0 .. EndOfTime /\ EndOfTime \in Nat
      /\ PolicyDigest \in Policies
      /\ rules \subseteq RulePool /\ trusted \in TrustChoices /\ seen \in Policies
      /\ changes \in 0 .. MaxChanges /\ MaxChanges \in Nat
  BY CacheFacts, CacheAssumption DEF CacheTypeOK
<1>1. CASE AddRule
  <2>1. /\ rules' \subseteq RulePool /\ UNCHANGED <<trusted, time, lru, seen, call>>
        /\ changes' = changes + 1 /\ changes < MaxChanges
    BY <1>0, <1>1 DEF AddRule, NoteChange
  <2>2. /\ raced' = (raced \/ \E c \in Callers : call[c] # NoCall)
        /\ mixed' = (mixed \/ \E c \in Callers : call[c].stage = "decide")
    BY <1>1, Zenon DEF AddRule, NoteChange
  <2>3. changes' \in 0 .. MaxChanges /\ time <= time'
    BY <1>0, <2>1
  <2> QED
    BY <1>0, <2>1, <2>2, <2>3, AsideKeeps
<1>2. CASE ChangeTrust
  <2>1. /\ trusted' \in TrustChoices /\ UNCHANGED <<rules, time, lru, seen, call>>
        /\ changes' = changes + 1 /\ changes < MaxChanges
    BY <1>2 DEF ChangeTrust, NoteChange
  <2>2. /\ raced' = (raced \/ \E c \in Callers : call[c] # NoCall)
        /\ mixed' = (mixed \/ \E c \in Callers : call[c].stage = "decide")
    BY <1>2, Zenon DEF ChangeTrust, NoteChange
  <2>3. changes' \in 0 .. MaxChanges /\ time <= time'
    BY <1>0, <2>1
  <2> QED
    BY <1>0, <2>1, <2>2, <2>3, AsideKeeps
<1>3. CASE ClearCache
  <2>1. /\ lru' = <<>> /\ seen' \in Policies
        /\ UNCHANGED <<rules, trusted, time, call, changes, raced, mixed>>
    BY <1>0, <1>3 DEF ClearCache
  <2>2. time <= time'
    BY <1>0, <2>1
  <2> QED
    BY <1>0, <2>1, <2>2, AsideKeeps
<1>4. CASE CacheTick
  <2>1. /\ time < EndOfTime /\ time' = time + 1
        /\ UNCHANGED <<rules, trusted, lru, seen, call, changes, raced, mixed>>
    BY <1>4 DEF CacheTick
  <2>2. time <= time' /\ time' \in 0 .. EndOfTime
    BY <1>0, <2>1
  <2> QED
    BY <1>0, <2>1, <2>2, AsideKeeps
<1>5. CASE UNCHANGED cacheVars
  <2>1. UNCHANGED <<rules, trusted, time, lru, seen, call, changes, raced, mixed>>
    BY <1>5 DEF cacheVars
  <2>2. time <= time'
    BY <1>0, <2>1
  <2> QED
    BY <1>0, <2>1, <2>2, AsideKeeps
<1>6. ASSUME NEW c \in Callers,
             BeginCall(c) \/ ServeHit(c) \/ AskEngine(c) \/ Decide(c) \/ KeepAnswer(c)
      PROVE  CacheInv'
  BY <1>6, BeginCallKeeps, ServeHitKeeps, AskEngineKeeps, DecideKeeps, KeepAnswerKeeps
<1> QED
  BY <1>1, <1>2, <1>3, <1>4, <1>5, <1>6 DEF CacheNext

LEMMA AlwaysCacheInv == CacheSpec => []CacheInv
  BY CacheInvInit, CacheInvStep, PTL DEF CacheSpec

(* The cache's type invariant: it never holds more than its capacity nor   *)
(* a key twice, and no decision that waiting may change (cache.py).        *)
THEOREM CacheTypeCorrect == CacheSpec => []CacheTypeOK
<1>1. CacheInv => CacheTypeOK
  BY DEF CacheInv
<1> QED
  BY <1>1, AlwaysCacheInv, PTL

(* For any rules, trust, capacity, threads and interleaving: a decision    *)
(* about to be returned and one that waits in the cache is what the engine *)
(* says under the policy it names, unless the policy changed between the   *)
(* engine's digest and its rules, and that is the policy of its key unless *)
(* it changed during a call.                                               *)
THEOREM AnswersFollow == CacheSpec => []AnswersFollowPolicy
<1>1. CacheInv => AnswersFollowPolicy
  <2> SUFFICES ASSUME CacheInv PROVE AnswersFollowPolicy
    OBVIOUS
  <2>1. /\ CacheTypeOK /\ PolicyDigest = Snapshot(rules, trusted)
        /\ \A c \in Callers : call[c] # NoCall => CallFine(c)
        /\ \A i \in DOMAIN lru : EntryFine(lru[i])
        /\ (mixed => raced)
    BY CacheFacts DEF CacheTypeOK
  <2>2. ASSUME NEW c \in Callers, call[c].stage = "keep"
        PROVE  Follows(call[c].key, call[c].request, call[c].answer,
                       IF call[c].kept THEN 0 .. time ELSE {call[c].at})
    <3>1. call[c] # NoCall
      BY <2>2 DEF NoCall
    <3> QED
      BY <2>1, <2>2, <3>1 DEF CallFine
  <2>3. ASSUME NEW i \in DOMAIN lru
        PROVE  \E r \in Requests :
                  /\ r.id = lru[i].key.request
                  /\ Follows(lru[i].key, r, lru[i].answer, 0 .. time)
                  /\ lru[i].key.policy = PolicyDigest /\ ~raced =>
                        \E t \in 0 .. time : lru[i].answer = EvaluateAt(rules, trusted, r, t)
    <3> DEFINE entry == lru[i]
    <3>1. PICK r \in Requests : r.id = entry.key.request /\ Follows(entry.key, r, entry.answer, 0 .. time)
      BY <2>1 DEF EntryFine
    <3> HIDE DEF entry
    <3>2. ASSUME entry.key.policy = PolicyDigest, ~raced
          PROVE  \E t \in 0 .. time : entry.answer = EvaluateAt(rules, trusted, r, t)
      <4>1. entry.answer.policy = PolicyDigest /\ ~mixed
        BY <2>1, <3>1, <3>2 DEF Follows
      <4>2. PolicyDigest.rules = rules /\ PolicyDigest.trusted = trusted
        BY <2>1, SnapshotFields
      <4>3. PICK t \in 0 .. time : entry.answer = EvaluateAt(entry.answer.policy.rules,
                                                    entry.answer.policy.trusted, r, t)
        BY <3>1, <4>1 DEF Follows
      <4> QED
        BY <4>1, <4>2, <4>3
    <3> QED
      BY <3>1, <3>2 DEF entry
  <2> QED
    BY <2>2, <2>3 DEF AnswersFollowPolicy, Follows
<1> QED
  BY <1>1, AlwaysCacheInv, PTL

-----------------------------------------------------------------------------
(* Policies and what is said of them *)

(* A pattern that covers another matches what the other does. *)
LEMMA CoverMatches ==
    ASSUME NEW pattern \in Texts, NEW candidate \in Texts, Covers(pattern, candidate),
           NEW text \in Glob[candidate]
    PROVE  text \in Glob[pattern]
<1>1. text \in Texts /\ Glob[Star] = Texts
  BY EngineAssumption
<1>2. CASE pattern = Star \/ pattern = candidate
  BY <1>1, <1>2
<1>3. CASE Literal(candidate) /\ candidate \in Glob[pattern]
  BY <1>3 DEF Literal
<1> QED
  BY <1>2, <1>3 DEF Covers

LEMMA SetCoverMatches ==
    ASSUME NEW patterns \in SUBSET Texts, NEW candidates \in SUBSET Texts,
           SetCovers(patterns, candidates), NEW text, MatchesAny(candidates, text)
    PROVE  MatchesAny(patterns, text)
<1>1. PICK c \in candidates : text \in Glob[c]
  BY DEF MatchesAny
<1>2. CASE Star \in patterns
  <2>1. text \in Texts /\ Glob[Star] = Texts
    BY <1>1, EngineAssumption
  <2> QED
    BY <1>2, <2>1 DEF MatchesAny
<1>3. ASSUME NEW p \in patterns, Covers(p, c) PROVE MatchesAny(patterns, text)
  BY <1>1, <1>3, CoverMatches DEF MatchesAny
<1> QED
  BY <1>1, <1>2, <1>3 DEF SetCovers

(* A rule without constraints holds whatever the context. *)
LEMMA NothingToHold ==
    ASSUME NEW rule, Unconstrained(rule), rule.effect = "deny", NEW request, NEW t
    PROVE  ConstraintsHold(rule, request, t)
<1>1. \A name : ~Has(rule, name)
  BY DEF Unconstrained, Has
<1>2. InTime(rule, t) /\ InContext(rule, request.context) /\ Attended(rule, request.context)
  BY <1>1 DEF InTime, InContext, Attended
<1>3. WithinRisk(rule, request.context) /\ PhysicalHolds(rule, request.context)
  BY <1>1 DEF WithinRisk, PhysicalHolds
<1> QED
  BY <1>2, <1>3 DEF ConstraintsHold

(* Where an allow rule applies, a deny rule without constraints that       *)
(* shadows it does.                                                        *)
LEMMA ShadowApplies ==
    ASSUME NEW allow \in RulePool, NEW deny \in RulePool, Unconstrained(deny),
           Shadows(deny, allow), NEW ts, NEW request, NEW t, Applies(allow, ts, request, t)
    PROVE  Applies(deny, ts, request, t) /\ deny.effect = "deny"
<1>1. \A rule \in RulePool : /\ rule.target \in Texts /\ rule.actions \in SUBSET Texts
                             /\ rule.subjects \in SUBSET Texts /\ rule.purposes \in SUBSET Texts
  BY CacheAssumption
<1>2. InScope(allow, request) /\ deny.effect = "deny"
  BY DEF Applies, Shadows
<1>3. request.target \in Glob[deny.target]
  BY <1>1, <1>2, CoverMatches DEF InScope, Shadows
<1>4. /\ MatchesAny(deny.actions, request.action)
      /\ MatchesAny(deny.subjects, request.agent)
      /\ MatchesAny(deny.purposes, request.purpose)
  BY <1>1, <1>2, SetCoverMatches DEF InScope, Shadows
<1>5. MayCount(deny, ts) /\ ConstraintsHold(deny, request, t)
  BY <1>2, NothingToHold DEF MayCount
<1> QED
  BY <1>2, <1>3, <1>4, <1>5 DEF Applies, InScope

(* What the engine answers, whichever way it decides. *)
LEMMA EngineAnswer ==
    ASSUME NEW rs, NEW ts, NEW request, NEW t
    PROVE  LET answer == EvaluateAt(rs, ts, request, t) IN
           /\ Freshness(request, t) = "fresh" =>
                 answer.matched = {rule.id : rule \in Applicable(rs, ts, request, t)}
           /\ answer.allowed =>
                 /\ Freshness(request, t) = "fresh"
                 /\ \A rule \in Applicable(rs, ts, request, t) : rule.effect # "deny"
<1> DEFINE applicable == Applicable(rs, ts, request, t)
           matched == {rule.id : rule \in applicable}
           denies == {rule \in applicable : rule.effect = "deny"}
           policy == Snapshot(rs, ts)
<1> HIDE DEF policy
<1>1. CASE Freshness(request, t) # "fresh"
  <2>1. EvaluateAt(rs, ts, request, t) = Answer(policy, request, FALSE, Freshness(request, t), {}, 0)
    BY <1>1 DEF EvaluateAt, policy
  <2> QED
    BY <1>1, <2>1 DEF Answer
<1>2. CASE Freshness(request, t) = "fresh" /\ denies # {}
  <2>1. EvaluateAt(rs, ts, request, t) = Answer(policy, request, FALSE, "explicit_deny", matched, 0)
    BY <1>2 DEF EvaluateAt, policy
  <2> QED
    BY <1>2, <2>1 DEF Answer
<1>3. CASE Freshness(request, t) = "fresh" /\ denies = {} /\ applicable = {}
  <2>1. EvaluateAt(rs, ts, request, t) = Answer(policy, request, FALSE, "default_deny", {}, 0)
    BY <1>3 DEF EvaluateAt, policy
  <2> QED
    BY <1>3, <2>1 DEF Answer
<1>4. CASE Freshness(request, t) = "fresh" /\ denies = {} /\ applicable # {}
  <2>1. EvaluateAt(rs, ts, request, t)
           = Answer(policy, request, TRUE, "explicit_allow", matched, HighestTier(applicable))
    BY <1>4 DEF EvaluateAt, policy
  <2> QED
    BY <1>4, <2>1 DEF Answer
<1> QED
  BY <1>1, <1>2, <1>3, <1>4

(* The explanation names a rule exactly if the engine applies it. *)
LEMMA ExplainsApplicable ==
    ASSUME NEW rs, NEW ts, NEW request, NEW t
    PROVE  ExplainedApplicable(rs, ts, request, t)
              = {rule.id : rule \in Applicable(rs, ts, request, t)}
<1>1. \A rule \in rs : Exclusion(rule, ts, request, t) = "applicable"
                          <=> Applies(rule, ts, request, t)
  BY DEF Exclusion, Applies, InScope
<1> QED
  BY <1>1 DEF ExplainedApplicable, Applicable

(* Sets of plain patterns that match one text overlap by what they say. *)
LEMMA TuplesMeet ==
    ASSUME NEW a, NEW b, Plain(a \cup b), NEW text, MatchesAny(a, text), MatchesAny(b, text)
    PROVE  TupleOverlaps(a, b)
<1>1. PICK p \in a : text \in Glob[p]
  BY DEF MatchesAny
<1>2. PICK q \in b : text \in Glob[q]
  BY DEF MatchesAny
<1>3. (p = Star \/ p = text) /\ (q = Star \/ q = text)
  BY <1>1, <1>2 DEF Plain, Literal
<1> QED
  BY <1>1, <1>2, <1>3 DEF TupleOverlaps

(* ... and so do targets, if one is plain and the other has a star unless  *)
(* it is plain.                                                            *)
LEMMA TargetsMeet ==
    ASSUME NEW a, NEW b, NEW text, text \in Glob[a], text \in Glob[b],
           Plain({a}) \/ Plain({b}),
           a \in Starred \/ Plain({a}), b \in Starred \/ Plain({b})
    PROVE  PatternOverlaps(a, b)
<1>1. ASSUME NEW x, Plain({x}), text \in Glob[x] PROVE x = Star \/ x = text
  BY <1>1 DEF Plain, Literal
<1>2. CASE Plain({a})
  BY <1>1, <1>2 DEF PatternOverlaps
<1>3. CASE Plain({b})
  BY <1>1, <1>3 DEF PatternOverlaps
<1> QED
  BY <1>2, <1>3

(* An analysis without errors found no pair of rules that may meet. *)
LEMMA NoConflictPasses ==
    ASSUME NEW rs, NEW signer, ErrorFindings(rs, signer) = {}, NEW pair \in Conflicting(rs)
    PROVE  ~ScopeOverlaps(pair[1], pair[2])
<1> SUFFICES ASSUME ScopeOverlaps(pair[1], pair[2]) PROVE FALSE
  OBVIOUS
<1> DEFINE found == [code |-> "conflicting_effect", rules |-> {pair[1].id, pair[2].id}]
<1>1. pair \in {p \in Conflicting(rs) : ScopeOverlaps(p[1], p[2])}
  OBVIOUS
<1>2. found \in ErrorFindings(rs, signer)
  BY <1>1 DEF ErrorFindings
<1> QED
  BY <1>2

(* The rules of an engine are of the pool, and no two have an id: add      *)
(* refuses a second one (policy.py).                                       *)
RulesInv ==
    /\ rules \subseteq RulePool
    /\ \A a, b \in rules : a.id = b.id => a = b

LEMMA AlwaysRulesInv == CacheSpec => []RulesInv
<1>1. CacheInit => RulesInv
  BY CacheAssumption DEF CacheInit, RulesInv
<1>2. RulesInv /\ [CacheNext]_cacheVars => RulesInv'
  <2> SUFFICES ASSUME RulesInv, [CacheNext]_cacheVars PROVE RulesInv'
    OBVIOUS
  <2>1. CASE AddRule
    <3>1. PICK rule \in RulePool : (\A r \in rules : r.id # rule.id) /\ rules' = rules \cup {rule}
      BY <2>1 DEF AddRule
    <3> QED
      BY <3>1 DEF RulesInv
  <2>2. CASE rules' = rules
    BY <2>2 DEF RulesInv
  <2> QED
    BY <2>1, <2>2 DEF CacheNext, cacheVars, ChangeTrust, ClearCache, CacheTick, BeginCall,
                      ServeHit, AskEngine, Decide, KeepAnswer
<1> QED
  BY <1>1, <1>2, PTL DEF CacheSpec

(* An allow rule that the static checks call untrusted, or shadowed by a   *)
(* deny rule without constraints, never allows a request.                  *)
LEMMA FlaggedNeverAllows ==
    ASSUME RulesInv, NEW allow \in rules, NEW request, NEW t,
           \/ [check |-> "untrusted_allow", id |-> allow.id] \in StaticFindings(rules, trusted)
           \/ \E deny \in rules : Unconstrained(deny) /\ Shadows(deny, allow)
    PROVE  LET answer == EvaluateAt(rules, trusted, request, t) IN
           ~(answer.allowed /\ allow.id \in answer.matched)
<1> DEFINE answer == EvaluateAt(rules, trusted, request, t)
           applicable == Applicable(rules, trusted, request, t)
<1> SUFFICES ASSUME answer.allowed, allow.id \in answer.matched PROVE FALSE
  OBVIOUS
<1>1. /\ answer.matched = {rule.id : rule \in applicable}
      /\ \A rule \in applicable : rule.effect # "deny"
  BY EngineAnswer
<1> HIDE DEF answer
<1>2. PICK rule \in applicable : rule.id = allow.id
  BY <1>1
<1>3. rule \in rules /\ Applies(rule, trusted, request, t)
  BY <1>2 DEF Applicable
<1>4. Applies(allow, trusted, request, t)
  <2>1. rule = allow
    BY <1>2, <1>3 DEF RulesInv
  <2> QED
    BY <1>3, <2>1
<1>5. CASE [check |-> "untrusted_allow", id |-> allow.id] \in StaticFindings(rules, trusted)
  <2>1. PICK r \in rules : r.effect = "allow" /\ r.issuer \notin trusted /\ r.id = allow.id
    <3> DEFINE finding == [check |-> "untrusted_allow", id |-> allow.id]
               Flag(check, flagged) == {[check |-> check, id |-> q.id] : q \in flagged}
    <3>1. finding \in Flag("untrusted_allow",
                           {q \in rules : q.effect = "allow" /\ q.issuer \notin trusted})
          \/ finding \in Flag("allow_all", {q \in rules : AllowsAll(q)})
          \/ finding \in Flag("deny_shadows_allow",
                              {q \in rules : \E d \in rules : Shadows(d, q)})
      BY <1>5 DEF StaticFindings
    <3> QED
      BY <3>1
  <2>2. r = allow
    BY <2>1 DEF RulesInv
  <2> QED
    BY <1>4, <2>1, <2>2 DEF Applies, MayCount
<1>6. ASSUME NEW deny \in rules, Unconstrained(deny), Shadows(deny, allow) PROVE FALSE
  <2>1. allow \in RulePool /\ deny \in RulePool
    BY DEF RulesInv
  <2>2. Applies(deny, trusted, request, t) /\ deny.effect = "deny"
    BY <1>4, <1>6, <2>1, ShadowApplies
  <2> QED
    BY <1>1, <2>2 DEF Applicable
<1> QED
  BY <1>5, <1>6

(* Of two rules one does not apply, unless the analysis cannot see that    *)
(* their patterns meet.                                                    *)
Apart(pair, signer, request, t) ==
    \/ \E rule \in {pair[1], pair[2]} : ~Plain(rule.actions \cup rule.purposes)
    \/ \A rule \in {pair[1], pair[2]} : ~Plain({rule.target})
    \/ \E rule \in {pair[1], pair[2]} : rule.target \notin Starred /\ ~Plain({rule.target})
    \/ \E rule \in {pair[1], pair[2]} : ~Applies(rule, {signer}, request, t)

(* Of a conflicting pair of rules in a bundle whose audit passes, one does *)
(* not apply, if their patterns are of the kinds the analysis sees.        *)
LEMMA AuditedNeverMeet ==
    ASSUME NEW rs, NEW signer, NEW space, NEW t, AuditPasses(rs, signer, space, t),
           NEW pair \in Conflicting(rs), NEW request
    PROVE  Apart(pair, signer, request, t)
<1> DEFINE a == pair[1]
           b == pair[2]
<1> SUFFICES ASSUME /\ Plain(a.actions \cup a.purposes) /\ Plain(b.actions \cup b.purposes)
                    /\ Plain({a.target}) \/ Plain({b.target})
                    /\ a.target \in Starred \/ Plain({a.target})
                    /\ b.target \in Starred \/ Plain({b.target})
                    /\ Applies(a, {signer}, request, t) /\ Applies(b, {signer}, request, t)
             PROVE  FALSE
  BY DEF Apart
<1>1. ~ScopeOverlaps(a, b)
  BY NoConflictPasses DEF AuditPasses
<1> HIDE DEF a, b
<1>2. InScope(a, request) /\ InScope(b, request)
  BY DEF Applies
<1>3. PatternOverlaps(a.target, b.target)
  BY <1>2, TargetsMeet DEF InScope
<1>4. Plain(a.actions \cup b.actions) /\ Plain(a.purposes \cup b.purposes)
  BY DEF Plain
<1>5. TupleOverlaps(a.actions, b.actions) /\ TupleOverlaps(a.purposes, b.purposes)
  BY <1>2, <1>4, TuplesMeet DEF InScope
<1> QED
  BY <1>1, <1>3, <1>5 DEF ScopeOverlaps

(* For any rules the engine can hold, the static checks (semantics.py),    *)
(* the audit of a bundle and the explanation of a decision                 *)
(* (policy_bundle.py) say nothing that the engine contradicts.             *)
THEOREM AnalysisIsSound == CacheSpec => []StaticAnalysisSound
<1>1. RulesInv => StaticAnalysisSound
  <2> SUFFICES ASSUME RulesInv PROVE StaticAnalysisSound
    OBVIOUS
  <2>1. ASSUME NEW r \in Requests, Freshness(r, time) = "fresh"
        PROVE  EvaluateAt(rules, trusted, r, time).matched
                  = ExplainedApplicable(rules, trusted, r, time)
    BY <2>1, EngineAnswer, ExplainsApplicable
  <2>2. ASSUME NEW allow \in rules, NEW r \in Requests,
               \/ [check |-> "untrusted_allow", id |-> allow.id] \in StaticFindings(rules, trusted)
               \/ \E deny \in rules : Unconstrained(deny) /\ Shadows(deny, allow)
        PROVE  LET answer == EvaluateAt(rules, trusted, r, time) IN
               ~(answer.allowed /\ allow.id \in answer.matched)
    BY <2>2, FlaggedNeverAllows
  <2>3. ASSUME NEW signer \in {rule.issuer : rule \in rules},
               AuditPasses(rules, signer, Requests, time),
               NEW pair \in Conflicting(rules), NEW r \in Requests
        PROVE  Apart(pair, signer, r, time)
    BY <2>3, AuditedNeverMeet
  <2> QED
    BY <2>1, <2>2, <2>3, Zenon DEF StaticAnalysisSound, Apart
<1> QED
  BY <1>1, AlwaysRulesInv, PTL

-----------------------------------------------------------------------------
(***************************************************************************)
(* The receipt logs for any number of threads, executors and restarts.  A  *)
(* signed receipt is of one append, and in no log until that append is     *)
(* done; while a log keeps its order, every receipt of its executor is in  *)
(* it or under way, and it is a chain itself.  A chain that verifies names *)
(* each receipt's predecessor, and so is the beginning of that log.        *)
(***************************************************************************)

ReceiptFields == {"executor", "use", "satisfied", "started", "previous"}

(* The receipt was signed by an append that is under way. *)
Linked(r) == \E w \in Writers : append[w].stage = "linked" /\ append[w].receipt = r

Logged(r) == \E i \in DOMAIN logs[r.executor] : logs[r.executor][i] = r

(* A receipt that another one names was in a log when that was signed. *)
ReceiptFine(r) ==
    /\ DOMAIN r = ReceiptFields
    /\ r.executor \in Executors /\ r.use \in Uses /\ r.satisfied \in Reports(r.use)
    /\ r.started \in Nat /\ r.started < Cardinality(history)
    /\ r.previous # NoHash =>
          r.previous \in history /\ r.previous.executor = r.executor /\ ~Linked(r.previous)

HistoryFine == IsFiniteSet(history) /\ \A r \in history : ReceiptFine(r)

LogsFine ==
    /\ DOMAIN logs = Executors
    /\ \A e \in Executors :
          logs[e] \in Seq(history) /\ \A i \in DOMAIN logs[e] : logs[e][i].executor = e

(* What stands before place n + 1. *)
HashBefore(log, n) == IF n = 0 THEN NoHash ELSE log[n]

(* A signed receipt is of one append and in no log; while the log keeps    *)
(* its order, it follows the receipt it names.                             *)
AppendFine(w) ==
    LET a == append[w] IN
    /\ a.stage \in {"none", "checked", "linked"}
    /\ a.stage = "checked" =>
          a.executor \in Executors /\ a.use \in Uses /\ a.satisfied \in Reports(a.use)
    /\ a.stage = "linked" =>
          /\ a.receipt \in history /\ ~Logged(a.receipt)
          /\ \A v \in Writers :
                append[v].stage = "linked" /\ append[v].receipt = a.receipt => v = w
          /\ a.receipt.executor \notin forked =>
                LET log == logs[a.receipt.executor] IN
                a.after \in 0 .. Len(log) /\ a.receipt.previous = HashBefore(log, a.after)

AppendsFine == \A w \in Writers : AppendFine(w)

NotarizedFine ==
    \A chain \in notarized :
        chain \in Seq(history) /\ \E e \in Executors : \A i \in DOMAIN chain : chain[i].executor = e

(* A log that kept its order. *)
LogTrue(e) ==
    /\ ChainVerifies(logs[e], {e})
    /\ \A r \in history : r.executor = e => Logged(r) \/ Linked(r)
    /\ \A chain \in notarized : chain # <<>> /\ chain[1].executor = e => Prefix(chain, logs[e])

LogsTrue == \A e \in Executors \ forked : LogTrue(e)

EvidenceInv ==
    /\ restores \in 0 .. MaxRestores /\ forked \subseteq Executors
    /\ DOMAIN append = Writers
    /\ HistoryFine /\ LogsFine /\ AppendsFine /\ NotarizedFine /\ LogsTrue

-----------------------------------------------------------------------------
(* The invariant gives every part its shape.                               *)
LEMMA EvidenceTyped == EvidenceInv => EvidenceTypeOK
<1> SUFFICES ASSUME EvidenceInv PROVE EvidenceTypeOK
  OBVIOUS
<1>1. \A e \in Executors : \A i \in DOMAIN logs[e] : logs[e][i] \in history
  BY DEF EvidenceInv, LogsFine
<1> QED
  BY <1>1 DEF EvidenceInv, EvidenceTypeOK, LogsFine, AppendsFine, AppendFine, HistoryFine,
              ReceiptFine, NotarizedFine

(* Every log is empty at first.                                            *)
LEMMA EvidenceInvInit == EvidenceInit => EvidenceInv
<1> SUFFICES ASSUME EvidenceInit PROVE EvidenceInv
  OBVIOUS
<1>1. IsFiniteSet(history)
  BY FS_EmptySet DEF EvidenceInit
<1>2. LogsTrue
  BY DEF EvidenceInit, LogsTrue, LogTrue, ChainVerifies
<1> QED
  BY <1>1, <1>2, EvidenceAssumption
     DEF EvidenceInit, EvidenceInv, HistoryFine, LogsFine, AppendsFine, AppendFine,
         NotarizedFine, NoAppend

(* A receipt that is signed is new. *)
LEMMA FreshReceipt ==
    ASSUME HistoryFine, NEW r, r.started = Cardinality(history)
    PROVE  /\ r \notin history /\ IsFiniteSet(history \cup {r})
           /\ Cardinality(history \cup {r}) = Cardinality(history) + 1
           /\ Cardinality(history) \in Nat
<1>1. Cardinality(history) \in Nat
  BY FS_CardinalityType DEF HistoryFine
<1>2. r \notin history
  BY <1>1 DEF HistoryFine, ReceiptFine
<1> QED
  BY <1>1, <1>2, FS_AddElement DEF HistoryFine

-----------------------------------------------------------------------------
(* One lemma per step. *)

(* A checked append has signed nothing yet.                                *)
LEMMA BeginAppendKeeps ==
    ASSUME EvidenceInv, NEW w \in Writers, BeginAppend(w)
    PROVE  EvidenceInv'
<1> USE DEF EvidenceInv
<1>1. /\ append[w] = NoAppend
      /\ UNCHANGED <<logs, history, notarized, restores, forked>>
  BY DEF BeginAppend
<1>2. PICK a : /\ a.stage = "checked" /\ a.executor \in Executors /\ a.use \in Uses
               /\ a.satisfied \in Reports(a.use)
               /\ append' = [append EXCEPT ![w] = a]
  <2>1. PICK e \in Executors, use \in Uses, satisfied \in UNION {Reports(u) : u \in Uses} :
           /\ satisfied \in Reports(use)
           /\ append' = [append EXCEPT ![w] = [stage |-> "checked", executor |-> e,
                                               use |-> use, satisfied |-> satisfied]]
    BY DEF BeginAppend
  <2> QED
    BY <2>1
<1>3. DOMAIN append' = Writers /\ append'[w] = a
      /\ \A v \in Writers \ {w} : append'[v] = append[v]
  BY <1>2
<1>4. append[w].stage = "none"
  BY <1>1 DEF NoAppend
<1>5. \A r : Linked(r)' <=> Linked(r)
  BY <1>2, <1>3, <1>4 DEF Linked
<1>6. AppendsFine'
  <2> SUFFICES ASSUME NEW v \in Writers PROVE AppendFine(v)'
    BY DEF AppendsFine
  <2>1. CASE v = w
    BY <1>2, <1>3, <2>1 DEF AppendFine
  <2>2. CASE v # w
    BY <1>1, <1>2, <1>3, <2>2 DEF AppendsFine, AppendFine, Logged
  <2> QED
    BY <2>1, <2>2
<1>7. HistoryFine'
  BY <1>1, <1>5 DEF HistoryFine, ReceiptFine
<1>8. LogsTrue'
  BY <1>1, <1>5 DEF LogsTrue, LogTrue, Logged
<1> QED
  BY <1>1, <1>3, <1>6, <1>7, <1>8 DEF LogsFine, NotarizedFine

(* The receipt that is signed is new, and names the last one it was shown. *)
LEMMA LinkKeeps ==
    ASSUME EvidenceInv, NEW w \in Writers, Link(w)
    PROVE  EvidenceInv'
<1> USE DEF EvidenceInv
<1> DEFINE a == append[w]
           log == logs[a.executor]
           receipt == [executor |-> a.executor, use |-> a.use, satisfied |-> a.satisfied,
                       started |-> Cardinality(history), previous |-> Latest(log)]
           linked == [stage |-> "linked", receipt |-> receipt, after |-> Len(log)]
<1>1. /\ a.stage = "checked"
      /\ append' = [append EXCEPT ![w] = linked] /\ history' = history \cup {receipt}
      /\ UNCHANGED <<logs, notarized, restores, forked>>
  BY DEF Link
<1>2. a.executor \in Executors /\ a.use \in Uses /\ a.satisfied \in Reports(a.use)
  BY <1>1 DEF AppendsFine, AppendFine
<1>3. /\ receipt.executor = a.executor /\ receipt.use = a.use
      /\ receipt.satisfied = a.satisfied /\ receipt.started = Cardinality(history)
      /\ receipt.previous = Latest(log) /\ DOMAIN receipt = ReceiptFields
  BY DEF ReceiptFields
<1>4. linked.stage = "linked" /\ linked.receipt = receipt /\ linked.after = Len(log)
  OBVIOUS
<1>5. log \in Seq(history) /\ \A i \in DOMAIN log : log[i].executor = a.executor
  BY <1>2 DEF LogsFine
<1> HIDE DEF receipt, linked
<1>6. /\ receipt \notin history /\ IsFiniteSet(history')
      /\ Cardinality(history') = Cardinality(history) + 1 /\ Cardinality(history) \in Nat
  BY <1>1, <1>3, FreshReceipt
<1>7. DOMAIN append' = Writers /\ append'[w] = linked
      /\ \A v \in Writers \ {w} : append'[v] = append[v]
  BY <1>1
<1>8. \A r : Linked(r)' <=> Linked(r) \/ r = receipt
  BY <1>1, <1>4, <1>7 DEF Linked
<1>9. HashBefore(log, Len(log)) = Latest(log) /\ Len(log) \in Nat
  BY <1>5 DEF HashBefore, Latest
<1>10. Latest(log) # NoHash =>
          /\ Latest(log) \in history /\ Latest(log).executor = a.executor
          /\ Logged(Latest(log))
  <2>1. CASE log = <<>>
    BY <2>1 DEF Latest
  <2>2. CASE log # <<>>
    <3>1. Len(log) \in DOMAIN log /\ Latest(log) = log[Len(log)]
      BY <1>5, <2>2 DEF Latest
    <3>2. Latest(log) \in history /\ Latest(log).executor = a.executor
      BY <1>5, <3>1
    <3>3. Logged(Latest(log))
      BY <3>1, <3>2 DEF Logged
    <3> QED
      BY <3>2, <3>3
  <2> QED
    BY <2>1, <2>2
<1>11. \A r : Linked(r) => r \in history /\ ~Logged(r)
  BY DEF Linked, AppendsFine, AppendFine
<1>12. HistoryFine'
  <2> SUFFICES ASSUME NEW r \in history' PROVE ReceiptFine(r)'
    BY <1>6 DEF HistoryFine
  <2>1. CASE r \in history
    <3>1. ReceiptFine(r)
      BY <2>1 DEF HistoryFine
    <3>2. r.started < Cardinality(history')
      BY <1>6, <3>1 DEF ReceiptFine
    <3>3. r.previous # NoHash => r.previous \in history' /\ ~Linked(r.previous)'
      BY <1>1, <1>6, <1>8, <3>1 DEF ReceiptFine
    <3> QED
      BY <3>1, <3>2, <3>3 DEF ReceiptFine
  <2>2. CASE r = receipt
    <3>1. r.previous # NoHash =>
             /\ r.previous \in history' /\ r.previous.executor = r.executor
             /\ ~Linked(r.previous)'
      BY <1>1, <1>3, <1>6, <1>8, <1>10, <1>11, <2>2
    <3>2. r.started \in Nat /\ r.started < Cardinality(history')
      BY <1>3, <1>6, <2>2
    <3> QED
      BY <1>2, <1>3, <2>2, <3>1, <3>2 DEF ReceiptFine
  <2> QED
    BY <1>1, <2>1, <2>2
<1>13. LogsFine'
  <2>1. \A e \in Executors : logs[e] \in Seq(history')
    BY <1>1 DEF LogsFine
  <2> QED
    BY <1>1, <2>1 DEF LogsFine
<1>14. AppendsFine'
  <2> SUFFICES ASSUME NEW v \in Writers PROVE AppendFine(v)'
    BY DEF AppendsFine
  <2>0. \A r : Logged(r)' <=> Logged(r)
    BY <1>1 DEF Logged
  <2>1. CASE v = w
    <3>1. receipt \in history' /\ ~Logged(receipt)
      <4>1. \A i \in DOMAIN log : log[i] # receipt
        BY <1>5, <1>6
      <4> QED
        BY <1>1, <1>3, <4>1 DEF Logged
    <3>2. \A u \in Writers : append'[u].stage = "linked" /\ append'[u].receipt = receipt => u = w
      BY <1>6, <1>7, <1>11 DEF Linked
    <3>3. /\ Len(log) \in 0 .. Len(log) /\ receipt.previous = HashBefore(log, Len(log))
          /\ receipt.executor = a.executor
      BY <1>3, <1>9
    <3>4. logs'[receipt.executor] = log
      BY <1>1, <1>3
    <3> HIDE DEF a, log
    <3> QED
      BY <1>4, <1>7, <2>0, <2>1, <3>1, <3>2, <3>3, <3>4 DEF AppendFine
  <2>2. CASE v # w
    <3>1. append'[v] = append[v] /\ AppendFine(v)
      BY <1>7, <2>2 DEF AppendsFine
    <3>2. append[v].stage = "linked" =>
             \A u \in Writers :
                append'[u].stage = "linked" /\ append'[u].receipt = append[v].receipt => u = v
      BY <1>4, <1>6, <1>7, <3>1 DEF AppendFine
    <3> QED
      BY <1>1, <2>0, <3>1, <3>2 DEF AppendFine
  <2> QED
    BY <2>1, <2>2
<1>15. NotarizedFine'
  BY <1>1 DEF NotarizedFine
<1>16. LogsTrue'
  BY <1>1, <1>8 DEF LogsTrue, LogTrue, Logged
<1> QED
  BY <1>1, <1>7, <1>12, <1>13, <1>14, <1>15, <1>16

(* What is notarized is the log as it stands.                              *)
LEMMA CheckpointKeeps ==
    ASSUME EvidenceInv, NEW e \in Executors, Checkpoint(e)
    PROVE  EvidenceInv'
<1> USE DEF EvidenceInv
<1>1. /\ notarized' = notarized \cup {logs[e]} /\ logs[e] # <<>>
      /\ UNCHANGED <<logs, append, history, restores, forked>>
  BY DEF Checkpoint
<1>2. logs[e] \in Seq(history) /\ \A i \in DOMAIN logs[e] : logs[e][i].executor = e
  BY DEF LogsFine
<1>3. 1 \in DOMAIN logs[e] /\ Prefix(logs[e], logs[e])
  BY <1>1, <1>2 DEF Prefix
<1>4. NotarizedFine'
  BY <1>1, <1>2 DEF NotarizedFine
<1>5. LogsTrue'
  <2> SUFFICES ASSUME NEW f \in Executors \ forked PROVE LogTrue(f)'
    BY <1>1 DEF LogsTrue
  <2>1. LogTrue(f)
    BY DEF LogsTrue
  <2>2. logs[e][1].executor = f => f = e
    BY <1>2, <1>3
  <2>3. \A chain \in notarized' :
           chain # <<>> /\ chain[1].executor = f => Prefix(chain, logs[f])
    BY <1>1, <1>3, <2>1, <2>2 DEF LogTrue
  <2> QED
    BY <1>1, <2>1, <2>3 DEF LogTrue, Logged, Linked
<1> QED
  BY <1>1, <1>4, <1>5
     DEF HistoryFine, ReceiptFine, LogsFine, AppendsFine, AppendFine, Logged, Linked

(* A chain stays one with a receipt that follows its last one.             *)
LEMMA LongerVerifies ==
    ASSUME NEW S, NEW log \in Seq(S), NEW receipt \in S, NEW e,
           ChainVerifies(log, {e}), receipt.executor = e,
           receipt.previous = HashBefore(log, Len(log)),
           \A i \in DOMAIN log : log[i].use # receipt.use
    PROVE  ChainVerifies(Append(log, receipt), {e})
<1> DEFINE longer == Append(log, receipt)
           n == Len(log)
<1>1. /\ DOMAIN longer = 1 .. n + 1 /\ DOMAIN log = 1 .. n /\ n \in Nat
      /\ longer[n + 1] = receipt /\ \A i \in 1 .. n : longer[i] = log[i]
  OBVIOUS
<1> HIDE DEF longer, n
<1> SUFFICES ASSUME NEW i \in 1 .. n + 1
             PROVE  /\ longer[i].executor = e
                    /\ \A j \in 1 .. i - 1 : longer[j].use # longer[i].use
                    /\ longer[i].previous = IF i = 1 THEN NoHash ELSE longer[i - 1]
  BY <1>1 DEF ChainVerifies, longer
<1>2. CASE i \in 1 .. n
  <2>1. /\ log[i].executor = e
        /\ \A j \in 1 .. i - 1 : log[j].use # log[i].use
        /\ log[i].previous = IF i = 1 THEN NoHash ELSE log[i - 1]
    BY <1>1, <1>2 DEF ChainVerifies
  <2>2. \A j \in 1 .. i - 1 : j \in 1 .. n
    BY <1>1, <1>2
  <2>3. i # 1 => i - 1 \in 1 .. n
    BY <1>1, <1>2
  <2> QED
    BY <1>1, <1>2, <2>1, <2>2, <2>3
<1>3. CASE i = n + 1
  <2>1. longer[i] = receipt
    BY <1>1, <1>3
  <2>2. \A j \in 1 .. i - 1 : j \in 1 .. n /\ longer[j] = log[j]
    BY <1>1, <1>3
  <2>3. receipt.previous = IF i = 1 THEN NoHash ELSE longer[i - 1]
    <3>1. CASE n = 0
      BY <1>3, <3>1 DEF HashBefore, n
    <3>2. CASE n # 0
      <4>1. n \in 1 .. n /\ i - 1 = n /\ i # 1
        BY <1>1, <1>3, <3>2
      <4> QED
        BY <1>1, <3>2, <4>1 DEF HashBefore, n
    <3> QED
      BY <3>1, <3>2
  <2> QED
    BY <1>1, <2>1, <2>2, <2>3
<1> QED
  BY <1>1, <1>2, <1>3

(* The receipt goes behind the one it names, or the log is forked.         *)
LEMMA AppendLinkedKeeps ==
    ASSUME EvidenceInv, NEW w \in Writers, AppendLinked(w)
    PROVE  EvidenceInv'
<1> USE DEF EvidenceInv
<1> DEFINE receipt == append[w].receipt
           e == receipt.executor
           log == logs[e]
           overtaken == \/ append[w].after # Len(log)
                        \/ \E i \in DOMAIN log : log[i].use = receipt.use
<1>1. /\ append[w].stage = "linked"
      /\ logs' = [logs EXCEPT ![e] = Append(log, receipt)]
      /\ forked' = IF overtaken THEN forked \cup {e} ELSE forked
      /\ append' = [append EXCEPT ![w] = NoAppend]
      /\ UNCHANGED <<history, notarized, restores>>
  BY DEF AppendLinked
<1>2. /\ receipt \in history /\ ~Logged(receipt)
      /\ \A v \in Writers : append[v].stage = "linked" /\ append[v].receipt = receipt => v = w
      /\ e \notin forked => /\ append[w].after \in 0 .. Len(log)
                            /\ receipt.previous = HashBefore(log, append[w].after)
  BY <1>1 DEF AppendsFine, AppendFine
<1>3. e \in Executors
  BY <1>2 DEF HistoryFine, ReceiptFine
<1>4. log \in Seq(history) /\ \A i \in DOMAIN log : log[i].executor = e
  BY <1>3 DEF LogsFine
<1> HIDE DEF receipt
<1>5. /\ logs'[e] = Append(log, receipt) /\ DOMAIN logs' = Executors
      /\ \A f \in Executors \ {e} : logs'[f] = logs[f]
  BY <1>1, <1>3 DEF LogsFine
<1>6. /\ Append(log, receipt) \in Seq(history) /\ Len(Append(log, receipt)) = Len(log) + 1
      /\ DOMAIN Append(log, receipt) = 1 .. Len(log) + 1 /\ DOMAIN log = 1 .. Len(log)
      /\ Append(log, receipt)[Len(log) + 1] = receipt /\ Len(log) \in Nat
      /\ \A i \in DOMAIN log : Append(log, receipt)[i] = log[i]
  BY <1>2, <1>4
<1>7. DOMAIN append' = Writers /\ append'[w] = NoAppend
      /\ \A v \in Writers \ {w} : append'[v] = append[v]
  BY <1>1
<1>8. NoAppend.stage = "none"
  BY DEF NoAppend
<1>9. \A r : Linked(r)' <=> Linked(r) /\ r # receipt
  BY <1>1, <1>2, <1>7, <1>8 DEF Linked, receipt
<1>10. \A r \in history : Logged(r)' <=> Logged(r) \/ r = receipt
  <2> TAKE r \in history
  <2>1. r.executor \in Executors
    BY DEF HistoryFine, ReceiptFine
  <2>2. CASE r.executor = e
    <3>1. Logged(r)' <=> \E i \in 1 .. Len(log) + 1 : Append(log, receipt)[i] = r
      BY <1>5, <1>6, <2>2 DEF Logged
    <3>2. Logged(r) <=> \E i \in 1 .. Len(log) : log[i] = r
      BY <1>6, <2>2 DEF Logged
    <3>3. \A i \in 1 .. Len(log) + 1 : i \in 1 .. Len(log) \/ i = Len(log) + 1
      BY <1>6
    <3>4. Len(log) + 1 \in 1 .. Len(log) + 1 /\ \A i \in 1 .. Len(log) : i \in 1 .. Len(log) + 1
      BY <1>6
    <3> HIDE DEF log
    <3> QED
      BY <1>6, <3>1, <3>2, <3>3, <3>4
  <2>3. CASE r.executor # e
    BY <1>5, <2>1, <2>3 DEF Logged
  <2> QED
    BY <2>2, <2>3
<1>11. HistoryFine'
  BY <1>1, <1>9 DEF HistoryFine, ReceiptFine
<1>12. LogsFine'
  <2> SUFFICES ASSUME NEW f \in Executors
               PROVE  logs'[f] \in Seq(history)
                      /\ \A i \in DOMAIN logs'[f] : logs'[f][i].executor = f
    BY <1>1, <1>5 DEF LogsFine
  <2>1. CASE f = e
    <3>1. \A i \in 1 .. Len(log) + 1 : i \in DOMAIN log \/ i = Len(log) + 1
      BY <1>6
    <3> HIDE DEF log
    <3>2. \A i \in 1 .. Len(log) + 1 : Append(log, receipt)[i].executor = e
      BY <1>4, <1>6, <3>1
    <3> QED
      BY <1>5, <1>6, <2>1, <3>2
  <2>2. CASE f # e
    BY <1>5, <2>2 DEF LogsFine
  <2> QED
    BY <2>1, <2>2
<1>13. forked \subseteq forked' /\ forked' \subseteq Executors
  BY <1>1, <1>3
<1>14. AppendsFine'
  <2> SUFFICES ASSUME NEW v \in Writers PROVE AppendFine(v)'
    BY DEF AppendsFine
  <2>1. CASE v = w
    BY <1>7, <1>8, <2>1 DEF AppendFine
  <2>2. CASE v # w
    <3> DEFINE a == append[v]
               its == logs[a.receipt.executor]
    <3>0. append'[v] = a
      BY <1>7, <1>8, <2>2
    <3>1. append'[v] = a /\ AppendFine(v)
      BY <1>7, <2>2 DEF AppendsFine
    <3>2. CASE a.stage = "linked"
      <4>1. a.receipt \in history /\ ~Logged(a.receipt)
        BY <3>1, <3>2 DEF AppendFine
      <4>2. a.receipt # receipt
        BY <1>2, <2>2, <3>2
      <4>3. ~Logged(a.receipt)'
        BY <1>1, <1>10, <3>1, <4>1, <4>2
      <4>4. \A u \in Writers :
               append'[u].stage = "linked" /\ append'[u].receipt = a.receipt => u = v
        BY <1>7, <1>8, <3>1, <3>2 DEF AppendFine
      <4>5. ASSUME a.receipt.executor \notin forked'
            PROVE  LET now == logs'[a.receipt.executor] IN
                   a.after \in 0 .. Len(now) /\ a.receipt.previous = HashBefore(now, a.after)
        <5>1. a.after \in 0 .. Len(its) /\ a.receipt.previous = HashBefore(its, a.after)
          BY <1>13, <3>1, <3>2, <4>5 DEF AppendFine
        <5>2. CASE a.receipt.executor = e
          <6>1. its = log /\ logs'[a.receipt.executor] = Append(log, receipt)
            BY <1>5, <5>2
          <6>2. HashBefore(Append(log, receipt), a.after) = HashBefore(log, a.after)
            BY <1>6, <5>1, <6>1 DEF HashBefore
          <6>3. a.after \in 0 .. Len(log) + 1
            BY <1>6, <5>1, <6>1
          <6> HIDE DEF a, its, log
          <6> QED
            BY <1>6, <5>1, <6>1, <6>2, <6>3
        <5>3. CASE a.receipt.executor # e
          <6>1. a.receipt.executor \in Executors
            BY <4>1 DEF HistoryFine, ReceiptFine
          <6> QED
            BY <1>5, <5>1, <5>3, <6>1
        <5> QED
          BY <5>2, <5>3
      <4> QED
        BY <1>1, <3>0, <3>2, <4>1, <4>3, <4>4, <4>5 DEF AppendFine
    <3>3. CASE a.stage # "linked"
      BY <3>1, <3>3 DEF AppendFine
    <3> QED
      BY <3>2, <3>3
  <2> QED
    BY <2>1, <2>2
<1>15. NotarizedFine'
  BY <1>1 DEF NotarizedFine
<1>16. LogsTrue'
  <2> SUFFICES ASSUME NEW f \in Executors, f \notin forked' PROVE LogTrue(f)'
    BY DEF LogsTrue
  <2>1. f \notin forked /\ LogTrue(f)
    BY <1>13 DEF LogsTrue
  <2>2. ASSUME NEW r \in history, r.executor = f PROVE (Logged(r) \/ Linked(r))'
    <3>1. Logged(r) \/ Linked(r)
      BY <2>1, <2>2 DEF LogTrue
    <3> QED
      BY <1>9, <1>10, <2>2, <3>1
  <2>3. CASE f # e
    <3>1. logs'[f] = logs[f]
      BY <1>5, <2>3
    <3> QED
      BY <1>1, <2>1, <2>2, <3>1 DEF LogTrue
  <2>4. CASE f = e
    <3>1. ~overtaken
      BY <1>1, <2>4
    <3>2. receipt.previous = HashBefore(log, Len(log))
          /\ \A i \in DOMAIN log : log[i].use # receipt.use
      BY <1>2, <2>1, <2>4, <3>1
    <3> DEFINE longer == Append(log, receipt)
    <3>3. ChainVerifies(log, {e})
      BY <2>1, <2>4 DEF LogTrue
    <3>4. logs'[f] = longer
      BY <1>5, <2>4
    <3>5. ChainVerifies(longer, {e})
      BY <1>4, <1>6, <3>2, <3>3, LongerVerifies DEF e
    <3>6. ASSUME NEW chain \in notarized, chain # <<>>, chain[1].executor = f
          PROVE  Prefix(chain, longer)
      <4>1. Prefix(chain, log) /\ chain \in Seq(history)
        BY <2>1, <2>4, <3>6 DEF LogTrue, NotarizedFine
      <4>2. Len(chain) \in Nat /\ DOMAIN chain = 1 .. Len(chain)
        BY <4>1
      <4> HIDE DEF log
      <4> QED
        BY <1>6, <4>1, <4>2 DEF Prefix
    <3> HIDE DEF longer
    <3> QED
      BY <1>1, <2>2, <2>4, <3>4, <3>5, <3>6 DEF LogTrue
  <2> QED
    BY <2>3, <2>4
<1> QED
  BY <1>1, <1>7, <1>11, <1>12, <1>13, <1>14, <1>15, <1>16

(* A log put back is forked, unless nothing of it was lost or under way.   *)
LEMMA RestoreKeeps ==
    ASSUME EvidenceInv, NEW e \in Executors, Restore(e)
    PROVE  EvidenceInv'
<1> USE DEF EvidenceInv
<1> DEFINE log == logs[e]
           Gone(w) == \/ append[w].stage = "checked" /\ append[w].executor = e
                      \/ append[w].stage = "linked" /\ append[w].receipt.executor = e
<1>1. PICK n \in 0 .. Len(log) :
         /\ logs' = [logs EXCEPT ![e] = SubSeq(log, 1, n)]
         /\ forked' = IF n < Len(log) \/ \E w \in Writers : append[w].stage = "linked"
                      THEN forked \cup {e} ELSE forked
  BY DEF Restore
<1>2. /\ restores < MaxRestores /\ restores' = restores + 1
      /\ append' = [w \in Writers |-> IF Gone(w) THEN NoAppend ELSE append[w]]
      /\ UNCHANGED <<history, notarized>>
  BY DEF Restore
<1>3. log \in Seq(history) /\ \A i \in DOMAIN log : log[i].executor = e
  BY DEF LogsFine
<1> DEFINE rest == SubSeq(log, 1, n)
<1>4. /\ rest \in Seq(history) /\ Len(rest) = n /\ DOMAIN rest = 1 .. n
      /\ DOMAIN log = 1 .. Len(log) /\ Len(log) \in Nat
      /\ \A i \in 1 .. n : rest[i] = log[i] /\ i \in DOMAIN log
  BY <1>3
<1>5. n = Len(log) => rest = log
  BY <1>3
<1>6. /\ logs'[e] = rest /\ DOMAIN logs' = Executors
      /\ \A f \in Executors \ {e} : logs'[f] = logs[f]
  BY <1>1 DEF LogsFine
<1>7. NoAppend.stage = "none"
  BY DEF NoAppend
<1>8. \A w \in Writers : /\ ~Gone(w) => append'[w] = append[w]
                         /\ Gone(w) => append'[w] = NoAppend
  <2> HIDE DEF Gone
  <2> QED
    BY <1>2, Zenon
<1>9. forked \subseteq forked' /\ forked' \subseteq Executors
  BY <1>1
<1>10. \A r : Linked(r)' => Linked(r) /\ r.executor # e
  BY <1>7, <1>8 DEF Linked
<1>11. \A r : Linked(r) /\ r.executor # e => Linked(r)'
  BY <1>7, <1>8 DEF Linked
<1> HIDE DEF Gone, rest
<1>12. \A r \in history : Logged(r)' => Logged(r)
  <2> TAKE r \in history
  <2>1. r.executor \in Executors
    BY DEF HistoryFine, ReceiptFine
  <2>2. CASE r.executor = e
    BY <1>4, <1>6, <2>2 DEF Logged
  <2>3. CASE r.executor # e
    BY <1>6, <2>1, <2>3 DEF Logged
  <2> QED
    BY <2>2, <2>3
<1>13. HistoryFine'
  BY <1>2, <1>10 DEF HistoryFine, ReceiptFine
<1>14. LogsFine'
  <2>1. \A i \in DOMAIN rest : rest[i].executor = e
    BY <1>3, <1>4
  <2> QED
    BY <1>2, <1>4, <1>6, <2>1 DEF LogsFine
<1>15. AppendsFine'
  <2> SUFFICES ASSUME NEW v \in Writers PROVE AppendFine(v)'
    BY DEF AppendsFine
  <2>1. CASE Gone(v)
    BY <1>7, <1>8, <2>1 DEF AppendFine
  <2>2. CASE ~Gone(v)
    <3> DEFINE a == append[v]
    <3>0. append'[v] = a
      BY <1>7, <1>8, <2>2
    <3>1. append'[v] = a /\ AppendFine(v)
      BY <1>8, <2>2 DEF AppendsFine
    <3>2. CASE a.stage = "linked"
      <4>1. a.receipt \in history /\ a.receipt.executor \in Executors
        BY <3>1, <3>2 DEF AppendFine, HistoryFine, ReceiptFine
      <4>2. a.receipt.executor # e
        BY <2>2, <3>2 DEF Gone
      <4>3. ~Logged(a.receipt)'
        BY <1>2, <1>12, <3>1, <3>2, <4>1 DEF AppendFine
      <4>4. \A u \in Writers :
               append'[u].stage = "linked" /\ append'[u].receipt = a.receipt => u = v
        BY <1>7, <1>8, <3>1, <3>2 DEF AppendFine
      <4>5. logs'[a.receipt.executor] = logs[a.receipt.executor]
        BY <1>6, <4>1, <4>2
      <4>6. a.receipt.executor \notin forked' =>
               LET now == logs'[a.receipt.executor] IN
               a.after \in 0 .. Len(now) /\ a.receipt.previous = HashBefore(now, a.after)
        BY <1>9, <3>1, <3>2, <4>5 DEF AppendFine
      <4> QED
        BY <1>2, <3>0, <3>2, <4>1, <4>3, <4>4, <4>6 DEF AppendFine
    <3>3. CASE a.stage # "linked"
      BY <3>1, <3>3 DEF AppendFine
    <3> QED
      BY <3>2, <3>3
  <2> QED
    BY <2>1, <2>2
<1>16. LogsTrue'
  <2> SUFFICES ASSUME NEW f \in Executors, f \notin forked' PROVE LogTrue(f)'
    BY DEF LogsTrue
  <2>1. f \notin forked /\ LogTrue(f)
    BY <1>9 DEF LogsTrue
  <2>2. logs'[f] = logs[f]
    <3>1. CASE f = e
      <4>1. n = Len(log)
        BY <1>1, <1>4, <3>1
      <4> QED
        BY <1>5, <1>6, <3>1, <4>1
    <3> QED
      BY <1>6, <3>1
  <2>3. ASSUME NEW r \in history, r.executor = f PROVE (Logged(r) \/ Linked(r))'
    <3>1. Logged(r) \/ Linked(r)
      BY <2>1, <2>3 DEF LogTrue
    <3>2. Logged(r) => Logged(r)'
      BY <2>2, <2>3 DEF Logged
    <3>3. f = e => ~Linked(r)
      BY <1>1 DEF Linked
    <3> QED
      BY <1>11, <2>3, <3>1, <3>2, <3>3
  <2> QED
    BY <1>2, <2>1, <2>2, <2>3 DEF LogTrue
<1>17. restores' \in 0 .. MaxRestores /\ DOMAIN append' = Writers /\ NotarizedFine'
  BY <1>2, EvidenceAssumption DEF NotarizedFine
<1> QED
  BY <1>9, <1>13, <1>14, <1>15, <1>16, <1>17

(* So every step keeps the invariant, and so does a stutter.               *)
LEMMA EvidenceInvStep ==
    ASSUME EvidenceInv, [EvidenceNext]_evidenceVars
    PROVE  EvidenceInv'
<1>1. CASE UNCHANGED evidenceVars
  <2>1. UNCHANGED <<logs, append, history, notarized, restores, forked>>
    BY <1>1 DEF evidenceVars
  <2>2. HistoryFine' /\ LogsFine' /\ NotarizedFine'
    BY <2>1 DEF EvidenceInv, HistoryFine, ReceiptFine, LogsFine, NotarizedFine, Linked
  <2>3. AppendsFine'
    BY <2>1 DEF EvidenceInv, AppendsFine, AppendFine, Logged
  <2>4. LogsTrue'
    BY <2>1 DEF EvidenceInv, LogsTrue, LogTrue, Logged, Linked
  <2> QED
    BY <2>1, <2>2, <2>3, <2>4 DEF EvidenceInv
<1> QED
  BY <1>1, BeginAppendKeeps, LinkKeeps, AppendLinkedKeeps, RestoreKeeps, CheckpointKeeps
     DEF EvidenceNext

(* It holds in every state that is reached.                                *)
LEMMA AlwaysEvidenceInv == EvidenceSpec => []EvidenceInv
  BY EvidenceInvInit, EvidenceInvStep, PTL DEF EvidenceSpec

-----------------------------------------------------------------------------
(* What verifies is the log. *)

(* A set of naturals that is not empty has a least member.                 *)
LEMMA LeastThere ==
    ASSUME NEW T \in SUBSET Nat, T # {}
    PROVE  \E m \in T : \A y \in T : m <= y
<1> DEFINE less == OpToRel(<, Nat)
<1> HIDE DEF less
<1>1. IsWellFoundedOn(less, Nat)
  BY NatLessThanWellFounded DEF less
<1>2. PICK m \in T : \A y \in T : ~(<<y, m>> \in less)
  BY <1>1, WFMin
<1>3. \A y \in T : m <= y
  <2> SUFFICES ASSUME NEW y \in T, y < m PROVE FALSE
    OBVIOUS
  <2>1. <<y, m>> \in less
    BY DEF less, OpToRel
  <2> QED
    BY <1>2, <2>1
<1> QED
  BY <1>3

(* No receipt is mistaken for the start of a chain.                        *)
LEMMA ReceiptIsNoHash ==
    ASSUME HistoryFine, NEW r \in history
    PROVE  r # NoHash
<1>1. DOMAIN r = ReceiptFields
  BY DEF HistoryFine, ReceiptFine
<1>2. "use" \in ReceiptFields /\ DOMAIN NoHash = {}
  BY DEF ReceiptFields, NoHash
<1> QED
  BY <1>1, <1>2

(* A chain that verifies is the log up to its last receipt, if the log     *)
(* kept its order and that receipt is no longer under way.  Each receipt   *)
(* names the one before it, so it stands behind that one in the log too.   *)
LEMMA ChainIsLog ==
    ASSUME EvidenceInv, NEW n \in Nat, NEW chain \in [1 .. n -> history],
           ChainVerifies(chain, {}), chain # <<>>,
           chain[1].executor \notin forked, ~Linked(chain[Len(chain)])
    PROVE  Prefix(chain, logs[chain[1].executor])
<1> USE DEF EvidenceInv
<1> DEFINE e == chain[1].executor
           log == logs[e]
<1>1. n >= 1 /\ Len(chain) = n /\ DOMAIN chain = 1 .. n
  OBVIOUS
<1>2. /\ \A i \in 1 .. n : chain[i] \in history /\ ReceiptFine(chain[i]) /\ chain[i] # NoHash
      /\ \A i \in 1 .. n : chain[i].previous = IF i = 1 THEN NoHash ELSE chain[i - 1]
  BY <1>1, ReceiptIsNoHash DEF HistoryFine, ChainVerifies
<1>3. \A i \in 1 .. n : i # 1 =>
         /\ i - 1 \in 1 .. n /\ chain[i].previous = chain[i - 1]
         /\ chain[i - 1].executor = chain[i].executor /\ ~Linked(chain[i - 1])
  <2> SUFFICES ASSUME NEW i \in 1 .. n, i # 1
               PROVE  /\ i - 1 \in 1 .. n /\ chain[i].previous = chain[i - 1]
                      /\ chain[i - 1].executor = chain[i].executor /\ ~Linked(chain[i - 1])
    OBVIOUS
  <2>1. i - 1 \in 1 .. n /\ chain[i].previous = chain[i - 1]
    BY <1>2
  <2> QED
    BY <1>2, <2>1 DEF ReceiptFine
<1>4. \A i \in 1 .. n : ~Linked(chain[i])
  <2> TAKE i \in 1 .. n
  <2>1. CASE i = n
    BY <1>1, <2>1
  <2>2. CASE i # n
    <3>1. i + 1 \in 1 .. n /\ i + 1 # 1 /\ (i + 1) - 1 = i
      BY <2>2
    <3> QED
      BY <1>3, <3>1
  <2> QED
    BY <2>1, <2>2
<1>5. /\ e \in Executors \ forked
      /\ log \in Seq(history) /\ ChainVerifies(log, {e})
      /\ \A r \in history : r.executor = e => Logged(r) \/ Linked(r)
  <2>1. e \in Executors
    BY <1>1, <1>2 DEF ReceiptFine
  <2> QED
    BY <2>1 DEF LogsFine, LogsTrue, LogTrue
<1>6. \A k \in DOMAIN log :
         /\ log[k] \in history /\ log[k] # NoHash /\ k \in Nat
         /\ log[k].previous = IF k = 1 THEN NoHash ELSE log[k - 1]
         /\ k # 1 => k - 1 \in DOMAIN log
  <2>1. DOMAIN log = 1 .. Len(log) /\ Len(log) \in Nat /\ \A k \in DOMAIN log : log[k] \in history
    BY <1>5
  <2>2. \A k \in DOMAIN log : log[k].previous = IF k = 1 THEN NoHash ELSE log[k - 1]
    BY <1>5 DEF ChainVerifies
  <2>3. \A k \in DOMAIN log : k \in Nat /\ (k # 1 => k - 1 \in DOMAIN log)
    BY <2>1
  <2> QED
    BY <2>1, <2>2, <2>3, ReceiptIsNoHash
<1>7. \A j, k \in DOMAIN log : log[j].use = log[k].use => j = k
  <2> TAKE j, k \in DOMAIN log
  <2>1. j \in Nat /\ k \in Nat /\ j >= 1 /\ k >= 1
    BY <1>5
  <2>2. (\A x \in 1 .. k - 1 : log[x].use # log[k].use)
        /\ \A x \in 1 .. j - 1 : log[x].use # log[j].use
    BY <1>5 DEF ChainVerifies
  <2>3. j < k => j \in 1 .. k - 1
    BY <2>1
  <2>4. k < j => k \in 1 .. j - 1
    BY <2>1
  <2> HIDE DEF log
  <2> QED
    BY <2>1, <2>2, <2>3, <2>4
<1> DEFINE OfLog(i) == chain[i].executor = e /\ i \in DOMAIN log /\ log[i] = chain[i]
<1>8. \A i \in 1 .. n : chain[i].executor = e =>
         \E k \in DOMAIN log : log[k] = chain[i]
  BY <1>2, <1>4, <1>5 DEF Logged
<1> HIDE DEF log
<1>9. OfLog(1)
  <2>1. PICK k \in DOMAIN log : log[k] = chain[1]
    BY <1>1, <1>8
  <2>2. log[k].previous = NoHash
    BY <1>1, <1>2, <2>1
  <2>3. k = 1
    BY <1>6, <2>2
  <2> QED
    BY <2>1, <2>3
<1>10. ASSUME NEW i \in 1 .. n, i # 1, OfLog(i - 1) PROVE OfLog(i)
  <2>1. chain[i].executor = e /\ chain[i].previous = log[i - 1] /\ log[i - 1] \in history
        /\ i - 1 \in DOMAIN log
    BY <1>3, <1>6, <1>10
  <2>2. PICK k \in DOMAIN log : log[k] = chain[i]
    BY <1>8, <2>1
  <2>3. k # 1 /\ log[k - 1] = log[i - 1] /\ k - 1 \in DOMAIN log /\ k \in Nat
    BY <1>6, <2>1, <2>2
  <2>4. k - 1 = i - 1
    BY <1>7, <2>1, <2>3
  <2>5. k = i
    BY <2>3, <2>4
  <2> QED
    BY <2>1, <2>2, <2>5
<1> HIDE DEF OfLog
<1>11. \A i \in 1 .. n : OfLog(i)
  <2> DEFINE T == {i \in 1 .. n : ~OfLog(i)}
  <2> SUFFICES ASSUME T # {} PROVE FALSE
    OBVIOUS
  <2>1. T \in SUBSET Nat
    OBVIOUS
  <2>2. PICK m \in T : \A y \in T : m <= y
    <3> HIDE DEF T
    <3> QED
      BY <2>1, LeastThere
  <2>3. m \in 1 .. n /\ ~OfLog(m) /\ m # 1
    BY <1>9, <2>2
  <2>4. m - 1 \in 1 .. n /\ ~(m <= m - 1)
    BY <2>3
  <2>5. OfLog(m - 1)
    BY <2>2, <2>4
  <2> QED
    BY <1>10, <2>3, <2>5
<1>12. Len(log) \in Nat /\ DOMAIN log = 1 .. Len(log)
  BY <1>5
<1>13. n <= Len(log)
  BY <1>1, <1>11, <1>12 DEF OfLog
<1> QED
  BY <1>1, <1>11, <1>13 DEF OfLog, Prefix, log

-----------------------------------------------------------------------------
(* The Go verifier *)

(* Counted, the capabilities are as many as the receipts when no two are   *)
(* the same.                                                               *)
LEMMA EachUseOnce ==
    ASSUME NEW S, NEW n \in Nat, NEW chain \in [1 .. n -> S]
    PROVE  Cardinality({chain[i].use : i \in DOMAIN chain}) = Len(chain)
              <=> \A i \in DOMAIN chain : \A j \in 1 .. i - 1 : chain[j].use # chain[i].use
<1> DEFINE theirUses == {chain[i].use : i \in 1 .. n}
           use == [i \in 1 .. n |-> chain[i].use]
<1>1. DOMAIN chain = 1 .. n /\ Len(chain) = n
  OBVIOUS
<1>2. IsFiniteSet(1 .. n) /\ Cardinality(1 .. n) = n
  BY FS_Interval
<1>3. use \in Surjection(1 .. n, theirUses)
  BY DEF Surjection
<1>4. Cardinality(theirUses) = n <=> use \in Injection(1 .. n, theirUses)
  <2> HIDE DEF use, theirUses
  <2> QED
    BY <1>2, <1>3, FS_Surjection
<1>5. use \in Injection(1 .. n, theirUses)
         <=> \A i, j \in 1 .. n : chain[i].use = chain[j].use => i = j
  BY DEF Injection, IsInjective
<1>6. (\A i, j \in 1 .. n : chain[i].use = chain[j].use => i = j)
         <=> \A i \in 1 .. n : \A j \in 1 .. i - 1 : chain[j].use # chain[i].use
  <2>1. ASSUME \A i, j \in 1 .. n : chain[i].use = chain[j].use => i = j,
               NEW i \in 1 .. n, NEW j \in 1 .. i - 1
        PROVE  chain[j].use # chain[i].use
    <3>1. j \in 1 .. n /\ i # j
      OBVIOUS
    <3> QED
      BY <2>1, <3>1
  <2>2. ASSUME \A i \in 1 .. n : \A j \in 1 .. i - 1 : chain[j].use # chain[i].use,
               NEW i \in 1 .. n, NEW j \in 1 .. n, chain[i].use = chain[j].use
        PROVE  i = j
    <3>1. i < j => i \in 1 .. j - 1
      OBVIOUS
    <3>2. j < i => j \in 1 .. i - 1
      OBVIOUS
    <3> QED
      BY <2>2, <3>1, <3>2
  <2> QED
    BY <2>1, <2>2
<1> QED
  BY <1>1, <1>4, <1>5, <1>6

(* The Go verifier counts capabilities, the Python one looks back for      *)
(* each.                                                                   *)
LEMMA GoAgrees ==
    ASSUME NEW S, NEW n \in Nat, NEW chain \in [1 .. n -> S], NEW trust
    PROVE  ChainVerifies(chain, trust) <=> GoChainVerifies(chain, trust)
<1>1. Cardinality({chain[i].use : i \in DOMAIN chain}) = Len(chain)
         <=> \A i \in DOMAIN chain : \A j \in 1 .. i - 1 : chain[j].use # chain[i].use
  BY EachUseOnce
<1>2. (trust # {} => {chain[i].executor : i \in DOMAIN chain} \subseteq trust)
         <=> \A i \in DOMAIN chain : trust # {} => chain[i].executor \in trust
  OBVIOUS
<1> DEFINE Once == \A i \in DOMAIN chain : \A j \in 1 .. i - 1 : chain[j].use # chain[i].use
           Trusted == \A i \in DOMAIN chain : trust # {} => chain[i].executor \in trust
           InOrder == \A i \in DOMAIN chain :
                         chain[i].previous = IF i = 1 THEN NoHash ELSE chain[i - 1]
<1>3. ChainVerifies(chain, trust) <=> Once /\ Trusted /\ InOrder
  BY Zenon DEF ChainVerifies
<1>4. GoChainVerifies(chain, trust) <=> Once /\ Trusted /\ InOrder
  BY <1>1, <1>2, Zenon DEF GoChainVerifies
<1> QED
  BY <1>3, <1>4

-----------------------------------------------------------------------------
(* Only a receipt that was signed shows obligations met.                   *)
LEMMA CompliantHasReceipt ==
    ASSUME NEW n \in Nat, NEW chain \in [1 .. n -> history], NEW trust, NEW use,
           Obligations[use] # {}, Compliant(use, chain, trust)
    PROVE  \E r \in history : /\ r.executor \in trust /\ r.use = use
                              /\ \A o \in Obligations[use] : Fulfilled(o, r)
<1> DEFINE found == Matched(chain, use)
           one == [f \in {"capability_id"} |-> use]
<1>1. /\ trust # {} /\ found # {} /\ ChainVerifies(chain, trust)
      /\ \A r \in found : \A o \in Obligations[use] : Fulfilled(o, r)
  BY Zenon DEF Compliant
<1>2. ASSUME NEW r \in found PROVE \E i \in DOMAIN chain : r = chain[i] /\ r.use = use
  <2>1. PICK i \in DOMAIN Query(chain, one) : r = Query(chain, one)[i]
    BY <1>2 DEF Matched
  <2>2. i \in DOMAIN chain /\ r = chain[i] /\ Meets(chain[i], one)
    BY <2>1 DEF Query
  <2>3. chain[i].use = use
    <3>1. "capability_id" \in DOMAIN one \ {"since", "until"} /\ one["capability_id"] = use
      OBVIOUS
    <3> HIDE DEF one
    <3>2. Field(chain[i], "capability_id") = use
      BY <2>2, <3>1 DEF Meets
    <3> QED
      BY <3>2 DEF Field
  <2> QED
    BY <2>2, <2>3
<1> HIDE DEF found
<1>3. PICK r \in found : TRUE
  BY <1>1
<1>4. PICK i \in DOMAIN chain : r = chain[i] /\ r.use = use
  BY <1>2
<1>5. r \in history /\ r.executor \in trust
  BY <1>1, <1>4 DEF ChainVerifies
<1> QED
  BY <1>1, <1>4, <1>5

-----------------------------------------------------------------------------
(* The counts of a packet are those of the receipts in it.                 *)
LEMMA PacketsAddUp ==
    ASSUME HistoryFine, NEW n \in Nat, NEW chain \in [1 .. n -> history],
           ChainVerifies(chain, {}), NEW filter \in Filters
    PROVE  PacketAddsUp(chain, filter)
<1> DEFINE Chosen(f) == {j \in DOMAIN chain : Meets(chain[j], f)}
           receipts == Query(chain, filter)
           counts == Summary(chain).byAction
           Action(i) == Deeds[chain[i].use].action
<1>1. DOMAIN chain = 1 .. n /\ Len(chain) = n /\ IsFiniteSet(1 .. n) /\ Cardinality(1 .. n) = n
  BY FS_Interval
<1>2. \A f : DOMAIN Query(chain, f) = Chosen(f)
  BY DEF Query
<1>3. \A i \in DOMAIN receipts : i \in 1 .. n /\ receipts[i] = chain[i]
  BY <1>1 DEF Query
<1>4. /\ DOMAIN counts = {Action(i) : i \in DOMAIN chain}
      /\ \A a \in DOMAIN counts : counts[a] = Cardinality({i \in DOMAIN chain : Action(i) = a})
      /\ Summary(chain).total = n
  BY <1>1 DEF Summary
<1> HIDE DEF receipts, counts
<1>5. ASSUME NEW i \in DOMAIN receipts, NEW j \in DOMAIN receipts,
             receipts[i].use = receipts[j].use
      PROVE  i = j
  <2>1. i \in 1 .. n /\ j \in 1 .. n /\ chain[i].use = chain[j].use
    BY <1>3, <1>5
  <2>2. i < j => i \in 1 .. j - 1
    BY <2>1
  <2>3. j < i => j \in 1 .. i - 1
    BY <2>1
  <2>4. (\A x \in 1 .. i - 1 : chain[x].use # chain[i].use)
        /\ \A x \in 1 .. j - 1 : chain[x].use # chain[j].use
    BY <1>1, <2>1 DEF ChainVerifies
  <2> QED
    BY <2>1, <2>2, <2>3, <2>4
<1>6. ASSUME DOMAIN filter = {"action"}
      PROVE  Cardinality(DOMAIN receipts) =
                IF filter["action"] \in DOMAIN counts THEN counts[filter["action"]] ELSE 0
  <2> DEFINE a == filter["action"]
  <2>1. \A r : Meets(r, filter) <=> Deeds[r.use]["action"] = a
    BY <1>6 DEF Meets, Field
  <2>2. DOMAIN receipts = {i \in DOMAIN chain : Action(i) = a}
    BY <1>2, <2>1 DEF receipts
  <2>3. CASE a \in DOMAIN counts
    BY <1>4, <2>2, <2>3
  <2>4. CASE a \notin DOMAIN counts
    <3>1. DOMAIN receipts = {}
      BY <1>4, <2>2, <2>4
    <3> QED
      BY <2>4, <3>1, FS_EmptySet
  <2> QED
    BY <2>3, <2>4
<1>7. ASSUME DOMAIN filter = {"since"}
      PROVE  LET before == [f \in {"until"} |-> filter["since"] - 1] IN
             Cardinality(DOMAIN receipts) + Cardinality(DOMAIN Query(chain, before)) = n
  <2> DEFINE since == filter["since"]
             before == [f \in {"until"} |-> since - 1]
             A == Chosen(filter)
             B == Chosen(before)
  <2>1. since \in Int
    BY <1>7, EvidenceAssumption
  <2>2. \A r : Meets(r, filter) <=> r.started >= since
    BY <1>7 DEF Meets
  <2>3. DOMAIN before = {"until"} /\ before["until"] = since - 1
    OBVIOUS
  <2> HIDE DEF since, before
  <2>4. \A r : Meets(r, before) <=> r.started <= since - 1
    BY <2>3 DEF Meets
  <2>5. \A i \in 1 .. n : chain[i].started \in Nat
    BY DEF HistoryFine, ReceiptFine
  <2>6. \A i \in 1 .. n : chain[i].started >= since <=> ~(chain[i].started <= since - 1)
    BY <2>1, <2>5
  <2>7. A \cup B = 1 .. n /\ A \cap B = {}
    BY <1>1, <2>2, <2>4, <2>6
  <2>8. DOMAIN receipts = A /\ DOMAIN Query(chain, before) = B
    BY <1>2 DEF receipts
  <2>9. A \in SUBSET (1 .. n) /\ B \in SUBSET (1 .. n)
    BY <1>1
  <2> HIDE DEF A, B
  <2>10. IsFiniteSet(A) /\ IsFiniteSet(B)
    BY <1>1, <2>9, FS_Subset
  <2>11. Cardinality(A) \in Nat /\ Cardinality(B) \in Nat
    BY <2>10, FS_CardinalityType
  <2>12. n = Cardinality(A) + Cardinality(B) - 0
    <3>1. Cardinality(A \cup B) = Cardinality(A) + Cardinality(B) - Cardinality(A \cap B)
      BY <2>10, FS_Union
    <3>2. Cardinality(A \cap B) = 0
      BY <2>7, FS_EmptySet
    <3>3. Cardinality(A \cup B) = n
      BY <1>1, <2>7
    <3> QED
      BY <3>1, <3>2, <3>3
  <2> QED
    BY <2>8, <2>11, <2>12 DEF before, since
<1>8. Packet(chain, filter).receipts = receipts /\ Packet(chain, filter).summary = Summary(chain)
  BY DEF Packet, receipts
<1> QED
  BY <1>4, <1>5, <1>6, <1>7, <1>8 DEF PacketAddsUp, counts

-----------------------------------------------------------------------------
(* Each part of the property, from the invariant.                          *)
LEMMA EvidenceHolds == EvidenceInv => EvidenceIsHistory
<1> SUFFICES ASSUME EvidenceInv PROVE EvidenceIsHistory
  OBVIOUS
<1> USE DEF EvidenceInv
<1>1. ASSUME NEW e \in Executors \ forked
      PROVE  /\ ChainVerifies(logs[e], {e})
             /\ \A chain \in notarized :
                   chain # <<>> /\ chain[1].executor = e => Prefix(chain, logs[e])
  BY DEF LogsTrue, LogTrue
<1>2. ASSUME NEW chain \in Handed
      PROVE  /\ \A trust \in AuditorTrusts :
                   ChainVerifies(chain, trust) <=> GoChainVerifies(chain, trust)
             /\ ChainVerifies(chain, {}) =>
                   /\ chain # <<>> =>
                         LET e == chain[1].executor IN
                         \/ e \in forked
                         \/ Prefix(chain, logs[e])
                         \/ \E w \in Writers : append[w].stage = "linked"
                                               /\ append[w].receipt = chain[Len(chain)]
                   /\ \A trust \in AuditorTrusts : \A use \in Uses :
                         Obligations[use] # {} /\ Compliant(use, chain, trust) =>
                             \E r \in history :
                                 /\ r.executor \in trust /\ r.use = use
                                 /\ \A o \in Obligations[use] : Fulfilled(o, r)
                   /\ \A filter \in Filters : PacketAddsUp(chain, filter)
  <2>1. PICK n \in Nat : chain \in [1 .. n -> history]
    BY EvidenceAssumption DEF Handed
  <2>2. \A trust \in AuditorTrusts : ChainVerifies(chain, trust) <=> GoChainVerifies(chain, trust)
    BY <2>1, GoAgrees
  <2>3. ChainVerifies(chain, {}) /\ chain # <<>> =>
           \/ chain[1].executor \in forked
           \/ Prefix(chain, logs[chain[1].executor])
           \/ Linked(chain[Len(chain)])
    BY <2>1, ChainIsLog
  <2>4. ASSUME NEW trust \in AuditorTrusts, NEW use \in Uses,
               Obligations[use] # {} /\ Compliant(use, chain, trust)
        PROVE  \E r \in history : /\ r.executor \in trust /\ r.use = use
                                  /\ \A o \in Obligations[use] : Fulfilled(o, r)
    BY <2>1, <2>4, CompliantHasReceipt
  <2>5. ChainVerifies(chain, {}) => \A filter \in Filters : PacketAddsUp(chain, filter)
    BY <2>1, PacketsAddUp
  <2> QED
    BY <2>2, <2>3, <2>4, <2>5, Zenon DEF Linked
<1> QED
  BY <1>1, <1>2, Zenon DEF EvidenceIsHistory

(* Logs, appends, receipts and checkpoints keep their shapes.              *)
THEOREM EvidenceTypeCorrect == EvidenceSpec => []EvidenceTypeOK
  BY AlwaysEvidenceInv, EvidenceTyped, PTL

(* Receipts prove what happened, for any number of threads, executors and  *)
(* restarts, and for whatever an auditor is handed of what was signed.     *)
THEOREM ReceiptsAreEvidence == EvidenceSpec => []EvidenceIsHistory
  BY AlwaysEvidenceInv, EvidenceHolds, PTL

-----------------------------------------------------------------------------
(***************************************************************************)
(* The parts together.                                                     *)
(***************************************************************************)

(* The parts share no state: a behaviour of all of them is one of each.    *)
THEOREM PartsAreAlone == Spec => CacheSpec /\ DelegationSpec /\ EvidenceSpec
<1>1. Init => CacheInit /\ DelegationInit /\ EvidenceInit
  BY DEF Init
<1>2. [Next]_<<part, cacheVars, delegationVars, evidenceVars>> =>
          [CacheNext]_cacheVars /\ [DelegationNext]_delegationVars /\ [EvidenceNext]_evidenceVars
  BY Zenon DEF Next
<1> QED
  BY <1>1, <1>2, PTL DEF Spec, CacheSpec, DelegationSpec, EvidenceSpec

(* The cache, the capabilities and the logs keep their types.              *)
THEOREM AuthorizationTypeCorrect == Spec => []AuthorizationTypeOK
<1>1. []CacheTypeOK /\ []DelegationTypeOK /\ []EvidenceTypeOK => []AuthorizationTypeOK
  <2>1. CacheTypeOK /\ DelegationTypeOK /\ EvidenceTypeOK => AuthorizationTypeOK
    BY DEF AuthorizationTypeOK
  <2> QED
    BY <2>1, PTL
<1> QED
  BY <1>1, PartsAreAlone, CacheTypeCorrect, DelegationTypeCorrect, EvidenceTypeCorrect
=============================================================================
