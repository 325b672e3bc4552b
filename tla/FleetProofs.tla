------------------------------ MODULE FleetProofs ------------------------------
(***************************************************************************)
(* The parts around the gates (MC_Fleet), for a fleet of any size and any  *)
(* number of objects, threads, names and documents: policies and           *)
(* revocations sent to gates in signed bundles, the state file of a        *)
(* registry, the simulated device, the trusted clock, the registries of    *)
(* names and of things, and what is disclosed of documents.  They share no *)
(* state; each part has its own inductive invariant.                       *)
(***************************************************************************)
EXTENDS MC_Fleet, WellFoundedInduction, FunctionTheorems, FiniteSetTheorems, TLAPS

-----------------------------------------------------------------------------
(* A set of naturals that is not empty has a least member.                 *)
LEMMA LeastThere ==
    ASSUME NEW T \in SUBSET Nat, T # {}
    PROVE  \E m \in T : \A y \in T : m <= y
<1> DEFINE less == OpToRel(<, Nat)
<1> HIDE DEF less
<1>1. IsWellFoundedOn(less, Nat)
  BY NatLessThanWellFounded DEF less
<1>2. PICK m \in T : \A y \in T : ~(<<y, m>> \in less)
  BY <1>1, WFMin
<1>3. \A y \in T : m <= y
  <2> SUFFICES ASSUME NEW y \in T, y < m PROVE FALSE
    OBVIOUS
  <2>1. <<y, m>> \in less
    BY DEF less, OpToRel
  <2> QED
    BY <1>2, <2>1
<1> QED
  BY <1>3

(* No receipt is mistaken for the start of a chain.                        *)

-----------------------------------------------------------------------------
(***************************************************************************)
(* Policy bundles in a fleet of any size, for any bundles, windows and     *)
(* revocations: each gate decides for itself what it holds, no gate goes   *)
(* back to an older version unless the one it ran was revoked or expired,  *)
(* one version means one set of rules, and a report keeps its word.        *)
(*                                                                         *)
(* The version a gate runs is the highest of a set, so there must be one:  *)
(* versions are bounded in every gate, and the least distance to the bound *)
(* exists since < is well-founded on the naturals.  A gate's bundles and   *)
(* revocations only grow and time does not go back; what a gate runs can   *)
(* then only be given up for the two reasons the property names.           *)
(***************************************************************************)

Dated(p) == p.version \in Int /\ p.from \in Int /\ p.until \in Int

(* What the authority signed, and what the gates hold of it. *)
Signed ==
    /\ clock \in Nat /\ last.version \in Nat
    /\ \A e \in published : Dated(e.payload) /\ e.payload.version >= 1

Holdings ==
    /\ DOMAIN bundles = Gates /\ bundles = [g \in Gates |-> bundles[g]]
    /\ DOMAIN withdrawn = Gates /\ withdrawn = [g \in Gates |-> withdrawn[g]]
    /\ \A g \in Gates : \A p \in bundles[g] : Dated(p)
    /\ \A g \in Gates : \E m \in Nat : \A p \in bundles[g] : p.version <= m
    /\ \A g \in Gates : \A v \in withdrawn[g] : v \in Int

Held == Signed /\ Holdings /\ GatesDecideForThemselves

-----------------------------------------------------------------------------
(* The highest version of a set of payloads. *)

Best(S) == IF S = {} THEN NoPayload
           ELSE CHOOSE p \in S : \A q \in S : q.version <= p.version

LEMMA HighestExists ==
    ASSUME NEW S, S # {}, \A p \in S : p.version \in Int,
           NEW m \in Nat, \A p \in S : p.version <= m
    PROVE  \E p \in S : \A q \in S : q.version <= p.version
<1> DEFINE less == OpToRel(<, Nat)
           T == {m - p.version : p \in S}
<1>1. T \subseteq Nat /\ T # {}
  OBVIOUS
<1>2. PICK x \in T : \A y \in T : ~(<<y, x>> \in less)
  <2> HIDE DEF T, less
  <2>1. IsWellFoundedOn(less, Nat)
    BY NatLessThanWellFounded DEF less
  <2> QED
    BY <1>1, <2>1, WFMin
<1>3. \A y \in T : y >= x
  <2> HIDE DEF T, less
  <2>1. x \in Nat /\ \A y \in T : y \in Nat
    BY <1>1, <1>2
  <2>2. ASSUME NEW y \in T, y < x PROVE FALSE
    <3>1. <<y, x>> \in less
      BY <2>1, <2>2 DEF less, OpToRel
    <3> QED
      BY <1>2, <3>1
  <2> QED
    BY <2>1, <2>2
<1>4. PICK p \in S : x = m - p.version
  OBVIOUS
<1>5. ASSUME NEW q \in S PROVE q.version <= p.version
  <2>1. m - q.version >= m - p.version
    BY <1>3, <1>4
  <2> QED
    BY <2>1
<1> QED
  BY <1>5

LEMMA BestIsHighest ==
    ASSUME NEW S, \A p \in S : p.version \in Int,
           NEW m \in Nat, \A p \in S : p.version <= m
    PROVE  /\ S = {} => Best(S).version = 0
           /\ S # {} => Best(S) \in S /\ \A q \in S : q.version <= Best(S).version
<1>1. CASE S = {}
  BY <1>1 DEF Best, NoPayload
<1>2. CASE S # {}
  <2>1. \E p \in S : \A q \in S : q.version <= p.version
    BY <1>2, HighestExists
  <2> QED
    BY <1>2, <2>1 DEF Best
<1> QED
  BY <1>1, <1>2

LEMMA CurrentIsBest == \A g, t : Current(g, t) = Best(Candidates(g, t))
  BY DEF Current, Best

(* What a gate runs is the best of what it holds, and 0 is the version of  *)
(* nothing.                                                                *)
LEMMA CurrentFacts ==
    ASSUME Held, NEW g \in Gates
    PROVE  /\ Current(g, clock).version \in Nat
           /\ \A p \in Candidates(g, clock) : p.version <= Current(g, clock).version
           /\ Current(g, clock).version > 0 => Current(g, clock) \in Candidates(g, clock)
<1> DEFINE S == Candidates(g, clock)
<1>1. PICK m \in Nat : \A p \in bundles[g] : p.version <= m
  BY DEF Held, Holdings
<1>2. \A p \in S : p.version \in Int /\ p.version >= 1 /\ p.version <= m
  BY <1>1 DEF Held, Holdings, Candidates, Dated, GatesDecideForThemselves, WellFormed
<1>3. Current(g, clock) = Best(S)
  BY CurrentIsBest
<1> HIDE DEF S
<1>4. /\ S = {} => Best(S).version = 0
      /\ S # {} => Best(S) \in S /\ \A q \in S : q.version <= Best(S).version
  BY <1>2, BestIsHighest
<1>5. CASE S = {}
  BY <1>3, <1>4, <1>5 DEF S
<1>6. CASE S # {}
  BY <1>2, <1>3, <1>4, <1>6 DEF S
<1> QED
  BY <1>5, <1>6

-----------------------------------------------------------------------------
(* What every step keeps. *)

LEMMA HeldInit == FleetInit => Held
<1> SUFFICES ASSUME FleetInit PROVE Held
  OBVIOUS
<1> USE DEF FleetInit
<1>1. Signed
  BY DEF Signed, NoPayload
<1>2. \A g \in Gates : bundles[g] = {} /\ withdrawn[g] = {}
  OBVIOUS
<1>3. Holdings
  BY <1>2 DEF Holdings
<1> QED
  BY <1>1, <1>2, <1>3 DEF Held, GatesDecideForThemselves

LEMMA ReceivedDated ==
    ASSUME Signed, NEW e \in Received PROVE Dated(e.payload)
  BY FleetAssumption DEF Signed, Received, Dated

(* A step of the authority. *)
LEMMA PublishKeepsSigned == ASSUME Held, Publish PROVE Signed'
<1>1. PICK rules \in Publishable, w \in Windows,
           v \in {NextVersion} \cup ChosenVersions :
         LET body == [issuer |-> Kid, version |-> v, rules |-> rules, digest |-> rules,
                      prev |-> IF last = NoPayload THEN NoDigest ELSE last.digest,
                      issued |-> clock, from |-> clock + w[1],
                      until |-> clock + w[1] + w[2],
                      stamps |-> "rfc3339", loose |-> FALSE] IN
         /\ last' = body
         /\ published' = published \cup {[payload |-> body, kid |-> Kid, intact |-> TRUE]}
  BY DEF Publish
<1> DEFINE body == [issuer |-> Kid, version |-> v, rules |-> rules, digest |-> rules,
                    prev |-> IF last = NoPayload THEN NoDigest ELSE last.digest,
                    issued |-> clock, from |-> clock + w[1],
                    until |-> clock + w[1] + w[2],
                    stamps |-> "rfc3339", loose |-> FALSE]
<1>2. /\ last' = body /\ UNCHANGED clock
      /\ published' = published \cup {[payload |-> body, kid |-> Kid, intact |-> TRUE]}
  BY <1>1 DEF Publish
<1>3. clock \in Nat /\ last.version \in Nat
  BY DEF Held, Signed
<1>4. v \in Nat /\ v >= 1
  BY <1>3, FleetAssumption DEF NextVersion
<1>5. w[1] \in Int /\ w[2] \in Int
  BY FleetAssumption
<1>6. Dated(body) /\ body.version >= 1 /\ body.version \in Nat
  BY <1>3, <1>4, <1>5 DEF Dated
<1> HIDE DEF body
<1> QED
  BY <1>2, <1>3, <1>6 DEF Held, Signed

(* activate, by an operator or by the distributor. *)
LEMMA StoreKeepsHeld ==
    ASSUME Held, NEW g \in Gates, NEW e \in Received, Activates(g, e), Store(g, e),
           UNCHANGED withdrawn
    PROVE  Holdings' /\ GatesDecideForThemselves'
<1>1. Dated(e.payload) /\ WellFormed(e.payload) /\ TrustedBy(Trusts[g], e.payload.issuer)
  BY ReceivedDated DEF Held, Activates, Verifies
<1>2. /\ bundles'[g] = bundles[g] \cup {e.payload}
      /\ \A h \in Gates : h # g => bundles'[h] = bundles[h]
      /\ DOMAIN bundles' = Gates /\ bundles' = [h \in Gates |-> bundles'[h]]
  BY DEF Held, Holdings, Store
<1>3. \A h \in Gates : \A p \in bundles'[h] : Dated(p)
  BY <1>1, <1>2 DEF Held, Holdings
<1>4. ASSUME NEW h \in Gates PROVE \E m \in Nat : \A p \in bundles'[h] : p.version <= m
  <2>1. PICK m \in Nat : \A p \in bundles[h] : p.version <= m
    BY DEF Held, Holdings
  <2> DEFINE n == IF e.payload.version <= m THEN m ELSE e.payload.version
  <2>2. n \in Nat /\ m <= n /\ e.payload.version <= n
    BY <1>1 DEF Dated
  <2> HIDE DEF n
  <2>3. \A p \in bundles'[h] : p.version <= n
    <3> SUFFICES ASSUME NEW p \in bundles'[h] PROVE p.version <= n
      OBVIOUS
    <3>1. CASE p = e.payload
      BY <2>2, <3>1
    <3>2. CASE p \in bundles[h]
      BY <1>3, <2>1, <2>2, <3>2 DEF Dated
    <3> QED
      BY <1>2, <3>1, <3>2
  <2> QED
    BY <2>2, <2>3
<1>5. Holdings'
  BY <1>2, <1>3, <1>4 DEF Held, Holdings
<1>6. GatesDecideForThemselves'
  <2> SUFFICES ASSUME NEW h \in Gates, NEW p \in bundles'[h]
               PROVE  /\ TrustedBy(Trusts[h], p.issuer) /\ WellFormed(p)
                      /\ \A q \in bundles'[h] : q.version = p.version => q = p
    BY DEF GatesDecideForThemselves
  <2>1. CASE h # g
    BY <1>2, <2>1 DEF Held, GatesDecideForThemselves
  <2>2. CASE h = g
    BY <1>1, <1>2, <2>2 DEF Held, GatesDecideForThemselves, Activates
  <2> QED
    BY <2>1, <2>2
<1> QED
  BY <1>5, <1>6

(* The distribution in progress is of a bundle that came, and has a gate   *)
(* to go to.                                                               *)
JobShape ==
    /\ job # Idle =>
          job \in [stage : {"look", "activate", "ack", "done"}, env : Received,
                  before : Nat, acks : Seq(Ack)]
    /\ Running => Len(job.acks) < Len(GateOrder)
    /\ job.stage = "done" => Len(job.acks) = Len(GateOrder)

LEMMA OrderFacts ==
    /\ Len(GateOrder) \in Nat \ {0}
    /\ \A i \in 1 .. Len(GateOrder) : GateOrder[i] \in Gates
    /\ \A g \in Gates : \E i \in 1 .. Len(GateOrder) : g = GateOrder[i]
  BY FleetAssumption DEF Gates

LEMMA RunningFacts ==
    ASSUME JobShape, Running
    PROVE  /\ job # Idle /\ job.env \in Received /\ job.before \in Nat
           /\ job.acks \in Seq(Ack) /\ Len(job.acks) \in Nat
           /\ Len(job.acks) + 1 \in 1 .. Len(GateOrder)
           /\ Here \in Gates
<1>1. job # Idle
  BY DEF Running, Idle
<1>2. /\ job.env \in Received /\ job.before \in Nat /\ job.acks \in Seq(Ack)
  BY <1>1 DEF JobShape
<1>3. Len(job.acks) \in Nat /\ Len(job.acks) < Len(GateOrder)
  BY <1>2 DEF JobShape
<1>4. Len(job.acks) + 1 \in 1 .. Len(GateOrder)
  BY <1>3, OrderFacts
<1> QED
  BY <1>1, <1>2, <1>3, <1>4, OrderFacts DEF Here

LEMMA AcknowledgeFacts ==
    ASSUME JobShape, Running, NEW applied \in BOOLEAN, NEW before \in Nat, NEW after \in Nat,
           Acknowledge(applied, before, after)
    PROVE  /\ job'.env = job.env /\ job'.before = 0 /\ job' # Idle
           /\ job'.acks \in Seq(Ack) /\ Len(job'.acks) = Len(job.acks) + 1
           /\ job'.stage \in {"look", "done"}
           /\ job'.stage = "done" <=> Len(job'.acks) = Len(GateOrder)
           /\ job' \in [stage : {"look", "activate", "ack", "done"}, env : Received,
                        before : Nat, acks : Seq(Ack)]
<1> DEFINE ack == [gate |-> Here, applied |-> applied, before |-> before, after |-> after]
           acks == Append(job.acks, ack)
           stage == IF Len(acks) = Len(GateOrder) THEN "done" ELSE "look"
<1>1. ack \in Ack /\ job.acks \in Seq(Ack)
  BY RunningFacts DEF Ack
<1>2. job' = [job EXCEPT !.acks = acks, !.before = 0, !.stage = stage]
  BY DEF Acknowledge
<1> HIDE DEF ack
<1>3. acks \in Seq(Ack) /\ Len(acks) = Len(job.acks) + 1
  BY <1>1
<1>4. job \in [stage : {"look", "activate", "ack", "done"}, env : Received,
               before : Nat, acks : Seq(Ack)]
  BY RunningFacts DEF JobShape
<1> HIDE DEF acks
<1>5. stage \in {"look", "done"} /\ (stage = "done" <=> Len(acks) = Len(GateOrder))
  OBVIOUS
<1> HIDE DEF stage
<1>6. job' = [stage |-> stage, env |-> job.env, before |-> 0, acks |-> acks]
  BY <1>2, <1>4
<1> QED
  BY <1>3, <1>4, <1>5, <1>6 DEF Idle

LEMMA JobInit == FleetInit => JobShape
  BY DEF FleetInit, JobShape, Running, Idle

(* Bundles and revocations only grow, and time does not go back. *)
LEMMA FleetGrows ==
    ASSUME Held, JobShape, [FleetNext]_fleetVars
    PROVE  /\ \A g \in Gates : bundles[g] \subseteq bundles'[g]
           /\ \A g \in Gates : withdrawn[g] \subseteq withdrawn'[g]
           /\ clock' \in Nat /\ clock <= clock' /\ published \subseteq published'
<1>0. clock \in Nat
  BY DEF Held, Signed
<1>1. CASE UNCHANGED <<clock, bundles, withdrawn>> /\ published \subseteq published'
  BY <1>0, <1>1
<1>2. ASSUME NEW g \in Gates, NEW e, Store(g, e), UNCHANGED <<clock, published, withdrawn>>
      PROVE  /\ \A h \in Gates : bundles[h] \subseteq bundles'[h]
             /\ \A h \in Gates : withdrawn[h] \subseteq withdrawn'[h]
             /\ clock' \in Nat /\ clock <= clock' /\ published \subseteq published'
  BY <1>0, <1>2 DEF Store, Held, Holdings
<1>3. ASSUME NEW g \in Gates, NEW v, Revoke(g, v)
      PROVE  /\ \A h \in Gates : bundles[h] \subseteq bundles'[h]
             /\ \A h \in Gates : withdrawn[h] \subseteq withdrawn'[h]
             /\ clock' \in Nat /\ clock <= clock' /\ published \subseteq published'
  BY <1>0, <1>3 DEF Revoke, Held, Holdings
<1>4. CASE FleetTick
  BY <1>0, <1>4 DEF FleetTick
<1>5. ASSUME NEW g \in Gates, Activate(g) \/ RevokeVersion(g) \/ RevokeLatest(g)
      PROVE  /\ \A h \in Gates : bundles[h] \subseteq bundles'[h]
             /\ \A h \in Gates : withdrawn[h] \subseteq withdrawn'[h]
             /\ clock' \in Nat /\ clock <= clock' /\ published \subseteq published'
  BY <1>2, <1>3, <1>5 DEF Activate, RevokeVersion, RevokeLatest
<1>6. CASE ActivateHere
  <2>1. Running
    BY <1>6 DEF ActivateHere, Running
  <2>2. Here \in Gates
    BY <2>1, RunningFacts
  <2> QED
    BY <1>2, <1>6, <2>2 DEF ActivateHere
<1>7. CASE Publish \/ RestartAuthority \/ BeginDistribution \/ Look \/ ActivationFails
           \/ AckHere \/ UNCHANGED fleetVars
  <2>1. UNCHANGED <<clock, bundles, withdrawn>> /\ published \subseteq published'
    BY <1>7 DEF Publish, RestartAuthority, BeginDistribution, Look, ActivationFails, AckHere,
                fleetVars
  <2> QED
    BY <1>1, <2>1
<1> QED
  BY <1>4, <1>5, <1>6, <1>7 DEF FleetNext

LEMMA HeldStep ==
    ASSUME Held, JobShape, [FleetNext]_fleetVars PROVE Held'
<1>1. CASE Publish
  <2>1. Holdings' /\ GatesDecideForThemselves'
    BY <1>1 DEF Publish, Held, Holdings, GatesDecideForThemselves
  <2> QED
    BY <1>1, <2>1, PublishKeepsSigned DEF Held
<1>2. CASE RestartAuthority
  <2>1. Holdings' /\ GatesDecideForThemselves'
    BY <1>2 DEF RestartAuthority, Held, Holdings, GatesDecideForThemselves
  <2>2. Signed'
    BY <1>2 DEF RestartAuthority, Held, Signed, NoPayload
  <2> QED
    BY <2>1, <2>2 DEF Held
<1>3. ASSUME NEW g \in Gates, NEW e \in Received, Activates(g, e), Store(g, e),
             UNCHANGED <<clock, last, published, withdrawn>>
      PROVE  Held'
  BY <1>3, StoreKeepsHeld DEF Held, Signed
<1>4. ASSUME NEW g \in Gates, NEW v \in Int, Revoke(g, v) PROVE Held'
  <2>1. Signed' /\ GatesDecideForThemselves'
    BY <1>4 DEF Revoke, Held, Signed, GatesDecideForThemselves
  <2>2. Holdings'
    BY <1>4 DEF Revoke, Held, Holdings
  <2> QED
    BY <2>1, <2>2 DEF Held
<1>5. ASSUME NEW g \in Gates, Activate(g) PROVE Held'
  BY <1>3, <1>5 DEF Activate
<1>6. ASSUME NEW g \in Gates, RevokeVersion(g) PROVE Held'
  <2>1. PICK e \in Received : Revoke(g, e.payload.version)
    BY <1>6 DEF RevokeVersion
  <2>2. e.payload.version \in Int
    BY ReceivedDated DEF Held, Dated
  <2> QED
    BY <1>4, <2>1, <2>2
<1>7. ASSUME NEW g \in Gates, RevokeLatest(g) PROVE Held'
  <2>1. last.version \in Int
    BY DEF Held, Signed
  <2> QED
    BY <1>4, <1>7, <2>1 DEF RevokeLatest
<1>8. CASE ActivateHere
  <2>1. Running
    BY <1>8 DEF ActivateHere, Running
  <2>2. Here \in Gates /\ job.env \in Received
    BY <2>1, RunningFacts
  <2> QED
    BY <1>3, <1>8, <2>2 DEF ActivateHere
<1>9. CASE FleetTick
  <2>1. Signed'
    BY <1>9 DEF FleetTick, Held, Signed
  <2>2. Holdings' /\ GatesDecideForThemselves'
    BY <1>9 DEF FleetTick, Held, Holdings, GatesDecideForThemselves
  <2> QED
    BY <2>1, <2>2 DEF Held
<1>10. CASE BeginDistribution \/ Look \/ ActivationFails \/ AckHere \/ UNCHANGED fleetVars
  <2>1. UNCHANGED <<clock, last, published, bundles, withdrawn>>
    BY <1>10 DEF BeginDistribution, Look, ActivationFails, AckHere, fleetVars
  <2> QED
    BY <2>1 DEF Held, Signed, Holdings, GatesDecideForThemselves
<1> QED
  BY <1>1, <1>2, <1>5, <1>6, <1>7, <1>8, <1>9, <1>10 DEF FleetNext

(* The steps of the distributor that acknowledge a gate. *)
LEMMA AcknowledgingSteps ==
    ASSUME Held, JobShape, Look \/ AckHere, job'.stage # "activate"
    PROVE  \E applied \in BOOLEAN, before \in Nat, after \in Nat :
              /\ Acknowledge(applied, before, after)
              /\ Look => Current(Here, clock).version >= Version
<1>0. Running
  BY DEF Look, AckHere, Running
<1>1. Here \in Gates /\ job.before \in Nat
  BY <1>0, RunningFacts
<1>2. Current(Here, clock).version \in Nat
  BY <1>1, CurrentFacts
<1>3. CASE AckHere
  <2>1. ~Look
    BY <1>3 DEF AckHere, Look
  <2> QED
    BY <1>1, <1>2, <1>3, <2>1 DEF AckHere
<1>4. CASE Look
  <2> DEFINE current == Current(Here, clock).version
  <2>1. job \in [stage : {"look", "activate", "ack", "done"}, env : Received,
                 before : Nat, acks : Seq(Ack)]
    BY <1>0, RunningFacts DEF JobShape
  <2>2. job' # [job EXCEPT !.stage = "activate", !.before = current]
    BY <2>1
  <2>3. current >= Version /\ Acknowledge(FALSE, current, current)
    BY <1>4, <2>2 DEF Look
  <2> QED
    BY <1>2, <2>3
<1> QED
  BY <1>3, <1>4

LEMMA JobStep ==
    ASSUME Held, JobShape, [FleetNext]_fleetVars PROVE JobShape'
<1>0. Received \subseteq Received'
  BY FleetGrows DEF Received
<1>1. CASE UNCHANGED job
  BY <1>0, <1>1 DEF JobShape, Running
<1>2. CASE BeginDistribution
  <2>1. PICK e \in Received :
           job' = [stage |-> "look", env |-> e, before |-> 0, acks |-> <<>>]
    BY <1>2 DEF BeginDistribution
  <2>2. job' \in [stage : {"look", "activate", "ack", "done"}, env : Received,
                  before : Nat, acks : Seq(Ack)]
    BY <2>1
  <2>3. Len(job'.acks) < Len(GateOrder) /\ job'.stage = "look"
    BY <2>1, OrderFacts
  <2> QED
    BY <1>0, <2>2, <2>3 DEF JobShape, Running
<1>3. CASE (Look \/ AckHere) /\ job'.stage # "activate"
  <2>0. Running
    BY <1>3 DEF Look, AckHere, Running
  <2>1. PICK applied \in BOOLEAN, before \in Nat, after \in Nat :
           Acknowledge(applied, before, after)
    BY <1>3, AcknowledgingSteps
  <2>2. /\ Len(job'.acks) = Len(job.acks) + 1
        /\ job'.stage \in {"look", "done"}
        /\ job'.stage = "done" <=> Len(job'.acks) = Len(GateOrder)
        /\ job' \in [stage : {"look", "activate", "ack", "done"}, env : Received,
                     before : Nat, acks : Seq(Ack)]
    BY <2>0, <2>1, AcknowledgeFacts
  <2>3. Len(job'.acks) <= Len(GateOrder) /\ Len(job'.acks) \in Nat
    BY <2>0, <2>2, RunningFacts
  <2> QED
    BY <1>0, <2>2, <2>3, OrderFacts DEF JobShape, Running
<1>4. CASE Look /\ job'.stage = "activate"
  <2>0. Running
    BY <1>4 DEF Look, Running
  <2>1. /\ job \in [stage : {"look", "activate", "ack", "done"}, env : Received,
                    before : Nat, acks : Seq(Ack)]
        /\ Len(job.acks) < Len(GateOrder) /\ Here \in Gates
    BY <2>0, RunningFacts DEF JobShape
  <2> DEFINE current == Current(Here, clock).version
  <2>2. current \in Nat
    BY <2>1, CurrentFacts
  <2>3. CASE job' = [job EXCEPT !.stage = "activate", !.before = current]
    <3> HIDE DEF current
    <3>1. job' \in [stage : {"look", "activate", "ack", "done"}, env : Received,
                    before : Nat, acks : Seq(Ack)] /\ job'.acks = job.acks
      BY <2>1, <2>2, <2>3
    <3> QED
      BY <1>0, <1>4, <2>1, <3>1 DEF JobShape, Running
  <2>4. CASE Acknowledge(FALSE, current, current)
    <3>1. job'.stage \in {"look", "done"}
      BY <2>0, <2>2, <2>4, AcknowledgeFacts
    <3> QED
      BY <1>4, <3>1
  <2> QED
    BY <1>4, <2>3, <2>4 DEF Look
<1>5. CASE ActivateHere
  <2>0. Running /\ job # Idle
    BY <1>5 DEF ActivateHere, Running, Idle
  <2>1. /\ job \in [stage : {"look", "activate", "ack", "done"}, env : Received,
                    before : Nat, acks : Seq(Ack)]
        /\ Len(job.acks) < Len(GateOrder)
    BY <2>0 DEF JobShape
  <2>2. job' = [job EXCEPT !.stage = "ack"]
    BY <1>5 DEF ActivateHere
  <2>3. /\ job' \in [stage : {"look", "activate", "ack", "done"}, env : Received,
                     before : Nat, acks : Seq(Ack)]
        /\ job'.acks = job.acks /\ job'.stage = "ack"
    BY <2>1, <2>2
  <2> QED
    BY <1>0, <2>1, <2>3 DEF JobShape, Running
<1>6. CASE ActivationFails
  BY <1>6 DEF ActivationFails, JobShape, Running, Idle
<1>7. \/ UNCHANGED job \/ BeginDistribution \/ Look \/ AckHere
      \/ ActivateHere \/ ActivationFails
  BY DEF FleetNext, fleetVars, Publish, RestartAuthority, Activate, RevokeVersion, RevokeLatest,
         Revoke, FleetTick
<1>8. ASSUME AckHere PROVE job'.stage # "activate"
  <2>1. Running
    BY <1>8 DEF AckHere, Running
  <2>2. Current(Here, clock).version \in Nat /\ job.before \in Nat
    BY <2>1, RunningFacts, CurrentFacts
  <2> QED
    BY <1>8, <2>1, <2>2, AcknowledgeFacts DEF AckHere
<1> QED
  BY <1>1, <1>2, <1>3, <1>4, <1>5, <1>6, <1>7, <1>8

-----------------------------------------------------------------------------
(* What a gate holds was signed by an authority that this gate trusts, and *)
(* no two of its bundles share a version (PolicyRegistry.activate), for    *)
(* whomever the distributor trusts.                                        *)
THEOREM GatesDecide == FleetSpec => []GatesDecideForThemselves
<1>1. FleetInit => Held /\ JobShape
  BY HeldInit, JobInit
<1>2. Held /\ JobShape /\ [FleetNext]_fleetVars => Held' /\ JobShape'
  BY HeldStep, JobStep
<1>3. Held => GatesDecideForThemselves
  BY DEF Held
<1> QED
  BY <1>1, <1>2, <1>3, PTL DEF FleetSpec

(* What a gate runs, it runs until it is revoked there or its window ends. *)
LEMMA KeepsRunning ==
    ASSUME Held, Held', JobShape, [FleetNext]_fleetVars, NEW g \in Gates,
           Current(g, clock)'.version < Current(g, clock).version
    PROVE  LET before == Current(g, clock) IN
           /\ before \in bundles[g] /\ before \in bundles'[g]
           /\ before.version \in withdrawn'[g] \/ clock' >= before.until
<1> DEFINE before == Current(g, clock)
<1>1. before.version \in Nat /\ (before.version > 0 => before \in Candidates(g, clock))
  BY CurrentFacts
<1>2. PICK m \in Nat : \A p \in bundles'[g] : p.version <= m
  BY DEF Held, Holdings
<1> DEFINE S == Candidates(g, clock)'
<1>3. \A p \in S : p.version \in Int /\ p.version >= 1 /\ p.version <= m
  BY <1>2 DEF Held, Holdings, Candidates, Dated, GatesDecideForThemselves, WellFormed
<1>4. Current(g, clock)' = Best(S)
  BY DEF Current, Best
<1>5. /\ S = {} => Best(S).version = 0
      /\ S # {} => Best(S) \in S /\ \A q \in S : q.version <= Best(S).version
  <2> HIDE DEF S
  <2> QED
    BY <1>3, BestIsHighest
<1>6. Best(S).version \in Nat
  <2> HIDE DEF S
  <2> QED
    BY <1>3, <1>5
<1>7. before.version > 0 /\ before \in Candidates(g, clock)
  BY <1>1, <1>4, <1>6
<1>8. before \in bundles[g] /\ before \in bundles'[g] /\ Dated(before)
      /\ before.from <= clock /\ clock <= clock' /\ clock \in Nat /\ clock' \in Nat
  BY <1>7, FleetGrows DEF Candidates, InWindow, Held, Holdings, Signed
<1>9. ASSUME before.version \notin withdrawn'[g], ~(clock' >= before.until) PROVE FALSE
  <2>1. before.from <= clock' /\ clock' < before.until
    BY <1>8, <1>9 DEF Dated
  <2>2. before \in S
    BY <1>8, <1>9, <2>1 DEF Candidates, InWindow
  <2>3. before.version <= Best(S).version
    BY <1>5, <2>2
  <2> QED
    BY <1>1, <1>4, <1>6, <2>3
<1> QED
  BY <1>8, <1>9

(* "downgrades are never applied automatically", by any gate of any fleet. *)
THEOREM DowngradesAreTold == FleetSpec => NoSilentDowngrade
<1>1. FleetInit => Held /\ JobShape
  BY HeldInit, JobInit
<1>2. Held /\ JobShape /\ [FleetNext]_fleetVars => Held' /\ JobShape'
  BY HeldStep, JobStep
<1>3. Held /\ Held' /\ JobShape /\ [FleetNext]_fleetVars
      => [\A g \in Gates :
             LET before == Current(g, clock) IN
             Current(g, clock)'.version < before.version =>
                 before.version \in withdrawn'[g] \/ clock' >= before.until]_fleetVars
  BY KeepsRunning
<1> QED
  BY <1>1, <1>2, <1>3, PTL DEF FleetSpec, NoSilentDowngrade

-----------------------------------------------------------------------------
(* One version, one set of rules: the authority numbers upwards, what      *)
(* carries its name in a gate was published, and so two gates that hold    *)
(* the same version hold the same payload.                                 *)
Numbered ==
    ~renumbered =>
        /\ \A e \in published : e.payload.version <= last.version
        /\ \A e, f \in published :
              e.payload.version = f.payload.version => e.payload = f.payload

FromAuthority ==
    \A g \in Gates : \A p \in bundles[g] :
        p.issuer = Kid => \E e \in published : e.payload = p

LEMMA AcceptedIsPublished ==
    ASSUME NEW g, NEW e \in Received, Activates(g, e), e.payload.issuer = Kid
    PROVE  e \in published
  BY FleetAssumption DEF Received, Activates, Verifies, WellFormed

LEMMA NumberedStep ==
    ASSUME Held, Numbered, [FleetNext]_fleetVars PROVE Numbered'
<1>1. CASE UNCHANGED <<published, last, renumbered>>
  BY <1>1 DEF Numbered
<1>2. CASE Publish
  <2> SUFFICES ASSUME ~renumbered'
               PROVE  /\ \A e \in published' : e.payload.version <= last'.version
                      /\ \A e, f \in published' :
                            e.payload.version = f.payload.version => e.payload = f.payload
    BY DEF Numbered
  <2>1. PICK rules \in Publishable, w \in Windows,
             v \in {NextVersion} \cup ChosenVersions :
           LET body == [issuer |-> Kid, version |-> v, rules |-> rules, digest |-> rules,
                        prev |-> IF last = NoPayload THEN NoDigest ELSE last.digest,
                        issued |-> clock, from |-> clock + w[1],
                        until |-> clock + w[1] + w[2],
                        stamps |-> "rfc3339", loose |-> FALSE] IN
           /\ last' = body
           /\ published' = published \cup {[payload |-> body, kid |-> Kid, intact |-> TRUE]}
           /\ renumbered' = (renumbered \/ v # NextVersion)
    BY <1>2 DEF Publish
  <2>2. v = last.version + 1 /\ ~renumbered
    BY <2>1 DEF NextVersion
  <2>3. /\ last'.version = last.version + 1
        /\ \A e \in published' : e \in published \/ e.payload = last'
    <3> DEFINE body == [issuer |-> Kid, version |-> v, rules |-> rules, digest |-> rules,
                        prev |-> IF last = NoPayload THEN NoDigest ELSE last.digest,
                        issued |-> clock, from |-> clock + w[1],
                        until |-> clock + w[1] + w[2],
                        stamps |-> "rfc3339", loose |-> FALSE]
    <3>1. /\ last' = body
          /\ published' = published \cup {[payload |-> body, kid |-> Kid, intact |-> TRUE]}
      BY <2>1
    <3>2. body.version = last.version + 1
      BY <2>2
    <3> HIDE DEF body
    <3> QED
      BY <3>1, <3>2
  <2>4. last.version \in Nat /\ \A e \in published : e.payload.version \in Int
    BY DEF Held, Signed, Dated
  <2>5. /\ \A e \in published : e.payload.version <= last.version
        /\ \A e, f \in published :
              e.payload.version = f.payload.version => e.payload = f.payload
    BY <2>2 DEF Numbered
  <2>6. \A e \in published : e.payload.version < last'.version
    BY <2>3, <2>4, <2>5
  <2>7. \A e \in published' : e.payload.version <= last'.version
    BY <2>3, <2>4, <2>6
  <2>8. \A e, f \in published' :
           e.payload.version = f.payload.version => e.payload = f.payload
    BY <2>3, <2>4, <2>5, <2>6
  <2> QED
    BY <2>7, <2>8
<1>3. CASE RestartAuthority
  BY <1>3 DEF RestartAuthority, Numbered
<1>4. UNCHANGED <<published, last, renumbered>> \/ Publish \/ RestartAuthority
  BY DEF FleetNext, fleetVars, Activate, RevokeVersion, RevokeLatest, Revoke, BeginDistribution,
         Look, ActivateHere, ActivationFails, AckHere, FleetTick
<1> QED
  BY <1>1, <1>2, <1>3, <1>4

LEMMA FromAuthorityStep ==
    ASSUME Held, JobShape, FromAuthority, [FleetNext]_fleetVars PROVE FromAuthority'
<1>0. published \subseteq published'
  BY FleetGrows
<1>1. CASE UNCHANGED bundles
  BY <1>0, <1>1 DEF FromAuthority
<1>2. ASSUME NEW g \in Gates, NEW e \in Received, Activates(g, e), Store(g, e)
      PROVE  FromAuthority'
  <2>1. \A h \in Gates : \A p \in bundles'[h] : p \in bundles[h] \/ p = e.payload
    BY <1>2 DEF Store, Held, Holdings
  <2>2. e.payload.issuer = Kid => e \in published
    BY <1>2, AcceptedIsPublished
  <2> QED
    BY <1>0, <2>1, <2>2 DEF FromAuthority
<1>3. ASSUME NEW g \in Gates, Activate(g) PROVE FromAuthority'
  BY <1>2, <1>3 DEF Activate
<1>4. CASE ActivateHere
  <2>1. Running
    BY <1>4 DEF ActivateHere, Running
  <2>2. Here \in Gates /\ job.env \in Received
    BY <2>1, RunningFacts
  <2> QED
    BY <1>2, <1>4, <2>2 DEF ActivateHere
<1>5. UNCHANGED bundles \/ ActivateHere \/ \E g \in Gates : Activate(g)
  BY DEF FleetNext, fleetVars, Publish, RestartAuthority, RevokeVersion, RevokeLatest, Revoke,
         BeginDistribution, Look, ActivationFails, AckHere, FleetTick
<1> QED
  BY <1>1, <1>3, <1>4, <1>5

(* While PolicyAuthority neither restarts nor is told a version number,    *)
(* gates that hold the same version of its policy hold the same rules.     *)
THEOREM OneVersionOneRules == FleetSpec => []SameVersionSameRules
<1> DEFINE Inv == Held /\ JobShape /\ Numbered /\ FromAuthority
<1>1. FleetInit => Inv
  <2> SUFFICES ASSUME FleetInit PROVE Inv
    OBVIOUS
  <2>1. Numbered /\ FromAuthority
    BY DEF FleetInit, Numbered, FromAuthority
  <2> QED
    BY <2>1, HeldInit, JobInit
<1>2. Inv /\ [FleetNext]_fleetVars => Inv'
  BY HeldStep, JobStep, NumberedStep, FromAuthorityStep
<1>3. Inv => SameVersionSameRules
  BY DEF Numbered, FromAuthority, SameVersionSameRules
<1> QED
  BY <1>1, <1>2, <1>3, PTL DEF FleetSpec

-----------------------------------------------------------------------------
(* What an acknowledgement promises of a gate. *)
Settled(g, v) ==
    \/ Current(g, clock).version >= v
    \/ \E w \in withdrawn[g] : w >= v
    \/ \E p \in bundles[g] : p.version >= v /\ clock >= p.until

JobServed ==
    /\ job # Idle => \A i \in 1 .. Len(job.acks) : Settled(GateOrder[i], Version)
    /\ job.stage = "ack" => Settled(Here, Version)

LEMMA SettledLasts ==
    ASSUME Held, Held', JobShape, [FleetNext]_fleetVars, NEW g \in Gates, NEW v \in Int,
           Settled(g, v)
    PROVE  Settled(g, v)'
<1>1. /\ bundles[g] \subseteq bundles'[g] /\ withdrawn[g] \subseteq withdrawn'[g]
      /\ clock \in Nat /\ clock' \in Nat /\ clock <= clock'
  BY FleetGrows DEF Held, Signed
<1>2. CASE Current(g, clock).version >= v
  <2>1. CASE Current(g, clock)'.version < Current(g, clock).version
    <3> DEFINE before == Current(g, clock)
    <3>1. /\ before \in bundles'[g]
          /\ before.version \in withdrawn'[g] \/ clock' >= before.until
      BY <2>1, KeepsRunning
    <3> QED
      BY <1>2, <3>1 DEF Settled
  <2>2. CASE ~(Current(g, clock)'.version < Current(g, clock).version)
    <3>1. Current(g, clock).version \in Nat
      BY CurrentFacts
    <3>2. Current(g, clock)'.version \in Nat
      <4>1. PICK m \in Nat : \A p \in bundles'[g] : p.version <= m
        BY DEF Held, Holdings
      <4> DEFINE S == Candidates(g, clock)'
      <4>2. \A p \in S : p.version \in Int /\ p.version >= 1 /\ p.version <= m
        BY <4>1 DEF Held, Holdings, Candidates, Dated, GatesDecideForThemselves, WellFormed
      <4>3. Current(g, clock)' = Best(S)
        BY DEF Current, Best
      <4> HIDE DEF S
      <4>4. /\ S = {} => Best(S).version = 0
            /\ S # {} => Best(S) \in S
        BY <4>2, BestIsHighest
      <4> QED
        BY <4>2, <4>3, <4>4
    <3> DEFINE a == Current(g, clock).version
               b == Current(g, clock)'.version
    <3> HIDE DEF a, b
    <3>3. b >= v
      BY <1>2, <2>2, <3>1, <3>2 DEF a, b
    <3> QED
      BY <3>3 DEF Settled, b
  <2> QED
    BY <2>1, <2>2
<1>3. CASE \E w \in withdrawn[g] : w >= v
  BY <1>1, <1>3 DEF Settled
<1>4. CASE \E p \in bundles[g] : p.version >= v /\ clock >= p.until
  <2>1. PICK p \in bundles[g] : p.version >= v /\ clock >= p.until
    BY <1>4
  <2>2. p.until \in Int
    BY DEF Held, Holdings, Dated
  <2>3. clock' >= p.until
    BY <1>1, <2>1, <2>2
  <2> QED
    BY <1>1, <2>1, <2>3 DEF Settled
<1> QED
  BY <1>2, <1>3, <1>4 DEF Settled

(* A bundle just activated is run, unless its version is revoked or a      *)
(* newer one is.                                                           *)
LEMMA ActivationSettles ==
    ASSUME Held, Held', JobShape, ActivateHere
    PROVE  Settled(Here, Version)'
<1> DEFINE S == Candidates(Here, clock)'
           e == job.env
<1>1. Running
  BY DEF ActivateHere, Running
<1>2. /\ Here \in Gates /\ e \in Received /\ job # Idle
      /\ job \in [stage : {"look", "activate", "ack", "done"}, env : Received,
                  before : Nat, acks : Seq(Ack)]
  BY <1>1, RunningFacts DEF JobShape
<1>3. job'.env = e /\ job'.acks = job.acks
  BY <1>2 DEF ActivateHere
<1>4. Here' = Here /\ Version' = Version /\ UNCHANGED <<clock, withdrawn>>
  BY <1>3 DEF Here, Version, ActivateHere
<1>5. e.payload \in bundles'[Here] /\ InWindow(e.payload, clock) /\ e.payload.version \in Int
  BY <1>2, ReceivedDated
     DEF ActivateHere, Store, Activates, Verifies, Held, Holdings, Dated
<1>6. CASE Version \in withdrawn[Here]
  BY <1>4, <1>5, <1>6 DEF Settled, Version
<1>7. CASE Version \notin withdrawn[Here]
  <2>1. e.payload \in Candidates(Here, clock)'
    BY <1>4, <1>5, <1>7 DEF Candidates, InWindow, Version
  <2>2. PICK m \in Nat : \A p \in bundles'[Here] : p.version <= m
    BY <1>2 DEF Held, Holdings
  <2>3. \A p \in Candidates(Here, clock)' : p.version \in Int /\ p.version <= m
    BY <1>2, <1>4, <2>2 DEF Held, Holdings, Candidates, Dated
  <2>4. Current(Here, clock)' = Best(Candidates(Here, clock)')
    BY DEF Current, Best
  <2>5. e.payload.version <= Best(Candidates(Here, clock)').version
        /\ Best(Candidates(Here, clock)') \in Candidates(Here, clock)'
    BY <2>1, <2>3, BestIsHighest
  <2>6. Current(Here, clock)'.version >= e.payload.version
    BY <1>5, <2>3, <2>4, <2>5
  <2> QED
    BY <1>4, <2>6 DEF Settled, Version
<1> QED
  BY <1>6, <1>7

LEMMA VersionIsInt ==
    ASSUME Held, JobShape, job # Idle
    PROVE  Version \in Int /\ Len(job.acks) \in Nat /\ Len(job.acks) <= Len(GateOrder)
  BY ReceivedDated, OrderFacts DEF JobShape, Version, Held, Dated, Running

LEMMA PromisesLast ==
    ASSUME Held, Held', JobShape, [FleetNext]_fleetVars, job # Idle, job'.env = job.env,
           NEW g \in Gates, Settled(g, Version)
    PROVE  Settled(g, Version)'
<1>1. PICK v \in Int : v = Version
  BY VersionIsInt
<1>2. Version' = v
  BY <1>1 DEF Version
<1>3. Settled(g, v)
  BY <1>1
<1>4. Settled(g, v)'
  BY <1>3, SettledLasts
<1> QED
  BY <1>2, <1>4 DEF Settled

(* An acknowledgement is made of a gate that is settled. *)
LEMMA AcknowledgeServes ==
    ASSUME Held, Held', JobShape, JobServed, [FleetNext]_fleetVars,
           Look \/ AckHere, job'.stage # "activate"
    PROVE  JobServed'
<1>1. Running /\ job # Idle
  <2>1. Running
    BY DEF Look, AckHere, Running
  <2> QED
    BY <2>1, RunningFacts
<1>2. PICK applied \in BOOLEAN, before \in Nat, after \in Nat :
         /\ Acknowledge(applied, before, after)
         /\ Look => Current(Here, clock).version >= Version
  BY AcknowledgingSteps
<1>3. /\ job'.env = job.env /\ Len(job'.acks) = Len(job.acks) + 1
      /\ job'.stage \in {"look", "done"}
  BY <1>1, <1>2, AcknowledgeFacts
<1>4. Settled(Here, Version)
  <2>1. CASE Look
    BY <1>2, <2>1 DEF Settled
  <2>2. CASE AckHere
    BY <2>2 DEF AckHere, JobServed
  <2> QED
    BY <2>1, <2>2
<1>5. Len(job.acks) \in Nat /\ Len(job.acks) <= Len(GateOrder)
      /\ Len(job.acks) + 1 \in 1 .. Len(GateOrder)
  BY <1>1, VersionIsInt, RunningFacts
<1>6. ASSUME NEW i \in 1 .. Len(job'.acks) PROVE Settled(GateOrder[i], Version)'
  <2>1. GateOrder[i] \in Gates
    BY <1>3, <1>5, OrderFacts
  <2>2. Settled(GateOrder[i], Version)
    <3>1. CASE i \in 1 .. Len(job.acks)
      BY <1>1, <3>1 DEF JobServed
    <3>2. CASE i = Len(job.acks) + 1
      BY <1>4, <3>2 DEF Here
    <3> QED
      BY <1>3, <1>5, <3>1, <3>2
  <2> QED
    BY <1>1, <1>3, <2>1, <2>2, PromisesLast
<1> QED
  BY <1>3, <1>6 DEF JobServed

LEMMA ServedStep ==
    ASSUME Held, Held', JobShape, JobServed, [FleetNext]_fleetVars
    PROVE  JobServed'
<1>1. ASSUME job # Idle, job'.env = job.env, NEW i \in 1 .. Len(job.acks)
      PROVE  Settled(GateOrder[i], Version)'
  <2>1. GateOrder[i] \in Gates /\ Settled(GateOrder[i], Version)
    BY <1>1, VersionIsInt, OrderFacts DEF JobServed
  <2> QED
    BY <1>1, <2>1, PromisesLast
<1>2. CASE UNCHANGED job
  <2>1. job.stage = "ack" => Settled(Here, Version)'
    <3> SUFFICES ASSUME job.stage = "ack" PROVE Settled(Here, Version)'
      OBVIOUS
    <3>1. Running /\ job # Idle
      BY DEF Running, Idle
    <3>2. PICK g \in Gates : g = Here
      BY <3>1, RunningFacts
    <3>3. Here' = g
      BY <1>2, <3>2 DEF Here
    <3>4. Settled(g, Version)
      BY <3>2 DEF JobServed
    <3>5. Settled(g, Version)'
      BY <1>2, <3>1, <3>4, PromisesLast
    <3> QED
      BY <3>3, <3>5 DEF Settled
  <2> QED
    BY <1>1, <1>2, <2>1 DEF JobServed
<1>3. CASE BeginDistribution
  <2>1. job'.stage = "look" /\ 1 .. Len(job'.acks) = {}
    BY <1>3 DEF BeginDistribution
  <2> QED
    BY <2>1 DEF JobServed
<1>4. CASE (Look \/ AckHere) /\ job'.stage # "activate"
  BY <1>4, AcknowledgeServes
<1>5. CASE (Look \/ AckHere) /\ job'.stage = "activate"
  <2>1. Running /\ job # Idle
    <3>1. Running
      BY <1>5 DEF Look, AckHere, Running
    <3> QED
      BY <3>1, RunningFacts
  <2>2. job \in [stage : {"look", "activate", "ack", "done"}, env : Received,
                 before : Nat, acks : Seq(Ack)]
    BY <2>1 DEF JobShape
  <2>3. Current(Here, clock).version \in Nat /\ job.before \in Nat
    BY <2>1, RunningFacts, CurrentFacts
  <2>4. ASSUME NEW applied \in BOOLEAN, NEW before \in Nat, NEW after \in Nat,
               Acknowledge(applied, before, after)
        PROVE  FALSE
    BY <1>5, <2>1, <2>4, AcknowledgeFacts
  <2>5. job' = [job EXCEPT !.stage = "activate", !.before = Current(Here, clock).version]
    BY <1>5, <2>3, <2>4 DEF Look, AckHere
  <2>6. job'.env = job.env /\ job'.acks = job.acks
    BY <2>2, <2>5
  <2> QED
    BY <1>1, <1>5, <2>1, <2>6 DEF JobServed
<1>6. CASE ActivateHere
  <2>1. job # Idle
    BY <1>6 DEF ActivateHere, Idle
  <2>2. job'.env = job.env /\ job'.acks = job.acks
    BY <1>6, <2>1 DEF ActivateHere, JobShape
  <2>3. Settled(Here, Version)'
    BY <1>6, ActivationSettles
  <2> QED
    BY <1>1, <2>1, <2>2, <2>3 DEF JobServed
<1>7. CASE ActivationFails
  BY <1>7 DEF ActivationFails, JobServed, Idle
<1>8. \/ UNCHANGED job \/ BeginDistribution \/ Look \/ AckHere
      \/ ActivateHere \/ ActivationFails
  BY DEF FleetNext, fleetVars, Publish, RestartAuthority, Activate, RevokeVersion, RevokeLatest,
         Revoke, FleetTick
<1> QED
  BY <1>2, <1>3, <1>4, <1>5, <1>6, <1>7, <1>8

(* A report of PolicyDistributor.distribute holds, then and later: each    *)
(* gate runs the version the report names or a newer one, unless such a    *)
(* version has been revoked there or has expired.                          *)
THEOREM ReportsHold == FleetSpec => []ReportHolds
<1> DEFINE Inv == Held /\ JobShape /\ JobServed
<1>1. FleetInit => Inv
  <2> SUFFICES ASSUME FleetInit PROVE Inv
    OBVIOUS
  <2>1. JobServed
    BY DEF FleetInit, JobServed, Idle
  <2> QED
    BY <2>1, HeldInit, JobInit
<1>2. Inv /\ [FleetNext]_fleetVars => Inv'
  BY HeldStep, JobStep, ServedStep
<1>3. Inv => ReportHolds
  <2> SUFFICES ASSUME Inv, job.stage = "done", NEW g \in Gates
               PROVE  Settled(g, Version)
    BY DEF ReportHolds, Settled
  <2>1. job # Idle /\ Len(job.acks) = Len(GateOrder)
    BY DEF JobShape, Idle
  <2>2. PICK i \in 1 .. Len(GateOrder) : g = GateOrder[i]
    BY OrderFacts
  <2> QED
    BY <2>1, <2>2 DEF JobServed
<1> QED
  BY <1>1, <1>2, <1>3, PTL DEF FleetSpec

-----------------------------------------------------------------------------
(* The Go verifier's one pass over a gate's bundles ends with the version  *)
(* that PolicyRegistry.current returns: among the live ones there is one   *)
(* that none exceeds, and only one, since no two share a version.  Go has  *)
(* to read the times of all that are not revoked.                          *)
LEMMA GoTakesTheSame ==
    ASSUME Held, NEW g \in Gates,
           \A p \in bundles[g] : p.version \in withdrawn[g] \/ p.stamps = "rfc3339"
    PROVE  GoCurrent(g, clock) = Current(g, clock)
<1> DEFINE S == Candidates(g, clock)
           kept == {p \in bundles[g] : p.version \notin withdrawn[g]}
           live == {p \in kept : ~(clock < p.from) /\ clock < p.until}
           best == {p \in live : ~\E q \in live : q.version > p.version}
           highest == {p \in S : \A q \in S : q.version <= p.version}
<1>1. PICK m \in Nat : \A p \in bundles[g] : p.version <= m
  BY DEF Held, Holdings
<1>2. \A p \in S : p.version \in Int /\ p.version <= m
  BY <1>1 DEF Held, Holdings, Candidates, Dated
<1>3. best = highest
  <2>1. live = S
    BY DEF Candidates, InWindow, Held, Holdings, Signed, Dated
  <2> HIDE DEF live, S
  <2> QED
    BY <1>2, <2>1
<1>4. \A p, q \in S : p.version = q.version => p = q
  BY DEF Candidates, Held, GatesDecideForThemselves
<1>5. GoCurrent(g, clock) = IF best = {} THEN NoPayload ELSE CHOOSE p \in best : TRUE
  <2>1. ~\E p \in kept : p.stamps # "rfc3339"
    OBVIOUS
  <2> QED
    BY <2>1 DEF GoCurrent
<1>6. Current(g, clock) = Best(S)
  BY CurrentIsBest
<1> HIDE DEF best, S
<1>7. CASE S = {}
  BY <1>3, <1>5, <1>6, <1>7 DEF Best
<1>8. CASE S # {}
  <2>1. PICK top \in S : \A q \in S : q.version <= top.version
    BY <1>2, <1>8, HighestExists
  <2>2. ASSUME NEW p \in S, \A q \in S : q.version <= p.version PROVE p = top
    <3>1. p.version = top.version
      BY <1>2, <2>1, <2>2
    <3> QED
      BY <1>4, <3>1
  <2>3. best = {top}
    BY <1>3, <2>1, <2>2
  <2>4. Best(S) = top
    BY <1>8, <2>1, <2>2 DEF Best
  <2> QED
    BY <1>5, <1>6, <2>3, <2>4
<1> QED
  BY <1>7, <1>8

(* What the authority signs, it signs as itself, and it reads well.        *)
Sealed ==
    \A e \in published :
        /\ e.intact /\ e.kid = Kid /\ e.payload.issuer = Kid
        /\ e.payload.rules \in Publishable /\ e.payload.digest = e.payload.rules
        /\ e.payload.from < e.payload.until
        /\ e.payload.stamps = "rfc3339" /\ e.payload.loose = FALSE

LEMMA SealedStep == ASSUME Held, Sealed, [FleetNext]_fleetVars PROVE Sealed'
<1>1. CASE UNCHANGED published
  BY <1>1 DEF Sealed
<1>2. CASE Publish
  <2>1. PICK rules \in Publishable, w \in Windows,
             v \in {NextVersion} \cup ChosenVersions :
           LET body == [issuer |-> Kid, version |-> v, rules |-> rules, digest |-> rules,
                        prev |-> IF last = NoPayload THEN NoDigest ELSE last.digest,
                        issued |-> clock, from |-> clock + w[1],
                        until |-> clock + w[1] + w[2],
                        stamps |-> "rfc3339", loose |-> FALSE] IN
           published' = published \cup {[payload |-> body, kid |-> Kid, intact |-> TRUE]}
    BY <1>2 DEF Publish
  <2>2. clock + w[1] < clock + w[1] + w[2]
    BY FleetAssumption DEF Held, Signed
  <2> QED
    BY <2>1, <2>2 DEF Sealed
<1>3. UNCHANGED published \/ Publish
  BY DEF FleetNext, fleetVars, RestartAuthority, Activate, RevokeVersion, RevokeLatest, Revoke,
         BeginDistribution, Look, ActivateHere, ActivationFails, AckHere, FleetTick
<1> QED
  BY <1>1, <1>2, <1>3

(* What came has times in one of the two forms and rules of known forms.   *)
LEMMA ReceivedForms ==
    ASSUME Held, Sealed, NEW e \in Received
    PROVE  /\ e.payload.stamps \in {"rfc3339", "iso"}
           /\ Content[e.payload.rules] \subseteq RuleForm
           /\ Dated(e.payload) /\ clock \in Int
<1>1. e.payload.stamps \in {"rfc3339", "iso"} /\ e.payload.rules \in RuleSets
  BY FleetAssumption DEF Received, Sealed, Publishable
<1>2. Content[e.payload.rules] \subseteq RuleForm
  BY <1>1, FleetAssumption
<1> QED
  BY <1>1, <1>2, ReceivedDated DEF Held, Signed

(* verify_policy_bundle and the Go verifier agree on every bundle that the *)
(* authority has published with an Ed25519 key and that both write alike;  *)
(* whatever else one of them accepts alone has a reason on the list; and   *)
(* PolicyRegistry.current and CurrentPolicyVersion agree on what a gate    *)
(* runs, whenever Go can read the times of what is not revoked.            *)
THEOREM VerifiersAlike == FleetSpec => []VerifiersAgree
<1> DEFINE Inv == Held /\ JobShape /\ Sealed
<1>1. FleetInit => Inv
  BY HeldInit, JobInit DEF FleetInit, Sealed
<1>2. Inv /\ [FleetNext]_fleetVars => Inv'
  BY HeldStep, JobStep, SealedStep
<1>3. Inv => VerifiersAgree
  <2> SUFFICES ASSUME Inv, NEW g \in Gates
               PROVE  /\ Trusts[g] # {} =>
                            \A env \in Received :
                               LET python == Verifies(env, Trusts[g], clock)
                                   go == GoVerifies(env, Trusts[g], clock) IN
                               /\ env \in published /\ Kid \in Ed25519Keys
                                     /\ Alike(env.payload.rules) => (python <=> go)
                               /\ python /\ ~go => PythonOnly(env)
                               /\ go /\ ~python => GoOnly(env)
                      /\ (\A p \in bundles[g] :
                             p.version \in withdrawn[g] \/ p.stamps = "rfc3339") =>
                            GoCurrent(g, clock) = Current(g, clock)
    BY DEF VerifiersAgree
  <2>1. ASSUME Trusts[g] # {}, NEW env \in published, Kid \in Ed25519Keys,
               Alike(env.payload.rules)
        PROVE  Verifies(env, Trusts[g], clock) <=> GoVerifies(env, Trusts[g], clock)
    <3>1. Parses(env.payload.rules) /\ GoParses(env.payload.rules)
      BY DEF Sealed, Publishable, Parses, GoParses, RuleFromDict, ValidateBundleRule
    <3>2. Dated(env.payload) /\ clock \in Int
      BY DEF Held, Signed
    <3> QED
      BY <2>1, <3>1, <3>2 DEF Sealed, Verifies, GoVerifies, GoVerifyEnvelope, TrustedBy,
                              WellFormed, InWindow, Dated
  <2>2. ASSUME Trusts[g] # {}, NEW env \in Received, Verifies(env, Trusts[g], clock),
               ~PythonOnly(env)
        PROVE  GoVerifies(env, Trusts[g], clock)
    <3>1. env.payload.stamps = "rfc3339" /\ env.kid \in Ed25519Keys
      BY <2>2, ReceivedForms DEF PythonOnly
    <3>2. Alike(env.payload.rules)
      BY <2>2 DEF PythonOnly, Alike
    <3>3. GoParses(env.payload.rules)
      BY <2>2 DEF PythonOnly, Verifies, WellFormed, Parses, GoParses, RuleFromDict,
                  ValidateBundleRule
    <3> QED
      BY <2>2, <3>1, <3>2, <3>3, ReceivedForms
         DEF Verifies, GoVerifies, GoVerifyEnvelope, TrustedBy, WellFormed, InWindow, Dated
  <2>3. ASSUME NEW env \in Received, GoVerifies(env, Trusts[g], clock), ~GoOnly(env)
        PROVE  Verifies(env, Trusts[g], clock)
    <3>1. GoParses(env.payload.rules)
      BY <2>3 DEF GoVerifies
    <3>2. Parses(env.payload.rules)
      <4> SUFFICES ASSUME NEW rule \in Content[env.payload.rules] PROVE RuleFromDict(rule)
        BY <3>1 DEF Parses, GoParses
      <4>1. rule \in RuleForm /\ ValidateBundleRule(rule)
        BY <3>1, ReceivedForms DEF GoParses
      <4> QED
        BY <2>3, <4>1 DEF GoOnly, RuleForm, RuleFromDict, ValidateBundleRule
    <3> QED
      BY <2>3, <3>2, ReceivedForms
         DEF GoOnly, Verifies, GoVerifies, GoVerifyEnvelope, TrustedBy, WellFormed, InWindow,
             Dated
  <2>4. published \subseteq Received
    BY DEF Received
  <2> QED
    BY <2>1, <2>2, <2>3, <2>4, GoTakesTheSame
<1> QED
  BY <1>1, <1>2, <1>3, PTL DEF FleetSpec

-----------------------------------------------------------------------------
(* Types: a bundle keeps the form in which it was signed or came, and only *)
(* one that verifies, whose signer is its issuer, is distributed.          *)

LEMMA PayloadsCome ==
    ASSUME FleetTypeOK, NEW e \in Received PROVE e.payload \in Payload
<1>1. CASE e \in published
  BY <1>1 DEF FleetTypeOK, Envelope
<1>2. CASE e \in Foreign
  <2>1. e.payload.issuer \in Issuers
    BY <1>2 DEF Issuers
  <2> QED
    BY <1>2, <2>1, FleetAssumption DEF Payload
<1> QED
  BY <1>1, <1>2 DEF Received

LEMMA VerifiedIsEnvelope ==
    ASSUME FleetTypeOK, NEW e \in Received, NEW trusted, NEW t, Verifies(e, trusted, t)
    PROVE  e \in Envelope
<1>1. CASE e \in published
  BY <1>1 DEF FleetTypeOK
<1>2. CASE e \in Foreign
  <2>1. e.payload \in Payload /\ e.kid \in Issuers /\ e.intact \in BOOLEAN
    BY <1>2, PayloadsCome, FleetAssumption DEF Verifies, Issuers
  <2>2. e = [payload |-> e.payload, kid |-> e.kid, intact |-> e.intact]
    BY <1>2, FleetAssumption
  <2> QED
    BY <2>1, <2>2 DEF Envelope
<1> QED
  BY <1>1, <1>2 DEF Received

LEMMA FleetTypeInit == FleetInit => FleetTypeOK
<1> SUFFICES ASSUME FleetInit PROVE FleetTypeOK
  OBVIOUS
<1>1. clock \in 0 .. MaxTime
  BY FleetAssumption DEF FleetInit
<1>2. bundles \in [Gates -> SUBSET Payload]
  BY DEF FleetInit
<1>3. withdrawn \in [Gates -> SUBSET (Nat \ {0})]
  BY DEF FleetInit
<1> QED
  BY <1>1, <1>2, <1>3 DEF FleetInit, FleetTypeOK

LEMMA PublishTypes == ASSUME FleetTypeOK, Held, Publish PROVE FleetTypeOK'
<1>1. PICK rules \in Publishable, w \in Windows,
           v \in {NextVersion} \cup ChosenVersions :
         LET body == [issuer |-> Kid, version |-> v, rules |-> rules, digest |-> rules,
                      prev |-> IF last = NoPayload THEN NoDigest ELSE last.digest,
                      issued |-> clock, from |-> clock + w[1],
                      until |-> clock + w[1] + w[2],
                      stamps |-> "rfc3339", loose |-> FALSE] IN
         /\ last' = body
         /\ published' = published \cup {[payload |-> body, kid |-> Kid, intact |-> TRUE]}
         /\ renumbered' = (renumbered \/ v # NextVersion)
  BY DEF Publish
<1> DEFINE body == [issuer |-> Kid, version |-> v, rules |-> rules, digest |-> rules,
                    prev |-> IF last = NoPayload THEN NoDigest ELSE last.digest,
                    issued |-> clock, from |-> clock + w[1],
                    until |-> clock + w[1] + w[2],
                    stamps |-> "rfc3339", loose |-> FALSE]
<1>2. clock \in Nat /\ w[1] \in Int /\ w[2] \in Int
  BY FleetAssumption DEF Held, Signed
<1>3. v \in Int
  BY FleetAssumption DEF Held, Signed, NextVersion
<1>4. (IF last = NoPayload THEN NoDigest ELSE last.digest) \in RuleSets \cup {NoDigest}
  BY DEF FleetTypeOK, Payload
<1>5. Kid \in Issuers
  BY DEF Issuers
<1>6. body \in Payload
  <2>1. rules \in RuleSets
    BY DEF Publishable
  <2> QED
    BY <1>2, <1>3, <1>4, <1>5, <2>1 DEF Payload
<1>7. last' = body /\ UNCHANGED <<clock, bundles, withdrawn, job>>
      /\ published' = published \cup {[payload |-> body, kid |-> Kid, intact |-> TRUE]}
  BY <1>1 DEF Publish
<1>8. renumbered' \in BOOLEAN
  BY <1>1
<1> HIDE DEF body
<1>9. published' \subseteq Envelope
  <2>1. [payload |-> body, kid |-> Kid, intact |-> TRUE] \in Envelope
    BY <1>5, <1>6 DEF Envelope
  <2> QED
    BY <1>7, <2>1 DEF FleetTypeOK
<1> QED
  BY <1>6, <1>7, <1>8, <1>9 DEF FleetTypeOK

LEMMA RevokeTypes ==
    ASSUME FleetTypeOK, NEW g \in Gates, NEW v \in Int, Revoke(g, v) PROVE FleetTypeOK'
<1>1. withdrawn' = [withdrawn EXCEPT ![g] = @ \cup {v}] /\ v \in Nat \ {0}
      /\ UNCHANGED <<clock, last, published, bundles, job, renumbered>>
  BY DEF Revoke
<1>2. withdrawn' \in [Gates -> SUBSET (Nat \ {0})]
  BY <1>1 DEF FleetTypeOK
<1> QED
  BY <1>1, <1>2 DEF FleetTypeOK

LEMMA StoreTypes ==
    ASSUME FleetTypeOK, NEW g \in Gates, NEW e \in Received, Store(g, e)
    PROVE  bundles' \in [Gates -> SUBSET Payload]
  BY PayloadsCome DEF FleetTypeOK, Store

(* What FleetTypeOK says of the job. *)
JobTypeOK ==
    /\ job \in Job \cup {Idle}
    /\ job # Idle =>
          /\ \A i \in DOMAIN job.acks : job.acks[i].gate = GateOrder[i]
          /\ job.stage = "done" <=> Len(job.acks) = Len(GateOrder)

LEMMA AcknowledgeTypes ==
    ASSUME FleetTypeOK, JobShape, Running, NEW applied \in BOOLEAN,
           NEW before \in Nat, NEW after \in Nat, Acknowledge(applied, before, after)
    PROVE  JobTypeOK'
<1> DEFINE ack == [gate |-> Here, applied |-> applied, before |-> before, after |-> after]
<1>1. job \in Job /\ job.env \in Envelope
  BY RunningFacts DEF FleetTypeOK, Job
<1>2. /\ job'.env = job.env /\ job' # Idle
      /\ job' \in [stage : {"look", "activate", "ack", "done"}, env : Received,
                   before : Nat, acks : Seq(Ack)]
      /\ job'.stage = "done" <=> Len(job'.acks) = Len(GateOrder)
  BY AcknowledgeFacts
<1>3. job' \in Job
  BY <1>1, <1>2 DEF Job
<1>4. job'.acks = Append(job.acks, ack)
  BY <1>1 DEF Acknowledge, Job
<1>5. /\ job.acks \in Seq(Ack) /\ Len(job.acks) \in Nat
      /\ \A i \in 1 .. Len(job.acks) : job.acks[i].gate = GateOrder[i]
  BY RunningFacts DEF FleetTypeOK
<1>6. ASSUME NEW i \in DOMAIN job'.acks PROVE job'.acks[i].gate = GateOrder[i]
  <2>1. i \in 1 .. Len(job.acks) + 1
    BY <1>4, <1>5
  <2>2. ack.gate = GateOrder[Len(job.acks) + 1]
    BY DEF Here
  <2> HIDE DEF ack
  <2> QED
    BY <1>4, <1>5, <2>1, <2>2
<1> QED
  BY <1>2, <1>3, <1>6 DEF JobTypeOK

LEMMA FleetTypeStep ==
    ASSUME FleetTypeOK, Held, JobShape, [FleetNext]_fleetVars PROVE FleetTypeOK'
<1>1. CASE Publish
  BY <1>1, PublishTypes
<1>2. CASE RestartAuthority
  BY <1>2 DEF RestartAuthority, FleetTypeOK
<1>3. ASSUME NEW g \in Gates, Activate(g) PROVE FleetTypeOK'
  <2>1. PICK e \in Received : Store(g, e)
    BY <1>3 DEF Activate
  <2>2. bundles' \in [Gates -> SUBSET Payload]
    BY <2>1, StoreTypes
  <2> QED
    BY <1>3, <2>2 DEF Activate, FleetTypeOK
<1>4. ASSUME NEW g \in Gates, RevokeVersion(g) PROVE FleetTypeOK'
  <2>1. PICK e \in Received : Revoke(g, e.payload.version)
    BY <1>4 DEF RevokeVersion
  <2>2. e.payload.version \in Int
    BY PayloadsCome DEF Payload
  <2> QED
    BY <2>1, <2>2, RevokeTypes
<1>5. ASSUME NEW g \in Gates, RevokeLatest(g) PROVE FleetTypeOK'
  <2>1. last.version \in Int
    BY DEF Held, Signed
  <2> QED
    BY <1>5, <2>1, RevokeTypes DEF RevokeLatest
<1>6. ASSUME JobTypeOK', UNCHANGED <<clock, last, published, withdrawn, renumbered>>,
             bundles' \in [Gates -> SUBSET Payload]
      PROVE  FleetTypeOK'
  BY <1>6 DEF FleetTypeOK, JobTypeOK
<1>7. CASE BeginDistribution
  <2>1. PICK e \in Received :
           /\ Verifies(e, DistributorTrusts, clock)
           /\ job' = [stage |-> "look", env |-> e, before |-> 0, acks |-> <<>>]
    BY <1>7 DEF BeginDistribution
  <2>2. e \in Envelope
    BY <2>1, VerifiedIsEnvelope
  <2>3. job' \in Job /\ job'.acks = <<>> /\ job'.stage = "look"
    BY <2>1, <2>2 DEF Job
  <2>4. Len(GateOrder) # 0
    BY OrderFacts
  <2>5. JobTypeOK'
    BY <2>3, <2>4 DEF JobTypeOK
  <2> QED
    BY <1>6, <1>7, <2>5 DEF BeginDistribution, FleetTypeOK
<1>8. CASE Look
  <2>0. Running
    BY <1>8 DEF Look, Running
  <2>1. /\ job \in Job /\ Here \in Gates /\ job # Idle
        /\ Len(job.acks) < Len(GateOrder) /\ Len(job.acks) \in Nat
        /\ \A i \in DOMAIN job.acks : job.acks[i].gate = GateOrder[i]
    BY <2>0, RunningFacts DEF FleetTypeOK, JobShape
  <2> DEFINE current == Current(Here, clock).version
  <2>2. current \in Nat
    BY <2>1, CurrentFacts
  <2>3. CASE Acknowledge(FALSE, current, current)
    BY <1>6, <1>8, <2>0, <2>2, <2>3, AcknowledgeTypes DEF Look, FleetTypeOK
  <2>4. CASE job' = [job EXCEPT !.stage = "activate", !.before = current]
    <3> HIDE DEF current
    <3>1. job' \in Job /\ job'.acks = job.acks /\ job'.stage = "activate"
      BY <2>1, <2>2, <2>4 DEF Job
    <3>2. JobTypeOK'
      BY <2>1, <3>1 DEF JobTypeOK
    <3> QED
      BY <1>6, <1>8, <3>2 DEF Look, FleetTypeOK
  <2> QED
    BY <1>8, <2>3, <2>4 DEF Look
<1>9. CASE ActivateHere
  <2>0. Running
    BY <1>9 DEF ActivateHere, Running
  <2>1. /\ job \in Job /\ Here \in Gates /\ job.env \in Received
        /\ Len(job.acks) < Len(GateOrder) /\ Len(job.acks) \in Nat
        /\ \A i \in DOMAIN job.acks : job.acks[i].gate = GateOrder[i]
    BY <2>0, RunningFacts DEF FleetTypeOK, JobShape
  <2>2. job' \in Job /\ job'.acks = job.acks /\ job'.stage = "ack"
    BY <1>9, <2>1 DEF ActivateHere, Job
  <2>3. JobTypeOK'
    BY <2>1, <2>2 DEF JobTypeOK
  <2>4. bundles' \in [Gates -> SUBSET Payload]
    BY <1>9, <2>1, StoreTypes DEF ActivateHere
  <2> QED
    BY <1>6, <1>9, <2>3, <2>4 DEF ActivateHere
<1>10. CASE ActivationFails
  BY <1>10 DEF ActivationFails, FleetTypeOK
<1>11. CASE AckHere
  <2>0. Running
    BY <1>11 DEF AckHere, Running
  <2>1. job.before \in Nat /\ Current(Here, clock).version \in Nat
    BY <2>0, RunningFacts, CurrentFacts
  <2>2. JobTypeOK'
    BY <1>11, <2>0, <2>1, AcknowledgeTypes DEF AckHere
  <2> QED
    BY <1>6, <1>11, <2>2 DEF AckHere, FleetTypeOK
<1>12. CASE FleetTick
  BY <1>12, FleetAssumption DEF FleetTick, FleetTypeOK
<1>13. CASE UNCHANGED fleetVars
  BY <1>13 DEF fleetVars, FleetTypeOK
<1> QED
  BY <1>1, <1>2, <1>3, <1>4, <1>5, <1>7, <1>8, <1>9, <1>10, <1>11, <1>12, <1>13 DEF FleetNext

(* The fleet's state keeps its types, for any fleet, windows and bundles,  *)
(* and a distribution acknowledges the gates in their order.               *)
THEOREM FleetTypeCorrect == FleetSpec => []FleetTypeOK
<1>1. FleetInit => FleetTypeOK /\ Held /\ JobShape
  BY FleetTypeInit, HeldInit, JobInit
<1>2. FleetTypeOK /\ Held /\ JobShape /\ [FleetNext]_fleetVars
      => FleetTypeOK' /\ Held' /\ JobShape'
  BY FleetTypeStep, HeldStep, JobStep
<1> QED
  BY <1>1, <1>2, PTL DEF FleetSpec

-----------------------------------------------------------------------------
(***************************************************************************)
(* The registry's state file keeps every confirmed change, for any number  *)
(* of commands, versions and kills, as long as no two commands overlapped  *)
(* and none was killed in its write.                                       *)
(*                                                                         *)
(* The file alone is not inductive: between a command's read and its write *)
(* the changes live in the command's memory, and while it writes they live *)
(* only there.  So every memory that may still be written has to hold the  *)
(* confirmed changes as well, and there is never more than one.            *)
(***************************************************************************)

Undisturbed == ~overlapped /\ ~torn

OneAtATime ==
    Undisturbed => \A c, d \in Commands :
                       command[c] # NoCommand /\ command[d] # NoCommand => c = d

HoldsConfirmed(r) == \A change \in confirmed : Holds(r, change)

MemoriesComplete ==
    Undisturbed => \A c \in Commands :
        command[c] # NoCommand =>
            HoldsConfirmed(command[c].memory) /\ Holds(command[c].memory, command[c].change)

FileComplete ==
    Undisturbed => /\ stateFile \in Registry => HoldsConfirmed(stateFile)
                   /\ stateFile = Missing => confirmed = {}

FileInv == FileTypeOK /\ OneAtATime /\ MemoriesComplete /\ FileComplete

-----------------------------------------------------------------------------
(* Kinds of contents, and what a change leaves. *)

LEMMA KindsDiffer ==
    /\ Missing \notin Registry /\ Damaged \notin Registry /\ Missing # Damaged
    /\ NewRegistry \in Registry
    /\ NoCommand \notin Command
  BY DEF Missing, Damaged, Registry, NewRegistry, NoCommand, Command

LEMMA ChangedHolds ==
    ASSUME NEW r \in Registry, NEW change \in Change
    PROVE  /\ Changed(r, change) \in Registry
           /\ Holds(Changed(r, change), change)
           /\ \A other \in Change : Holds(r, other) => Holds(Changed(r, change), other)
<1>1. CASE change.op = "activate"
  <2>1. /\ Changed(r, change) = [r EXCEPT !.active = @ \cup {change.version}]
        /\ change.version \in Versions
    BY <1>1 DEF Changed, Change
  <2> QED
    BY <1>1, <2>1 DEF Registry, Change, Holds
<1>2. CASE change.op = "revoke"
  <2>1. /\ Changed(r, change) = [r EXCEPT !.revoked = @ \cup {change.version}]
        /\ change.version \in Versions
    BY <1>2 DEF Changed, Change
  <2> QED
    BY <1>2, <2>1 DEF Registry, Change, Holds
<1> QED
  BY <1>1, <1>2 DEF Change

LEMMA RestoredIsRegistry == FileTypeOK /\ stateFile # Damaged => Restored \in Registry
  BY KindsDiffer DEF FileTypeOK, Restored

-----------------------------------------------------------------------------
(* Every variable keeps its shape, and a damaged file has an author.       *)

LEMMA FileTypeInit == FileInit => FileTypeOK
<1> SUFFICES ASSUME FileInit PROVE FileTypeOK
  OBVIOUS
<1>1. stateFile \in Registry \cup {Missing, Damaged} /\ stateFile # Damaged
  BY KindsDiffer DEF FileInit
<1>2. command \in [Commands -> Command \cup {NoCommand}] /\ confirmed \subseteq Change
  BY DEF FileInit
<1>3. crashes \in 0 .. MaxCrashes
  BY FileAssumption DEF FileInit
<1>4. overlapped \in BOOLEAN /\ torn \in BOOLEAN
  BY DEF FileInit
<1> QED
  BY <1>1, <1>2, <1>3, <1>4 DEF FileTypeOK

LEMMA FileTypeStep == FileTypeOK /\ [FileNext]_fileVars => FileTypeOK'
<1> SUFFICES ASSUME FileTypeOK, [FileNext]_fileVars PROVE FileTypeOK'
  OBVIOUS
<1> USE FileAssumption DEF FileTypeOK
<1>1. ASSUME NEW c \in Commands, ReadState(c) PROVE FileTypeOK'
  <2>1. PICK change \in Change :
           command' = [command EXCEPT ![c] = [stage |-> "read", change |-> change,
                                              memory |-> Changed(Restored, change)]]
    BY <1>1 DEF ReadState
  <2>2. Changed(Restored, change) \in Registry
    BY <1>1, RestoredIsRegistry, ChangedHolds DEF ReadState
  <2>3. command' \in [Commands -> Command \cup {NoCommand}]
    BY <2>1, <2>2 DEF Command
  <2> QED
    BY <1>1, <2>3 DEF ReadState
<1>2. ASSUME NEW c \in Commands, Truncate(c) PROVE FileTypeOK'
  <2>1. command[c] \in Command
    BY <1>2 DEF Truncate, NoCommand
  <2>2. [command[c] EXCEPT !.stage = "write"] \in Command
    BY <2>1 DEF Command
  <2>3. command' \in [Commands -> Command \cup {NoCommand}] /\ command'[c].stage = "write"
    BY <1>2, <2>1, <2>2 DEF Truncate, Command
  <2> QED
    BY <1>2, <2>3 DEF Truncate
<1>3. ASSUME NEW c \in Commands, WriteState(c) PROVE FileTypeOK'
  <2>1. command[c] \in Command
    BY <1>3 DEF WriteState, NoCommand
  <2>2. command[c].memory \in Registry /\ command[c].change \in Change
    BY <2>1 DEF Command
  <2> QED
    BY <1>3, <2>2, KindsDiffer DEF WriteState
<1>4. ASSUME NEW c \in Commands, KillCommand(c) PROVE FileTypeOK'
  <2>1. crashes' \in 0 .. MaxCrashes /\ torn' \in BOOLEAN
        /\ command' \in [Commands -> Command \cup {NoCommand}]
    BY <1>4 DEF KillCommand
  <2>2. stateFile' = Damaged =>
           torn' \/ \E d \in Commands : command'[d].stage = "write"
    BY <1>4 DEF KillCommand
  <2> QED
    BY <1>4, <2>1, <2>2 DEF KillCommand
<1>5. CASE RemoveDamaged
  BY <1>5, KindsDiffer DEF RemoveDamaged
<1>6. CASE UNCHANGED fileVars
  BY <1>6 DEF fileVars
<1> QED
  BY <1>1, <1>2, <1>3, <1>4, <1>5, <1>6 DEF FileNext

-----------------------------------------------------------------------------
(* The confirmed changes. *)

LEMMA FileInvInit == FileInit => FileInv
  BY FileTypeInit, KindsDiffer
     DEF FileInit, FileInv, OneAtATime, MemoriesComplete, FileComplete

LEMMA FileInvStep == FileInv /\ [FileNext]_fileVars => FileInv'
<1> SUFFICES ASSUME FileInv, [FileNext]_fileVars, Undisturbed'
             PROVE  OneAtATime' /\ MemoriesComplete' /\ FileComplete'
  BY FileTypeStep DEF FileInv, OneAtATime, MemoriesComplete, FileComplete
<1> USE DEF FileInv
<1>1. ASSUME NEW c \in Commands, ReadState(c)
      PROVE  OneAtATime' /\ MemoriesComplete' /\ FileComplete'
  <2>1. PICK change \in Change :
           command' = [command EXCEPT ![c] = [stage |-> "read", change |-> change,
                                              memory |-> Changed(Restored, change)]]
    BY <1>1 DEF ReadState
  <2>2. Undisturbed /\ (\A d \in Commands : command[d] = NoCommand)
        /\ stateFile # Damaged /\ UNCHANGED <<stateFile, confirmed>>
    BY <1>1 DEF ReadState, Undisturbed
  <2>3. \A d \in Commands \ {c} : command'[d] = NoCommand
    BY <2>1, <2>2 DEF FileTypeOK
  <2>4. Restored \in Registry /\ HoldsConfirmed(Restored)
    BY <2>2, RestoredIsRegistry, KindsDiffer DEF FileComplete, Restored, FileTypeOK,
       HoldsConfirmed
  <2>5. confirmed \subseteq Change
    BY DEF FileTypeOK
  <2>6. /\ command'[c].change = change
        /\ command'[c].memory = Changed(Restored, change)
    BY <2>1 DEF FileTypeOK
  <2>7. \A other \in confirmed : Holds(Changed(Restored, change), other)
    BY <2>4, <2>5, ChangedHolds DEF HoldsConfirmed
  <2>8. Holds(Changed(Restored, change), change)
    BY <2>4, ChangedHolds
  <2>9. MemoriesComplete'
    BY <2>2, <2>3, <2>6, <2>7, <2>8 DEF MemoriesComplete, HoldsConfirmed
  <2>10. OneAtATime'
    BY <2>3 DEF OneAtATime
  <2> QED
    BY <2>2, <2>9, <2>10 DEF FileComplete, HoldsConfirmed
<1>2. ASSUME NEW c \in Commands, Truncate(c)
      PROVE  OneAtATime' /\ MemoriesComplete' /\ FileComplete'
  <2>1. Undisturbed /\ stateFile' = Damaged /\ confirmed' = confirmed
        /\ command[c] # NoCommand
    BY <1>2 DEF Truncate, Undisturbed, NoCommand
  <2>2. command[c] \in Command
    BY <2>1 DEF FileTypeOK
  <2>3. /\ command'[c].memory = command[c].memory /\ command'[c].change = command[c].change
        /\ \A d \in Commands \ {c} : command'[d] = command[d]
    BY <1>2, <2>2 DEF Truncate, Command, FileTypeOK
  <2>4. OneAtATime'
    BY <2>1, <2>3 DEF OneAtATime
  <2>5. MemoriesComplete'
    BY <2>1, <2>3 DEF MemoriesComplete, HoldsConfirmed
  <2> QED
    BY <2>1, <2>4, <2>5, KindsDiffer DEF FileComplete
<1>3. ASSUME NEW c \in Commands, WriteState(c)
      PROVE  OneAtATime' /\ MemoriesComplete' /\ FileComplete'
  <2>1. Undisturbed /\ command[c] # NoCommand
    BY <1>3 DEF WriteState, Undisturbed, NoCommand
  <2>2. \A d \in Commands : command'[d] = NoCommand
    BY <1>3, <2>1 DEF WriteState, OneAtATime, FileTypeOK
  <2>3. command[c] \in Command
    BY <2>1 DEF FileTypeOK
  <2>4. stateFile' = command[c].memory /\ stateFile' \in Registry
        /\ confirmed' = confirmed \cup {command[c].change}
    BY <1>3, <2>3 DEF WriteState, Command
  <2>5. \A change \in confirmed' : Holds(stateFile', change)
    BY <2>1, <2>4 DEF MemoriesComplete, HoldsConfirmed
  <2>6. FileComplete'
    BY <2>4, <2>5, KindsDiffer DEF FileComplete, HoldsConfirmed
  <2> QED
    BY <2>2, <2>6 DEF OneAtATime, MemoriesComplete
<1>4. ASSUME NEW c \in Commands, KillCommand(c)
      PROVE  OneAtATime' /\ MemoriesComplete' /\ FileComplete'
  <2>1. Undisturbed /\ UNCHANGED <<stateFile, confirmed>>
    BY <1>4 DEF KillCommand, Undisturbed
  <2>2. \A d \in Commands : command'[d] = NoCommand \/ command'[d] = command[d]
    BY <1>4 DEF KillCommand, FileTypeOK
  <2>3. OneAtATime'
    BY <2>1, <2>2 DEF OneAtATime
  <2>4. MemoriesComplete'
    BY <2>1, <2>2 DEF MemoriesComplete, HoldsConfirmed
  <2> QED
    BY <2>1, <2>3, <2>4 DEF FileComplete, HoldsConfirmed
<1>5. CASE RemoveDamaged
  <2>1. torn
    BY <1>5 DEF RemoveDamaged, FileTypeOK, NoCommand
  <2> QED
    BY <1>5, <2>1 DEF RemoveDamaged, Undisturbed
<1>6. CASE UNCHANGED fileVars
  BY <1>6 DEF fileVars, Undisturbed, OneAtATime, MemoriesComplete, FileComplete, HoldsConfirmed
<1> QED
  BY <1>1, <1>2, <1>3, <1>4, <1>5, <1>6 DEF FileNext

(* A change whose command has returned is in the file whenever the file    *)
(* can be read: what the commands' read-change-write of the state file     *)
(* promises without overlap and without a kill in the write.               *)
THEOREM ConfirmedStays == FileSpec => []ConfirmedChangesSurvive
<1>1. FileInv => ConfirmedChangesSurvive
  BY KindsDiffer DEF FileInv, FileComplete, FileTypeOK, Undisturbed, HoldsConfirmed,
     ConfirmedChangesSurvive
<1> QED
  BY <1>1, FileInvInit, FileInvStep, PTL DEF FileSpec

-----------------------------------------------------------------------------
(***************************************************************************)
(* Revocations in a fleet of any size: no bundle undoes one, in whatever   *)
(* order and however often bundles arrive, and once a distribution has     *)
(* made its report every gate refuses every entry of its bundle.           *)
(*                                                                         *)
(* The report is made gate by gate, so the invariant says how far it has   *)
(* come: the gates acknowledged have all the entries, the gate being       *)
(* served those that are not left, and no gate ever loses one; and the     *)
(* counts of each gate add up to the entries, so that the totals add up to *)
(* as many times the entries as there are gates.                           *)
(***************************************************************************)

(* How far the delivery has come. *)
Served ==
    delivery # NoDelivery =>
        /\ delivery.bundle \in DOMAIN signed
        /\ delivery.stage = "done" => Len(delivery.acks) = Len(FleetOrder)
        /\ \A i \in 1 .. Len(delivery.acks) :
              signed[delivery.bundle].entries \subseteq lists[FleetOrder[i]]
        /\ Distributing =>
              signed[delivery.bundle].entries \ delivery.left \subseteq lists[ServedGate]

RevocationInv == RevocationTypeOK /\ Served

-----------------------------------------------------------------------------
(* The fleet and the entries. *)

LEMMA FleetFacts ==
    /\ Len(FleetOrder) \in Nat \ {0}
    /\ \A i \in 1 .. Len(FleetOrder) : FleetOrder[i] \in Fleet
    /\ \A g \in Fleet : \E i \in 1 .. Len(FleetOrder) : g = FleetOrder[i]
  BY RevocationAssumption DEF Fleet

LEMMA DeliveryIsNot == NoDelivery \notin Delivery
  BY DEF NoDelivery, Delivery

LEMMA EntriesFinite ==
    ASSUME RevocationTypeOK, NEW b \in DOMAIN signed
    PROVE  /\ signed[b].entries \subseteq Capabilities
           /\ IsFiniteSet(signed[b].entries) /\ Cardinality(signed[b].entries) \in Nat
<1>1. signed[b] \in SignedBundle
  BY DEF RevocationTypeOK
<1>2. signed[b].entries \subseteq Capabilities
  BY <1>1 DEF SignedBundle
<1> QED
  BY <1>2, RevocationAssumption, FS_Subset, FS_CardinalityType

LEMMA OneLess ==
    ASSUME NEW S, IsFiniteSet(S), NEW id \in S
    PROVE  Cardinality(S) \in Nat /\ Cardinality(S \ {id}) \in Nat
           /\ Cardinality(S \ {id}) = Cardinality(S) - 1
  BY FS_RemoveElement, FS_CardinalityType

-----------------------------------------------------------------------------
(* Every variable keeps its shape, and the counts of a delivery add up.    *)

LEMMA RevocationTypeInit == RevocationInit => RevocationTypeOK
<1> SUFFICES ASSUME RevocationInit PROVE RevocationTypeOK
  OBVIOUS
<1>1. signed \in Seq(SignedBundle) /\ DOMAIN signed = {}
  BY DEF RevocationInit
<1>2. delivery = NoDelivery /\ ~Distributing
  BY DEF RevocationInit, Distributing, NoDelivery
<1> QED
  BY <1>1, <1>2 DEF RevocationInit, RevocationTypeOK

LEMMA RevocationTypeStep ==
    RevocationTypeOK /\ [RevocationNext]_revocationVars => RevocationTypeOK'
<1> SUFFICES ASSUME RevocationTypeOK, [RevocationNext]_revocationVars
             PROVE  RevocationTypeOK'
  OBVIOUS
<1>1. ASSUME NEW id \in Capabilities, ListCapability(id) PROVE RevocationTypeOK'
  BY <1>1 DEF ListCapability, RevocationTypeOK, Distributing
<1>2. ASSUME NEW g \in Fleet, NEW id \in Capabilities, RevokeAtGate(g, id)
      PROVE  RevocationTypeOK'
  BY <1>2 DEF RevokeAtGate, RevocationTypeOK, Distributing
<1>3. CASE SignBundle
  <2>1. PICK link \in {<<Len(signed) + 1, Len(signed)>>, <<1, NoBundle>>} :
           signed' = Append(signed, [version |-> link[1], previous |-> link[2],
                                     entries |-> listed])
    BY <1>3 DEF SignBundle
  <2> DEFINE bundle == [version |-> link[1], previous |-> link[2], entries |-> listed]
  <2>2. signed \in Seq(SignedBundle) /\ listed \subseteq Capabilities
    BY DEF RevocationTypeOK
  <2>3. bundle \in SignedBundle /\ bundle.previous < Len(signed) + 1
    BY <2>1, <2>2 DEF SignedBundle, NoBundle
  <2> HIDE DEF bundle
  <2>4. /\ signed' \in Seq(SignedBundle)
        /\ DOMAIN signed' = 1 .. Len(signed) + 1 /\ DOMAIN signed = 1 .. Len(signed)
        /\ signed'[Len(signed) + 1] = bundle
        /\ \A i \in 1 .. Len(signed) : signed'[i] = signed[i]
    BY <2>1, <2>2, <2>3 DEF bundle
  <2>5. \A i \in DOMAIN signed' : signed'[i].previous < i
    BY <2>2, <2>3, <2>4 DEF RevocationTypeOK
  <2> QED
    BY <1>3, <2>4, <2>5 DEF SignBundle, RevocationTypeOK, Distributing
<1>4. CASE BeginDelivery
  <2>1. PICK b \in DOMAIN signed :
           delivery' = [stage |-> "apply", bundle |-> b, left |-> signed[b].entries,
                        added |-> 0, already |-> 0, acks |-> <<>>]
    BY <1>4 DEF BeginDelivery
  <2>2. b \in Nat \ {0}
    BY DEF RevocationTypeOK
  <2>3. signed[b].entries \subseteq Capabilities /\ Cardinality(signed[b].entries) \in Nat
    BY EntriesFinite
  <2>4. delivery' \in Delivery
    BY <2>1, <2>2, <2>3 DEF Delivery
  <2>5. /\ delivery'.bundle = b /\ delivery'.left = signed[b].entries
        /\ delivery'.added = 0 /\ delivery'.already = 0
    BY <2>1
  <2>6. Len(delivery'.acks) < Len(FleetOrder)
    BY <2>1, FleetFacts
  <2> DEFINE all == Cardinality(signed[b].entries)
  <2> HIDE DEF all
  <2>7. all \in Nat
    BY <2>3 DEF all
  <2>8. delivery'.added + delivery'.already + all = all
    BY <2>5, <2>7
  <2>9. delivery'.added + delivery'.already + Cardinality(delivery'.left)
           = Cardinality(signed[b].entries)
    BY <2>5, <2>8 DEF all
  <2>10. UNCHANGED <<listed, signed, lists>>
    BY <1>4 DEF BeginDelivery
  <2> QED
    BY <2>4, <2>5, <2>6, <2>9, <2>10 DEF RevocationTypeOK, Distributing
<1>5. ASSUME NEW id \in Capabilities, ApplyEntry(id) PROVE RevocationTypeOK'
  <2>1. /\ delivery \in Delivery /\ id \in delivery.left
        /\ delivery.bundle \in DOMAIN signed
        /\ Len(delivery.acks) < Len(FleetOrder)
        /\ delivery.left \subseteq signed[delivery.bundle].entries
        /\ delivery.added + delivery.already + Cardinality(delivery.left)
              = Cardinality(signed[delivery.bundle].entries)
    BY <1>5 DEF ApplyEntry, RevocationTypeOK, Distributing, NoDelivery
  <2>2. delivery.added \in Nat /\ delivery.already \in Nat
    BY <2>1 DEF Delivery
  <2>3. /\ Cardinality(delivery.left) \in Nat
        /\ Cardinality(delivery.left \ {id}) = Cardinality(delivery.left) - 1
    BY <2>1, EntriesFinite, FS_Subset, OneLess
  <2> DEFINE rest == delivery.left \ {id}
  <2>4. rest \in SUBSET Capabilities
    BY <2>1 DEF Delivery
  <2>5. lists' \in [Fleet -> SUBSET Capabilities] /\ UNCHANGED <<listed, signed>>
    BY <1>5 DEF ApplyEntry, RevocationTypeOK
  <2> DEFINE card == Cardinality(delivery.left)
             all == Cardinality(signed[delivery.bundle].entries)
  <2>6. CASE delivery' = [delivery EXCEPT !.left = @ \ {id}, !.already = @ + 1]
    <3>1. /\ delivery'.bundle = delivery.bundle /\ delivery'.left = rest
          /\ delivery'.acks = delivery.acks /\ delivery'.stage = delivery.stage
          /\ delivery'.added = delivery.added /\ delivery'.already = delivery.already + 1
      BY <2>1, <2>6 DEF Delivery
    <3>2. delivery' \in Delivery
      <4>1. delivery' = [stage |-> delivery.stage, bundle |-> delivery.bundle, left |-> rest,
                         added |-> delivery.added, already |-> delivery.already + 1,
                         acks |-> delivery.acks]
        BY <2>1, <2>6 DEF Delivery
      <4>2. /\ delivery.stage \in {"apply", "done"} /\ delivery.bundle \in Nat \ {0}
            /\ delivery.acks \in Seq(GateAck)
        BY <2>1 DEF Delivery
      <4> HIDE DEF rest
      <4> QED
        BY <2>2, <2>4, <4>1, <4>2 DEF Delivery
    <3>3. Cardinality(delivery'.left) = card - 1 /\ card \in Nat
      BY <2>3, <3>1
    <3>4. delivery.added + delivery.already + card = all
      BY <2>1
    <3> HIDE DEF card, all
    <3>5. delivery'.added + delivery'.already + Cardinality(delivery'.left) = all
      BY <2>2, <3>1, <3>3, <3>4
    <3> QED
      BY <2>1, <2>5, <3>1, <3>2, <3>5 DEF RevocationTypeOK, Distributing, all
  <2>7. CASE delivery' = [delivery EXCEPT !.left = @ \ {id}, !.added = @ + 1]
    <3>1. /\ delivery'.bundle = delivery.bundle /\ delivery'.left = rest
          /\ delivery'.acks = delivery.acks /\ delivery'.stage = delivery.stage
          /\ delivery'.added = delivery.added + 1 /\ delivery'.already = delivery.already
      BY <2>1, <2>7 DEF Delivery
    <3>2. delivery' \in Delivery
      <4>1. delivery' = [stage |-> delivery.stage, bundle |-> delivery.bundle, left |-> rest,
                         added |-> delivery.added + 1, already |-> delivery.already,
                         acks |-> delivery.acks]
        BY <2>1, <2>7 DEF Delivery
      <4>2. /\ delivery.stage \in {"apply", "done"} /\ delivery.bundle \in Nat \ {0}
            /\ delivery.acks \in Seq(GateAck)
        BY <2>1 DEF Delivery
      <4> HIDE DEF rest
      <4> QED
        BY <2>2, <2>4, <4>1, <4>2 DEF Delivery
    <3>3. Cardinality(delivery'.left) = card - 1 /\ card \in Nat
      BY <2>3, <3>1
    <3>4. delivery.added + delivery.already + card = all
      BY <2>1
    <3> HIDE DEF card, all
    <3>5. delivery'.added + delivery'.already + Cardinality(delivery'.left) = all
      BY <2>2, <3>1, <3>3, <3>4
    <3> QED
      BY <2>1, <2>5, <3>1, <3>2, <3>5 DEF RevocationTypeOK, Distributing, all
  <2> QED
    BY <1>5, <2>6, <2>7 DEF ApplyEntry
<1>6. CASE AckGate
  <2> DEFINE ack == [gate |-> ServedGate, added |-> delivery.added,
                     already |-> delivery.already]
             acks == Append(delivery.acks, ack)
             final == Len(acks) = Len(FleetOrder)
  <2>1. /\ delivery \in Delivery /\ delivery.bundle \in DOMAIN signed
        /\ Len(delivery.acks) < Len(FleetOrder)
    BY <1>6 DEF AckGate, RevocationTypeOK, Distributing, NoDelivery
  <2>2. signed[delivery.bundle].entries \subseteq Capabilities
        /\ Cardinality(signed[delivery.bundle].entries) \in Nat
    BY <2>1, EntriesFinite
  <2>3. delivery.acks \in Seq(GateAck) /\ delivery.added \in Nat /\ delivery.already \in Nat
    BY <2>1 DEF Delivery
  <2>4. ack \in GateAck
    BY <2>1, <2>3, FleetFacts DEF ServedGate, GateAck
  <2> HIDE DEF ack
  <2>5. acks \in Seq(GateAck) /\ Len(acks) = Len(delivery.acks) + 1
    BY <2>3, <2>4
  <2>6. delivery' = [delivery EXCEPT
                        !.acks = acks, !.added = 0, !.already = 0,
                        !.left = IF final THEN {} ELSE signed[delivery.bundle].entries,
                        !.stage = IF final THEN "done" ELSE "apply"]
        /\ UNCHANGED <<listed, signed, lists>>
    BY <1>6 DEF AckGate, ack
  <2> HIDE DEF acks
  <2>7. /\ delivery' \in Delivery /\ delivery'.bundle = delivery.bundle
        /\ delivery'.acks = acks /\ delivery'.added = 0 /\ delivery'.already = 0
        /\ ~final => delivery'.left = signed[delivery.bundle].entries
        /\ delivery'.stage = "apply" => ~final
    BY <2>1, <2>2, <2>5, <2>6 DEF Delivery
  <2>8. delivery'.stage = "apply" => Len(delivery'.acks) < Len(FleetOrder)
    BY <2>1, <2>3, <2>5, <2>7, FleetFacts
  <2> QED
    BY <2>1, <2>2, <2>6, <2>7, <2>8 DEF RevocationTypeOK, Distributing
<1>7. CASE UNCHANGED revocationVars
  BY <1>7 DEF revocationVars, RevocationTypeOK, Distributing
<1> QED
  BY <1>1, <1>2, <1>3, <1>4, <1>5, <1>6, <1>7 DEF RevocationNext

-----------------------------------------------------------------------------
(* No list of a gate ever loses a capability. *)

LEMMA ListsGrow ==
    RevocationTypeOK /\ [RevocationNext]_revocationVars
        => \A g \in Fleet : lists[g] \subseteq lists'[g]
<1> SUFFICES ASSUME RevocationTypeOK, [RevocationNext]_revocationVars, NEW g \in Fleet
             PROVE  lists[g] \subseteq lists'[g]
  OBVIOUS
<1>1. lists \in [Fleet -> SUBSET Capabilities]
  BY DEF RevocationTypeOK
<1>2. CASE UNCHANGED lists
  BY <1>2
<1>3. ASSUME NEW id \in Capabilities, NEW h \in Fleet, RevokeAtGate(h, id)
      PROVE  lists[g] \subseteq lists'[g]
  BY <1>1, <1>3 DEF RevokeAtGate
<1>4. ASSUME NEW id \in Capabilities, ApplyEntry(id)
      PROVE  lists[g] \subseteq lists'[g]
  BY <1>1, <1>4 DEF ApplyEntry
<1>5. \/ UNCHANGED lists
      \/ \E id \in Capabilities, h \in Fleet : RevokeAtGate(h, id)
      \/ \E id \in Capabilities : ApplyEntry(id)
  BY DEF RevocationNext, revocationVars, ListCapability, SignBundle, BeginDelivery, AckGate
<1> QED
  BY <1>2, <1>3, <1>4, <1>5

(* A bundle that comes late, again or out of order never makes a gate      *)
(* accept a capability again that it had refused (RevocationList.revoke    *)
(* only adds, and the distributor applies a bundle entry by entry).        *)
THEOREM RevocationsLast == RevocationSpec => RevokedForGood
<1>1. RevocationInit => RevocationTypeOK
  BY RevocationTypeInit
<1>2. RevocationTypeOK /\ [RevocationNext]_revocationVars => RevocationTypeOK'
  BY RevocationTypeStep
<1>3. RevocationTypeOK /\ [RevocationNext]_revocationVars
         => [\A g \in Fleet : lists[g] \subseteq lists'[g]]_revocationVars
  BY ListsGrow
<1> QED
  BY <1>1, <1>2, <1>3, PTL DEF RevocationSpec, RevokedForGood

-----------------------------------------------------------------------------
(* What a distribution that has reported has done. *)

LEMMA ServedInit == RevocationInit => Served
  BY DEF RevocationInit, Served

(* Steps that leave the delivery alone leave its bundle alone, and the     *)
(* lists only grow.                                                        *)
LEMMA ServedElsewhere ==
    ASSUME RevocationInv, UNCHANGED delivery,
           \A b \in DOMAIN signed : b \in DOMAIN signed' /\ signed'[b] = signed[b],
           \A g \in Fleet : lists[g] \subseteq lists'[g]
    PROVE  Served'
<1> SUFFICES ASSUME delivery # NoDelivery
             PROVE  Served'
  BY DEF Served
<1>1. /\ delivery.bundle \in DOMAIN signed
      /\ delivery.stage = "done" => Len(delivery.acks) = Len(FleetOrder)
      /\ \A i \in 1 .. Len(delivery.acks) :
            signed[delivery.bundle].entries \subseteq lists[FleetOrder[i]]
      /\ Distributing =>
            signed[delivery.bundle].entries \ delivery.left \subseteq lists[ServedGate]
  BY DEF RevocationInv, Served
<1>2. delivery \in Delivery
  BY DEF RevocationInv, RevocationTypeOK
<1>3. Len(delivery.acks) \in Nat
  BY <1>2 DEF Delivery
<1>4. Len(delivery.acks) <= Len(FleetOrder)
  BY <1>1, <1>2, <1>3, FleetFacts DEF RevocationInv, RevocationTypeOK, Delivery, Distributing
<1>5. ASSUME NEW i \in 1 .. Len(delivery.acks)
      PROVE  signed'[delivery.bundle].entries \subseteq lists'[FleetOrder[i]]
  <2>1. FleetOrder[i] \in Fleet
    BY <1>3, <1>4, FleetFacts
  <2> QED
    BY <1>1, <2>1
<1>6. ASSUME Distributing
      PROVE  signed'[delivery.bundle].entries \ delivery.left \subseteq lists'[ServedGate]
  <2>1. Len(delivery.acks) < Len(FleetOrder)
    BY <1>6 DEF RevocationInv, RevocationTypeOK
  <2>2. ServedGate \in Fleet
    BY <1>3, <2>1, FleetFacts DEF ServedGate
  <2> QED
    BY <1>1, <1>6, <2>2
<1> QED
  BY <1>1, <1>5, <1>6 DEF Served, Distributing, ServedGate

LEMMA ServedBegin == ASSUME RevocationInv, BeginDelivery PROVE Served'
<1>1. PICK b \in DOMAIN signed :
         delivery' = [stage |-> "apply", bundle |-> b, left |-> signed[b].entries,
                      added |-> 0, already |-> 0, acks |-> <<>>]
  BY DEF BeginDelivery
<1>2. /\ delivery'.bundle = b /\ delivery'.left = signed[b].entries
      /\ delivery'.stage = "apply" /\ 1 .. Len(delivery'.acks) = {}
  BY <1>1
<1> QED
  BY <1>2 DEF BeginDelivery, Served

LEMMA ServedApply ==
    ASSUME RevocationInv, NEW id \in Capabilities, ApplyEntry(id),
           \A g \in Fleet : lists[g] \subseteq lists'[g]
    PROVE  Served'
<1>1. /\ Distributing /\ id \in delivery.left /\ UNCHANGED signed
      /\ delivery \in Delivery /\ Len(delivery.acks) < Len(FleetOrder)
      /\ lists \in [Fleet -> SUBSET Capabilities] /\ delivery # NoDelivery
  BY DeliveryIsNot
     DEF ApplyEntry, RevocationInv, RevocationTypeOK, Distributing, NoDelivery
<1>2. /\ delivery.bundle \in DOMAIN signed
      /\ \A i \in 1 .. Len(delivery.acks) :
            signed[delivery.bundle].entries \subseteq lists[FleetOrder[i]]
      /\ signed[delivery.bundle].entries \ delivery.left \subseteq lists[ServedGate]
  BY <1>1 DEF RevocationInv, Served
<1>3. /\ delivery'.bundle = delivery.bundle /\ delivery'.acks = delivery.acks
      /\ delivery'.left = delivery.left \ {id} /\ delivery'.stage = "apply"
  BY <1>1 DEF ApplyEntry, Delivery, Distributing
<1>4. Len(delivery.acks) \in Nat
  BY <1>1 DEF Delivery
<1>5. /\ ServedGate \in Fleet
      /\ \A i \in 1 .. Len(delivery.acks) : FleetOrder[i] \in Fleet
  BY <1>1, <1>4, FleetFacts DEF ServedGate
<1>6. id \in lists'[ServedGate]
  BY <1>1, <1>5 DEF ApplyEntry
<1>7. ServedGate' = ServedGate
  BY <1>3 DEF ServedGate
<1>8. signed[delivery.bundle].entries \ delivery'.left \subseteq lists'[ServedGate]
  BY <1>2, <1>3, <1>5, <1>6
<1>9. \A i \in 1 .. Len(delivery.acks) :
         signed[delivery.bundle].entries \subseteq lists'[FleetOrder[i]]
  BY <1>2, <1>5
<1> QED
  BY <1>1, <1>2, <1>3, <1>7, <1>8, <1>9 DEF Served

LEMMA ServedAck == ASSUME RevocationInv, AckGate PROVE Served'
<1> DEFINE ack == [gate |-> ServedGate, added |-> delivery.added,
                   already |-> delivery.already]
           acks == Append(delivery.acks, ack)
           final == Len(acks) = Len(FleetOrder)
<1>1. /\ Distributing /\ delivery.left = {} /\ UNCHANGED <<signed, lists>>
      /\ delivery \in Delivery /\ delivery # NoDelivery
  BY DeliveryIsNot
     DEF AckGate, RevocationInv, RevocationTypeOK, Distributing, NoDelivery
<1>2. /\ delivery.bundle \in DOMAIN signed
      /\ \A i \in 1 .. Len(delivery.acks) :
            signed[delivery.bundle].entries \subseteq lists[FleetOrder[i]]
      /\ signed[delivery.bundle].entries \ delivery.left \subseteq lists[ServedGate]
  BY <1>1 DEF RevocationInv, Served
<1>3. delivery.acks \in Seq(GateAck) /\ ack \in GateAck
  <2>1. delivery.acks \in Seq(GateAck) /\ delivery.added \in Nat /\ delivery.already \in Nat
    BY <1>1 DEF Delivery
  <2>2. Len(delivery.acks) < Len(FleetOrder)
    BY <1>1 DEF RevocationInv, RevocationTypeOK
  <2> QED
    BY <2>1, <2>2, FleetFacts DEF ServedGate, GateAck
<1>4. delivery' = [delivery EXCEPT
                      !.acks = acks, !.added = 0, !.already = 0,
                      !.left = IF final THEN {} ELSE signed[delivery.bundle].entries,
                      !.stage = IF final THEN "done" ELSE "apply"]
  BY DEF AckGate
<1> HIDE DEF ack
<1>5. Len(acks) = Len(delivery.acks) + 1 /\ Len(delivery.acks) \in Nat
  BY <1>3
<1> HIDE DEF acks
<1>6. /\ delivery'.acks = acks /\ delivery'.bundle = delivery.bundle
      /\ delivery'.stage = "done" => final
      /\ delivery'.stage = "apply" => delivery'.left = signed[delivery.bundle].entries
  BY <1>1, <1>4 DEF Delivery
<1>7. ASSUME NEW i \in 1 .. Len(acks)
      PROVE  signed[delivery.bundle].entries \subseteq lists[FleetOrder[i]]
  <2>1. CASE i \in 1 .. Len(delivery.acks)
    BY <1>2, <2>1
  <2>2. CASE i = Len(delivery.acks) + 1
    BY <1>1, <1>2, <2>2 DEF ServedGate
  <2> QED
    BY <1>5, <2>1, <2>2
<1> QED
  BY <1>1, <1>2, <1>6, <1>7 DEF Served, Distributing

LEMMA DeliveryServedStep ==
    RevocationInv /\ [RevocationNext]_revocationVars => Served'
<1> SUFFICES ASSUME RevocationInv, [RevocationNext]_revocationVars
             PROVE  Served'
  OBVIOUS
<1>1. \A g \in Fleet : lists[g] \subseteq lists'[g]
  BY ListsGrow DEF RevocationInv
<1>2. CASE UNCHANGED <<signed, delivery>>
  BY <1>1, <1>2, ServedElsewhere
<1>3. CASE SignBundle
  <2>1. signed \in Seq(SignedBundle)
    BY DEF RevocationInv, RevocationTypeOK
  <2>2. PICK link \in {<<Len(signed) + 1, Len(signed)>>, <<1, NoBundle>>} :
           signed' = Append(signed, [version |-> link[1], previous |-> link[2],
                                     entries |-> listed])
    BY <1>3 DEF SignBundle
  <2> DEFINE new == [version |-> link[1], previous |-> link[2], entries |-> listed]
  <2>3. signed' = Append(signed, new)
    BY <2>2
  <2> HIDE DEF new
  <2>4. \A b \in DOMAIN signed : b \in DOMAIN signed' /\ signed'[b] = signed[b]
    BY <2>1, <2>3
  <2> QED
    BY <1>1, <1>3, <2>4, ServedElsewhere DEF SignBundle
<1>4. CASE BeginDelivery
  BY <1>4, ServedBegin
<1>5. ASSUME NEW id \in Capabilities, ApplyEntry(id) PROVE Served'
  BY <1>1, <1>5, ServedApply
<1>6. CASE AckGate
  BY <1>6, ServedAck
<1>7. \/ UNCHANGED <<signed, delivery>>
      \/ SignBundle \/ BeginDelivery \/ AckGate
      \/ \E id \in Capabilities : ApplyEntry(id)
  BY DEF RevocationNext, revocationVars, ListCapability, RevokeAtGate
<1> QED
  BY <1>2, <1>3, <1>4, <1>5, <1>6, <1>7

-----------------------------------------------------------------------------
(* The totals of a report. *)

(* Two counts that add up to the same at every place add up to so many     *)
(* times that: the pairs of the second, put on top of those of the first,  *)
(* fill the rectangle.                                                     *)
LEMMA TotalsAdd ==
    ASSUME NEW n \in Nat, NEW all \in Nat, NEW a, NEW b, DOMAIN a = 1 .. n, DOMAIN b = 1 .. n,
           \A i \in 1 .. n : a[i] \in Nat /\ b[i] \in Nat /\ a[i] + b[i] = all
    PROVE  Total(a) + Total(b) = n * all
<1> DEFINE rectangle == (1 .. n) \X (1 .. all)
           below == {p \in rectangle : p[2] <= a[p[1]]}
           above == {p \in rectangle : p[2] > a[p[1]]}
           second == {p \in rectangle : p[2] <= b[p[1]]}
           lower == [p \in above |-> <<p[1], p[2] - a[p[1]]>>]
<1>1. IsFiniteSet(rectangle) /\ Cardinality(rectangle) = n * all
  <2>1. /\ IsFiniteSet(1 .. n) /\ Cardinality(1 .. n) = n
        /\ IsFiniteSet(1 .. all) /\ Cardinality(1 .. all) = all
    BY FS_Interval
  <2>2. /\ IsFiniteSet(rectangle)
        /\ Cardinality(rectangle) = Cardinality(1 .. n) * Cardinality(1 .. all)
    BY <2>1, FS_Product
  <2> HIDE DEF rectangle
  <2> QED
    BY <2>1, <2>2, Zenon
<1>2. Total(a) = Cardinality(below)
  <2>1. UNION {{i} \X (1 .. a[i]) : i \in DOMAIN a} = below
    <3>1. ASSUME NEW p, p \in UNION {{i} \X (1 .. a[i]) : i \in DOMAIN a} PROVE p \in below
      <4>1. PICK i \in 1 .. n : p \in {i} \X (1 .. a[i])
        BY <3>1
      <4>2. PICK k \in 1 .. a[i] : p = <<i, k>>
        BY <4>1
      <4>3. k \in 1 .. all
        BY <4>2
      <4> QED
        BY <4>2, <4>3
    <3>2. ASSUME NEW p \in below PROVE p \in UNION {{i} \X (1 .. a[i]) : i \in DOMAIN a}
      <4>1. PICK i \in 1 .. n, k \in 1 .. all : p = <<i, k>> /\ k <= a[i]
        BY <3>2
      <4>2. p \in {i} \X (1 .. a[i])
        BY <4>1
      <4> QED
        BY <4>2
    <3> QED
      BY <3>1, <3>2
  <2> QED
    BY <2>1 DEF Total
<1>3. Total(b) = Cardinality(second)
  <2>1. UNION {{i} \X (1 .. b[i]) : i \in DOMAIN b} = second
    <3>1. ASSUME NEW p, p \in UNION {{i} \X (1 .. b[i]) : i \in DOMAIN b} PROVE p \in second
      <4>1. PICK i \in 1 .. n : p \in {i} \X (1 .. b[i])
        BY <3>1
      <4>2. PICK k \in 1 .. b[i] : p = <<i, k>>
        BY <4>1
      <4>3. k \in 1 .. all
        BY <4>2
      <4> QED
        BY <4>2, <4>3
    <3>2. ASSUME NEW p \in second PROVE p \in UNION {{i} \X (1 .. b[i]) : i \in DOMAIN b}
      <4>1. PICK i \in 1 .. n, k \in 1 .. all : p = <<i, k>> /\ k <= b[i]
        BY <3>2
      <4>2. p \in {i} \X (1 .. b[i])
        BY <4>1
      <4> QED
        BY <4>2
    <3> QED
      BY <3>1, <3>2
  <2> QED
    BY <2>1 DEF Total
<1>4. lower \in Bijection(above, second)
  <2>1. ASSUME NEW p \in above PROVE lower[p] \in second
    <3>1. PICK i \in 1 .. n, k \in 1 .. all : p = <<i, k>> /\ k > a[i]
      BY <2>1
    <3>2. lower[p] = <<i, k - a[i]>> /\ k - a[i] \in 1 .. all /\ k - a[i] <= b[i]
      BY <3>1
    <3> QED
      BY <3>1, <3>2
  <2>2. ASSUME NEW p \in above, NEW q \in above, lower[p] = lower[q] PROVE p = q
    <3>1. PICK i \in 1 .. n, k \in 1 .. all : p = <<i, k>> /\ lower[p] = <<i, k - a[i]>>
      BY <2>2
    <3>2. PICK j \in 1 .. n, l \in 1 .. all : q = <<j, l>> /\ lower[q] = <<j, l - a[j]>>
      BY <2>2
    <3> QED
      BY <2>2, <3>1, <3>2
  <2>3. ASSUME NEW p \in second PROVE \E q \in above : lower[q] = p
    <3>1. PICK i \in 1 .. n, k \in 1 .. all : p = <<i, k>> /\ k <= b[i]
      BY <2>3
    <3> DEFINE q == <<i, k + a[i]>>
    <3>2. k + a[i] \in 1 .. all /\ k + a[i] > a[i] /\ (k + a[i]) - a[i] = k
      BY <3>1
    <3>3. q \in above /\ lower[q] = p
      BY <3>1, <3>2
    <3> QED
      BY <3>3
  <2> HIDE DEF lower, above, second
  <2>4. lower \in [above -> second]
    BY <2>1 DEF lower
  <2> QED
    BY <2>2, <2>3, <2>4, Fun_IsBij
<1>5. /\ rectangle = below \cup above /\ below \cap above = {}
      /\ below \subseteq rectangle /\ above \subseteq rectangle
  <2>1. \A p \in rectangle : p[2] \in Int /\ a[p[1]] \in Int
    OBVIOUS
  <2> QED
    BY <2>1
<1> HIDE DEF rectangle, below, above, second, lower
<1>6. /\ IsFiniteSet(below) /\ IsFiniteSet(above)
      /\ Cardinality(below) \in Nat /\ Cardinality(above) \in Nat
  BY <1>1, <1>5, FS_Subset, FS_CardinalityType
<1>7. Cardinality(second) = Cardinality(above)
  <2>1. ExistsBijection(above, second)
    BY <1>4 DEF ExistsBijection
  <2> QED
    BY <1>6, <2>1, FS_Bijection
<1>8. Cardinality(rectangle) = Cardinality(below) + Cardinality(above) - Cardinality({})
  BY <1>5, <1>6, FS_Union
<1>9. Cardinality({}) = 0
  BY FS_EmptySet
<1> QED
  BY <1>1, <1>2, <1>3, <1>6, <1>7, <1>8, <1>9

(* The counts of a gate that was acknowledged add up to the entries. *)
Counted ==
    delivery # NoDelivery =>
        \A i \in 1 .. Len(delivery.acks) :
            delivery.acks[i].added + delivery.acks[i].already
                = Cardinality(signed[delivery.bundle].entries)

LEMMA CountedStep ==
    RevocationInv /\ Counted /\ [RevocationNext]_revocationVars => Counted'
<1> SUFFICES ASSUME RevocationInv, Counted, [RevocationNext]_revocationVars
             PROVE  Counted'
  OBVIOUS
<1>1. CASE UNCHANGED <<signed, delivery>>
  BY <1>1 DEF Counted
<1>2. CASE SignBundle
  <2>1. signed \in Seq(SignedBundle) /\ delivery' = delivery
    BY <1>2 DEF RevocationInv, RevocationTypeOK, SignBundle
  <2>2. PICK link \in {<<Len(signed) + 1, Len(signed)>>, <<1, NoBundle>>} :
           signed' = Append(signed, [version |-> link[1], previous |-> link[2],
                                     entries |-> listed])
    BY <1>2 DEF SignBundle
  <2> DEFINE new == [version |-> link[1], previous |-> link[2], entries |-> listed]
  <2>3. signed' = Append(signed, new)
    BY <2>2
  <2> HIDE DEF new
  <2>4. \A b \in DOMAIN signed : signed'[b] = signed[b]
    BY <2>1, <2>3
  <2>5. delivery # NoDelivery => delivery.bundle \in DOMAIN signed
    BY DEF RevocationInv, Served
  <2> QED
    BY <2>1, <2>4, <2>5 DEF Counted
<1>3. CASE BeginDelivery
  BY <1>3 DEF BeginDelivery, Counted
<1>4. ASSUME NEW id \in Capabilities, ApplyEntry(id) PROVE Counted'
  <2>1. delivery # NoDelivery /\ delivery \in Delivery /\ signed' = signed
    BY <1>4, DeliveryIsNot
       DEF ApplyEntry, RevocationInv, RevocationTypeOK, Distributing, NoDelivery
  <2>2. delivery'.bundle = delivery.bundle /\ delivery'.acks = delivery.acks
    BY <1>4, <2>1 DEF ApplyEntry, Delivery
  <2> QED
    BY <2>1, <2>2 DEF Counted
<1>5. CASE AckGate
  <2> DEFINE ack == [gate |-> ServedGate, added |-> delivery.added,
                     already |-> delivery.already]
             acks == Append(delivery.acks, ack)
             final == Len(acks) = Len(FleetOrder)
  <2>1. /\ delivery # NoDelivery /\ delivery \in Delivery /\ signed' = signed
        /\ delivery.left = {} /\ delivery.added \in Nat /\ delivery.already \in Nat
        /\ delivery.added + delivery.already + Cardinality(delivery.left)
              = Cardinality(signed[delivery.bundle].entries)
    BY <1>5, DeliveryIsNot
       DEF AckGate, RevocationInv, RevocationTypeOK, Distributing, NoDelivery, Delivery
  <2>2. ack.added + ack.already = Cardinality(signed[delivery.bundle].entries)
    <3>1. Cardinality({}) = 0
      BY FS_EmptySet
    <3> QED
      BY <2>1, <3>1
  <2>3. delivery.acks \in Seq(GateAck) /\ ack \in GateAck
    <3>1. Len(delivery.acks) < Len(FleetOrder) /\ delivery.acks \in Seq(GateAck)
      BY <1>5, <2>1 DEF AckGate, RevocationInv, RevocationTypeOK, Delivery
    <3> QED
      BY <2>1, <3>1, FleetFacts DEF ServedGate, GateAck
  <2>4. delivery' = [delivery EXCEPT
                        !.acks = acks, !.added = 0, !.already = 0,
                        !.left = IF final THEN {} ELSE signed[delivery.bundle].entries,
                        !.stage = IF final THEN "done" ELSE "apply"]
    BY <1>5 DEF AckGate
  <2> HIDE DEF ack
  <2>5. /\ Len(acks) = Len(delivery.acks) + 1 /\ Len(delivery.acks) \in Nat
        /\ acks[Len(delivery.acks) + 1] = ack
        /\ \A i \in 1 .. Len(delivery.acks) : acks[i] = delivery.acks[i]
    BY <2>3
  <2> HIDE DEF acks
  <2>6. delivery'.acks = acks /\ delivery'.bundle = delivery.bundle
    BY <2>1, <2>4 DEF Delivery
  <2>7. ASSUME NEW i \in 1 .. Len(acks)
        PROVE  acks[i].added + acks[i].already = Cardinality(signed[delivery.bundle].entries)
    <3>1. CASE i \in 1 .. Len(delivery.acks)
      BY <2>1, <2>5, <3>1 DEF Counted
    <3>2. CASE i = Len(delivery.acks) + 1
      BY <2>2, <2>5, <3>2
    <3> QED
      BY <2>5, <3>1, <3>2
  <2> QED
    BY <2>1, <2>6, <2>7 DEF Counted
<1>6. \/ UNCHANGED <<signed, delivery>>
      \/ SignBundle \/ BeginDelivery \/ AckGate
      \/ \E id \in Capabilities : ApplyEntry(id)
  BY DEF RevocationNext, revocationVars, ListCapability, RevokeAtGate
<1> QED
  BY <1>1, <1>2, <1>3, <1>4, <1>5, <1>6

(* A report of RevocationDistributor.distribute that verifies for a bundle *)
(* means that every gate of the fleet refuses every entry of that bundle,  *)
(* whatever the gates and the authority do in the meantime and afterwards, *)
(* and its totals count every entry once at every gate.                    *)
THEOREM ReportMeansRefused == RevocationSpec => []PassMeansRevoked
<1>1. RevocationInit => RevocationInv /\ Counted
  BY RevocationTypeInit, ServedInit DEF RevocationInv, Counted, RevocationInit
<1>2. RevocationInv /\ Counted /\ [RevocationNext]_revocationVars => RevocationInv' /\ Counted'
  BY RevocationTypeStep, DeliveryServedStep, CountedStep DEF RevocationInv
<1>3. RevocationInv /\ Counted => PassMeansRevoked
  <2> SUFFICES ASSUME RevocationInv, Counted, delivery.stage = "done"
               PROVE  /\ RevocationReportVerifies(RevocationReport, delivery.bundle)
                      /\ \A b \in DOMAIN signed :
                            RevocationReportVerifies(RevocationReport, b) =>
                                /\ RefusedEverywhere(b)
                                /\ RevocationReport.added + RevocationReport.already
                                       = RevocationReport.gates * Cardinality(signed[b].entries)
    BY DEF PassMeansRevoked
  <2> DEFINE acks == delivery.acks
             all == Cardinality(signed[delivery.bundle].entries)
  <2>1. delivery # NoDelivery /\ delivery \in Delivery
    BY DEF NoDelivery, RevocationInv, RevocationTypeOK
  <2>2. delivery.bundle \in DOMAIN signed /\ Len(acks) = Len(FleetOrder)
        /\ \A i \in 1 .. Len(acks) :
               signed[delivery.bundle].entries \subseteq lists[FleetOrder[i]]
    BY <2>1 DEF RevocationInv, Served
  <2>3. RefusedEverywhere(delivery.bundle)
    <3>1. ASSUME NEW g \in Fleet PROVE signed[delivery.bundle].entries \subseteq lists[g]
      <4>1. PICK i \in 1 .. Len(FleetOrder) : g = FleetOrder[i]
        BY FleetFacts
      <4> QED
        BY <2>2, <4>1
    <3> QED
      BY <3>1 DEF RefusedEverywhere
  <2>4. acks \in Seq(GateAck) /\ all \in Nat
    BY <2>1, <2>2, EntriesFinite DEF Delivery, RevocationInv
  <2>5. \A i \in 1 .. Len(acks) :
           acks[i].added \in Nat /\ acks[i].already \in Nat
           /\ acks[i].added + acks[i].already = all
    <3>1. \A i \in 1 .. Len(acks) : acks[i] \in GateAck
      BY <2>4
    <3> QED
      BY <2>1, <3>1 DEF Counted, GateAck
  <2>6. Len(acks) \in Nat /\ DOMAIN acks = 1 .. Len(acks)
    BY <2>4
  <2> HIDE DEF acks, all
  <2>7. AddedTotal(acks) + AlreadyTotal(acks) = Len(acks) * all
    <3> DEFINE a == [i \in DOMAIN acks |-> acks[i].added]
               b == [i \in DOMAIN acks |-> acks[i].already]
    <3>1. /\ DOMAIN a = 1 .. Len(acks) /\ DOMAIN b = 1 .. Len(acks)
          /\ \A i \in 1 .. Len(acks) : a[i] \in Nat /\ b[i] \in Nat /\ a[i] + b[i] = all
      BY <2>5, <2>6
    <3> HIDE DEF a, b
    <3>2. ASSUME NEW n \in Nat, n = Len(acks) PROVE Total(a) + Total(b) = n * all
      <4>1. /\ DOMAIN a = 1 .. n /\ DOMAIN b = 1 .. n
            /\ \A i \in 1 .. n : a[i] \in Nat /\ b[i] \in Nat /\ a[i] + b[i] = all
        BY <3>1, <3>2, Zenon
      <4>2. all \in Nat
        BY <2>4, Zenon
      <4> QED
        BY <4>1, <4>2, TotalsAdd, ZenonT(60)
    <3>3. Total(a) + Total(b) = Len(acks) * all
      BY <2>6, <3>2, Zenon
    <3> QED
      BY <3>3, Zenon DEF a, b, AddedTotal, AlreadyTotal
  <2>8. /\ RevocationReport.bundle = delivery.bundle /\ RevocationReport.acks = acks
        /\ RevocationReport.gates = Len(acks) /\ RevocationReport.added = AddedTotal(acks)
        /\ RevocationReport.already = AlreadyTotal(acks)
    BY DEF RevocationReport, acks
  <2>9. RevocationReportVerifies(RevocationReport, delivery.bundle)
    BY <2>8 DEF RevocationReportVerifies
  <2>10. \A b : RevocationReportVerifies(RevocationReport, b) => b = delivery.bundle
    BY <2>8 DEF RevocationReportVerifies
  <2>11. RevocationReport.added + RevocationReport.already
            = RevocationReport.gates * Cardinality(signed[delivery.bundle].entries)
    BY <2>7, <2>8, Zenon DEF all
  <2> QED
    BY <2>3, <2>9, <2>10, <2>11
<1> QED
  BY <1>1, <1>2, <1>3, PTL DEF RevocationSpec

-----------------------------------------------------------------------------
(***************************************************************************)
(* The simulated device keeps the one-shot promise whatever the store, and *)
(* a persistent store counts exactly.                                      *)
(*                                                                         *)
(* Once the in-memory store is lost nothing in it tells a command from one *)
(* that was executed.  What does is the nonce: a challenge is active in    *)
(* one object at most, is used up there, and no object comes back to it.   *)
(***************************************************************************)

(* An acknowledgement, without the bound on its count. *)
Entry == [object : Objects, order : Order, count : Nat]

Shape ==
    /\ persistent \in BOOLEAN
    /\ row \in [boot : Nat, last : Nat, count : Nat]
    /\ boots \in 0 .. MaxBoots /\ row.boot <= boots
    /\ offered \in Seq(Offer) /\ Len(offered) <= MaxNonces
    /\ row.last <= Len(offered)
    /\ \A n \in DOMAIN offered : offered[n].nonce = n /\ offered[n].sequence <= n
    /\ object \in [Objects -> Object \cup {Gone}]
    /\ ordered \subseteq Order
    /\ unsigned \subseteq Entry /\ replies \in Seq(Entry)
    /\ everExecuted \subseteq Order

Free(o) == object[o].stage = "free"
Consuming(o) == object[o].stage = "consume"

(* The nonce of the challenge that an object may still carry out. *)
HeldBy(o) ==
    IF Free(o) THEN object[o].active
    ELSE IF Consuming(o) THEN object[o].order.offer.nonce ELSE NoNonce

(* No two objects hold a challenge, and none holds one that was used.      *)
Fresh ==
    /\ \A o \in Objects : HeldBy(o) \in 0 .. Len(offered)
    /\ \A o, p \in Objects : HeldBy(o) = HeldBy(p) /\ HeldBy(o) # NoNonce => o = p
    /\ \A c \in everExecuted :
          c.offer.nonce <= Len(offered) /\ \A o \in Objects : HeldBy(o) # c.offer.nonce

(* A challenge is held in the boot it was made in. *)
OwnBoot ==
    \A o \in Objects :
        /\ Free(o) /\ object[o].active # NoNonce =>
              offered[object[o].active].boot = object[o].boot
        /\ Consuming(o) =>
              /\ object[o].order.offer.boot = object[o].boot
              /\ object[o].order.offer.nonce \in DOMAIN offered
              /\ object[o].order.offer = offered[object[o].order.offer.nonce]

Made == unsigned \cup {replies[i] : i \in DOMAIN replies}

(* Each acknowledgement, made or to be made, is of a command of its own.   *)
OneEach ==
    /\ \A r \in Made : r.order \in everExecuted
    /\ \A r, s \in unsigned : r.order = s.order => r = s
    /\ \A r \in unsigned, i \in DOMAIN replies : replies[i].order # r.order
    /\ \A i, j \in DOMAIN replies : replies[i].order = replies[j].order => i = j

SameBoot(r, s) == r.order.offer.boot = s.order.offer.boot

InStep(r, s) ==
    /\ r.order # s.order => r.count # s.count
    /\ SameBoot(r, s) =>
          (r.order.offer.sequence < s.order.offer.sequence <=> r.count < s.count)

(* The counts given out are behind the row's, and in step with the         *)
(* sequence numbers of each boot.                                          *)
Counts ==
    /\ IsFiniteSet(everExecuted) /\ row.count = Cardinality(everExecuted)
    /\ \A r \in Made :
          /\ r.count <= row.count /\ r.order.offer.boot <= row.boot
          /\ r.order.offer.boot = row.boot => r.order.offer.sequence <= row.last
    /\ \A r, s \in Made : InStep(r, s)

SimInv ==
    /\ Shape /\ Fresh /\ OwnBoot /\ OneEach
    /\ persistent => Counts

-----------------------------------------------------------------------------
LEMMA SimInvInit == SimulatedInit => SimInv
<1> SUFFICES ASSUME SimulatedInit PROVE SimInv
  OBVIOUS
<1>1. Shape
  BY SimulatedAssumption DEF SimulatedInit, Shape, NoRow
<1>2. Fresh /\ OwnBoot
  BY DEF SimulatedInit, Fresh, OwnBoot, HeldBy, Free, Consuming, Gone, NoNonce
<1>3. OneEach /\ Made = {}
  BY DEF SimulatedInit, OneEach, Made
<1>4. Counts
  BY <1>3, FS_EmptySet DEF SimulatedInit, Counts, NoRow
<1> QED
  BY <1>1, <1>2, <1>3, <1>4 DEF SimInv

(* What the set Object says of an object in each stage. *)
LEMMA ObjectShape ==
    ASSUME Shape, NEW o \in Objects
    PROVE  /\ Free(o) => /\ object[o].boot \in 1 .. MaxBoots
                         /\ object[o].active \in 0 .. MaxNonces
           /\ Consuming(o) => /\ object[o].boot \in 1 .. MaxBoots
                              /\ object[o].order \in Order
           /\ object[o] # Gone => Free(o) \/ Consuming(o)
           /\ ~(Free(o) /\ Consuming(o))
BY DEF Shape, Free, Consuming, Object, Gone

LEMMA OfferShape ==
    ASSUME Shape, NEW n \in DOMAIN offered
    PROVE  /\ offered[n] \in Offer /\ n \in 1 .. Len(offered)
           /\ offered[n].nonce = n /\ offered[n].sequence \in 1 .. n
<1>1. offered[n] \in Offer /\ n \in 1 .. Len(offered)
  BY DEF Shape
<1>2. offered[n].nonce = n /\ offered[n].sequence <= n
  BY DEF Shape
<1>3. offered[n].sequence \in Nat /\ offered[n].sequence >= 1
  BY <1>1, SimulatedAssumption DEF Offer
<1> QED
  BY <1>1, <1>2, <1>3

LEMMA OrderShape ==
    ASSUME NEW c \in Order
    PROVE  /\ c.offer \in Offer /\ c.offer.boot \in Nat /\ c.offer.nonce \in Nat \ {0}
           /\ c.offer.sequence \in Nat
BY SimulatedAssumption DEF Order, Offer

LEMMA MadeShape == ASSUME Shape PROVE Made \subseteq Entry
BY DEF Shape, Made

-----------------------------------------------------------------------------
(* The steps that execute nothing and acknowledge nothing. *)

Aside == UNCHANGED <<everExecuted, replies, unsigned>>

LEMMA AsideOneEach == ASSUME OneEach, Aside PROVE OneEach'
BY DEF OneEach, Aside, Made

LEMMA StartKeeps ==
    ASSUME SimInv, NEW o \in Objects, Start(o) PROVE SimInv'
<1> DEFINE new == [stage |-> "free", boot |-> row.boot + 1, active |-> NoNonce]
<1>1. /\ Shape /\ boots' = boots + 1 /\ boots < MaxBoots /\ boots \in Nat
      /\ row' = [row EXCEPT !.boot = row.boot + 1, !.last = 0]
      /\ UNCHANGED <<persistent, offered, ordered, unsigned, everExecuted, replies>>
  BY SimulatedAssumption DEF SimInv, Shape, Start, BeginBoot
<1>2. /\ row \in [boot : Nat, last : Nat, count : Nat]
      /\ row'.boot = row.boot + 1 /\ row'.last = 0 /\ row'.count = row.count
      /\ row' \in [boot : Nat, last : Nat, count : Nat]
  <2>1. row \in [boot : Nat, last : Nat, count : Nat]
    BY <1>1 DEF Shape
  <2>2. row' = [boot |-> row.boot + 1, last |-> 0, count |-> row.count]
    BY <1>1, <2>1
  <2> QED
    BY <2>1, <2>2
<1>3. object' = [object EXCEPT ![o] = new]
  BY <1>2 DEF Start
<1>4. new \in Object /\ new.stage = "free" /\ new.active = NoNonce
  BY <1>1, <1>2, SimulatedAssumption DEF Shape, Object, NoNonce
<1> HIDE DEF new
<1>5. Shape'
  BY <1>1, <1>2, <1>3, <1>4, SimulatedAssumption DEF Shape
<1>6. /\ \A p \in Objects : p # o => object'[p] = object[p]
      /\ object'[o] = new
  BY <1>1, <1>3 DEF Shape
<1>7. \A p \in Objects : HeldBy(p)' = IF p = o THEN NoNonce ELSE HeldBy(p)
  BY <1>4, <1>6 DEF HeldBy, Free, Consuming
<1>8. Fresh'
  BY <1>1, <1>7, OrderShape DEF SimInv, Fresh, Shape, NoNonce
<1>9. OwnBoot'
  BY <1>1, <1>4, <1>6 DEF SimInv, OwnBoot, Free, Consuming
<1>10. OneEach'
  BY <1>1, AsideOneEach DEF SimInv, Aside
<1>11. persistent' => Counts'
  <2> SUFFICES ASSUME persistent PROVE Counts'
    BY <1>1
  <2>1. Made' = Made /\ Counts
    BY <1>1 DEF Made, SimInv
  <2>2. \A r \in Made : r.order.offer.boot \in Nat /\ r.order.offer.boot <= row.boot
    BY <1>1, <2>1, MadeShape, OrderShape DEF Counts, Entry
  <2> QED
    BY <1>1, <1>2, <2>1, <2>2 DEF Counts
<1> QED
  BY <1>5, <1>8, <1>9, <1>10, <1>11 DEF SimInv

LEMMA OfferKeeps ==
    ASSUME SimInv, NEW o \in Objects, OfferChallenge(o) PROVE SimInv'
<1> DEFINE n == Len(offered) + 1
           x == [boot |-> row.boot, nonce |-> n, sequence |-> row.last + 1]
           new == [stage |-> "free", boot |-> object[o].boot, active |-> n]
<1>1. /\ Shape /\ Free(o) /\ object[o].boot = row.boot /\ Len(offered) < MaxNonces
      /\ offered' = Append(offered, x)
      /\ object' = [object EXCEPT ![o].active = Len(offered')]
      /\ UNCHANGED <<persistent, ordered, boots, row, executed, unsigned,
                     everExecuted, replies>>
  BY DEF SimInv, OfferChallenge, Free
<1>2. /\ offered \in Seq(Offer) /\ Len(offered) \in Nat /\ row.last \in Nat
      /\ row.last <= Len(offered)
      /\ object[o] \in Object /\ object[o].boot \in 1 .. MaxBoots
  BY <1>1, ObjectShape DEF Shape, Gone, Free
<1>3. x \in Offer
  BY <1>1, <1>2, SimulatedAssumption DEF Offer
<1>4. x.boot = object[o].boot /\ x.nonce = n /\ x.sequence <= n
  BY <1>1, <1>2
<1> HIDE DEF x
<1>5. /\ Len(offered') = n /\ DOMAIN offered' = 1 .. n /\ offered'[n] = x
      /\ offered' \in Seq(Offer)
      /\ \A i \in DOMAIN offered : offered'[i] = offered[i] /\ i \in 1 .. Len(offered)
  BY <1>1, <1>2, <1>3
<1>6. new \in Object /\ new.stage = "free" /\ new.active = n /\ new.boot = object[o].boot
  BY <1>1, <1>2, SimulatedAssumption DEF Object
<1>7. object' = [object EXCEPT ![o] = new]
  <2>1. object[o] \in [stage : {"free"}, boot : 1 .. MaxBoots, active : 0 .. MaxNonces]
    BY <1>1, <1>2 DEF Free, Object
  <2>2. [object[o] EXCEPT !.active = n] = new
    BY <2>1
  <2>3. object' = [object EXCEPT ![o] = [object[o] EXCEPT !.active = n]]
    BY <1>1, <1>5
  <2> QED
    BY <2>2, <2>3
<1>8. /\ \A p \in Objects : p # o => object'[p] = object[p]
      /\ object'[o] = new
  BY <1>1, <1>7 DEF Shape
<1> HIDE DEF new
<1>9. Shape'
  <2>1. \A i \in DOMAIN offered' : offered'[i].nonce = i /\ offered'[i].sequence <= i
    BY <1>1, <1>2, <1>4, <1>5 DEF Shape
  <2>2. object' \in [Objects -> Object \cup {Gone}]
    BY <1>1, <1>6, <1>7 DEF Shape
  <2> QED
    BY <1>1, <1>2, <1>5, <2>1, <2>2, SimulatedAssumption DEF Shape
<1>10. \A p \in Objects : HeldBy(p)' = IF p = o THEN n ELSE HeldBy(p)
  BY <1>6, <1>8 DEF HeldBy, Free, Consuming
<1>11. Fresh'
  <2>1. \A c \in everExecuted : c.offer.nonce \in Nat
    BY <1>1, OrderShape DEF Shape
  <2> QED
    BY <1>1, <1>2, <1>5, <1>10, <2>1 DEF SimInv, Fresh, NoNonce
<1>12. OwnBoot'
  <2> SUFFICES ASSUME NEW p \in Objects
               PROVE  /\ Free(p)' /\ object'[p].active # NoNonce =>
                            offered'[object'[p].active].boot = object'[p].boot
                      /\ Consuming(p)' =>
                            /\ object'[p].order.offer.boot = object'[p].boot
                            /\ object'[p].order.offer.nonce \in DOMAIN offered'
                            /\ object'[p].order.offer
                                 = offered'[object'[p].order.offer.nonce]
    BY DEF OwnBoot
  <2>1. CASE p = o
    BY <1>4, <1>5, <1>6, <1>8, <2>1 DEF Consuming
  <2>2. CASE p # o
    <3>1. Free(p) => object[p].active \in 0 .. Len(offered)
      BY DEF SimInv, Fresh, HeldBy
    <3>2. DOMAIN offered = 1 .. Len(offered)
      BY <1>2
    <3> QED
      BY <1>2, <1>5, <1>8, <2>2, <3>1, <3>2
         DEF SimInv, OwnBoot, Free, Consuming, NoNonce
  <2> QED
    BY <2>1, <2>2
<1>13. OneEach'
  BY <1>1, AsideOneEach DEF SimInv, Aside
<1>14. persistent' => Counts'
  BY <1>1 DEF SimInv, Counts, Made
<1> QED
  BY <1>9, <1>11, <1>12, <1>13, <1>14 DEF SimInv

LEMMA SignOrderKeeps == ASSUME SimInv, SignOrder PROVE SimInv'
<1>1. /\ Shape
      /\ UNCHANGED <<persistent, offered, boots, row, executed, object, unsigned,
                     everExecuted, replies>>
  BY DEF SimInv, SignOrder
<1>2. ordered' \subseteq Order
  BY <1>1 DEF SignOrder, Shape, Order
<1>3. Shape'
  BY <1>1, <1>2 DEF Shape
<1>4. Fresh' /\ OwnBoot'
  BY <1>1 DEF SimInv, Fresh, OwnBoot, HeldBy, Free, Consuming
<1>5. OneEach'
  BY <1>1, AsideOneEach DEF SimInv, Aside
<1>6. persistent' => Counts'
  BY <1>1 DEF SimInv, Counts, Made
<1> QED
  BY <1>3, <1>4, <1>5, <1>6 DEF SimInv

(* An object takes up a challenge it holds, or loses it. *)
LEMMA ObjectStep ==
    ASSUME SimInv, NEW o \in Objects, NEW new \in Object \cup {Gone},
           object' = [object EXCEPT ![o] = new],
           UNCHANGED offered, UNCHANGED everExecuted,
           \/ new = Gone
           \/ new.stage = "free" /\ new.active = NoNonce
           \/ /\ new.stage = "consume" /\ new.order.offer.nonce = HeldBy(o)
              /\ new.order.offer.boot = new.boot
              /\ new.order.offer.nonce \in DOMAIN offered
              /\ new.order.offer = offered[new.order.offer.nonce]
    PROVE  /\ object' \in [Objects -> Object \cup {Gone}]
           /\ Fresh' /\ OwnBoot'
<1>1. /\ object \in [Objects -> Object \cup {Gone}]
      /\ \A c \in everExecuted : c.offer.nonce \in Nat \ {0}
  BY OrderShape DEF SimInv, Shape
<1>2. /\ \A p \in Objects : p # o => object'[p] = object[p]
      /\ object'[o] = new
  BY <1>1
<1>3. \A p \in Objects : p # o => HeldBy(p)' = HeldBy(p)
  BY <1>2 DEF HeldBy, Free, Consuming
<1>4. HeldBy(o)' = NoNonce \/ HeldBy(o)' = HeldBy(o)
  BY <1>2 DEF HeldBy, Free, Consuming, Gone
<1>5. Fresh'
  BY <1>1, <1>3, <1>4 DEF SimInv, Fresh, NoNonce
<1>6. OwnBoot'
  BY <1>2 DEF SimInv, OwnBoot, Free, Consuming, Gone
<1> QED
  BY <1>1, <1>5, <1>6

LEMMA TakeKeeps ==
    ASSUME SimInv, NEW o \in Objects, TakeOrder(o) \/ Expire(o) PROVE SimInv'
<1> DEFINE dropped == [stage |-> "free", boot |-> object[o].boot, active |-> NoNonce]
           taken(c) == [stage |-> "consume", boot |-> object[o].boot, order |-> c]
<1>1. /\ Shape /\ Free(o) /\ object[o].active # NoNonce
      /\ UNCHANGED <<persistent, offered, ordered, boots, row, executed, unsigned,
                     everExecuted, replies>>
  BY DEF SimInv, TakeOrder, Expire, Free, outside
<1>2. /\ object[o] \in [stage : {"free"}, boot : 1 .. MaxBoots, active : 0 .. MaxNonces]
      /\ object[o].boot \in 1 .. MaxBoots
  BY <1>1 DEF Shape, Free, Object, Gone
<1>3. [object[o] EXCEPT !.active = NoNonce] = dropped
  BY <1>2
<1>4. \/ object' = [object EXCEPT ![o] = dropped]
      \/ \E c \in ordered : Fits(object[o].active, c)
                            /\ object' = [object EXCEPT ![o] = taken(c)]
  <2>1. CASE TakeOrder(o)
    BY <1>3, <2>1 DEF TakeOrder
  <2>2. CASE Expire(o)
    BY <1>3, <2>2 DEF Expire
  <2> QED
    BY <2>1, <2>2
<1>5. /\ object' \in [Objects -> Object \cup {Gone}]
      /\ Fresh' /\ OwnBoot'
  <2>1. CASE object' = [object EXCEPT ![o] = dropped]
    <3>1. dropped \in Object \cup {Gone} /\ dropped.stage = "free"
          /\ dropped.active = NoNonce
      BY <1>2, SimulatedAssumption DEF Object, NoNonce
    <3> HIDE DEF dropped
    <3> QED
      BY <1>1, <2>1, <3>1, ObjectStep
  <2>2. CASE \E c \in ordered : Fits(object[o].active, c)
                                /\ object' = [object EXCEPT ![o] = taken(c)]
    <3>1. PICK c \in ordered : Fits(object[o].active, c)
                               /\ object' = [object EXCEPT ![o] = taken(c)]
      BY <2>2
    <3> DEFINE new == taken(c)
    <3>2. /\ new \in Object \cup {Gone} /\ new.stage = "consume" /\ new.order = c
          /\ new.boot = object[o].boot
      BY <1>1, <1>2 DEF Object, Shape
    <3>3. object' = [object EXCEPT ![o] = new]
      BY <3>1
    <3> HIDE DEF new
    <3>4. object[o].active \in DOMAIN offered /\ HeldBy(o) = object[o].active
      BY <1>1 DEF SimInv, Shape, Fresh, HeldBy, NoNonce
    <3>5. c.offer = offered[object[o].active] /\ c.offer.nonce = object[o].active
      BY <1>1, <3>1, <3>4, OfferShape DEF Fits
    <3>6. c.offer.boot = object[o].boot
      BY <1>1, <3>5 DEF SimInv, OwnBoot
    <3> QED
      BY <1>1, <3>2, <3>3, <3>4, <3>5, <3>6, ObjectStep
  <2> QED
    BY <1>4, <2>1, <2>2
<1>6. Shape'
  BY <1>1, <1>5 DEF Shape
<1>7. OneEach'
  BY <1>1, AsideOneEach DEF SimInv, Aside
<1>8. persistent' => Counts'
  BY <1>1 DEF SimInv, Counts, Made
<1> QED
  BY <1>5, <1>6, <1>7, <1>8 DEF SimInv

LEMMA DieKeeps == ASSUME SimInv, NEW o \in Objects, Die(o) PROVE SimInv'
<1>1. /\ Shape /\ unsigned' \subseteq unsigned
      /\ UNCHANGED <<persistent, offered, ordered, boots, everExecuted, replies>>
  BY DEF SimInv, Die, outside
<1>2. OneEach'
  BY <1>1 DEF SimInv, OneEach, Made
<1>3. CASE persistent
  <2>1. object' = [object EXCEPT ![o] = Gone] /\ UNCHANGED row
    BY <1>3 DEF Die
  <2>2. /\ object' \in [Objects -> Object \cup {Gone}]
        /\ Fresh' /\ OwnBoot'
    BY <1>1, <2>1, ObjectStep
  <2>3. Shape'
    BY <1>1, <2>1, <2>2 DEF Shape
  <2>4. Made' \subseteq Made
    BY <1>1 DEF Made
  <2>5. Counts'
    BY <1>1, <1>3, <2>1, <2>4 DEF SimInv, Counts
  <2> QED
    BY <1>2, <2>2, <2>3, <2>5 DEF SimInv
<1>4. CASE ~persistent
  <2>1. /\ object' = [p \in Objects |-> Gone]
        /\ row' = [boot |-> 0, last |-> 0, count |-> 0]
    BY <1>4 DEF Die, NoRow
  <2>2. Shape'
    BY <1>1, <2>1 DEF Shape
  <2>3. \A p \in Objects : HeldBy(p)' = NoNonce
    BY <2>1 DEF HeldBy, Free, Consuming, Gone
  <2>4. \A c \in everExecuted : c.offer.nonce # NoNonce
    BY <1>1, OrderShape DEF Shape, NoNonce
  <2>5. Fresh'
    BY <1>1, <2>3, <2>4 DEF SimInv, Fresh, Shape, NoNonce
  <2>6. OwnBoot'
    BY <2>1 DEF OwnBoot, Free, Consuming, Gone
  <2> QED
    BY <1>1, <1>2, <1>4, <2>2, <2>5, <2>6 DEF SimInv
<1> QED
  BY <1>3, <1>4

(* What an object consumes has been consumed by nobody before. *)
LEMMA ConsumedFirst ==
    ASSUME SimInv, NEW o \in Objects, Consuming(o)
    PROVE  /\ object[o].order \in Order \ everExecuted
           /\ HeldBy(o) = object[o].order.offer.nonce
BY ObjectShape DEF SimInv, Fresh, HeldBy, Free

(* The transaction accepts: one more command, whose acknowledgement e has  *)
(* the next count and the next sequence number of the row's boot.          *)
LEMMA AcceptCounts ==
    ASSUME SimInv, Counts, NEW c \in Order \ everExecuted, NEW e \in Entry,
           e.order = c, e.count = row.count + 1, c.offer.boot = row.boot,
           c.offer.sequence = row.last + 1,
           row' = [boot |-> row.boot, last |-> row.last + 1, count |-> row.count + 1],
           everExecuted' = everExecuted \cup {c},
           unsigned' = unsigned \cup {e}, UNCHANGED replies
    PROVE  Counts'
<1>1. /\ row.boot \in Nat /\ row.last \in Nat /\ row.count \in Nat
      /\ row'.boot = row.boot /\ row'.last = row.last + 1 /\ row'.count = row.count + 1
  BY DEF SimInv, Shape
<1>2. Made' = Made \cup {e} /\ Made \subseteq Entry
  BY MadeShape DEF Made, SimInv
<1>3. IsFiniteSet(everExecuted') /\ row'.count = Cardinality(everExecuted')
  BY <1>1, FS_AddElement DEF Counts
<1>4. \A r \in Made :
          /\ r.count \in Nat /\ r.order.offer.boot \in Nat
          /\ r.order.offer.sequence \in Nat
          /\ r.count <= row.count /\ r.order.offer.boot <= row.boot
          /\ r.order.offer.boot = row.boot => r.order.offer.sequence <= row.last
  BY <1>2, OrderShape DEF Counts, Entry
<1>5. \A r \in Made' :
          /\ r.count <= row'.count /\ r.order.offer.boot <= row'.boot
          /\ r.order.offer.boot = row'.boot => r.order.offer.sequence <= row'.last
  BY <1>1, <1>2, <1>4
<1>6. \A r \in Made : InStep(r, e) /\ InStep(e, r)
  BY <1>1, <1>4 DEF InStep, SameBoot
<1>7. InStep(e, e)
  BY <1>1 DEF InStep
<1>8. \A r, s \in Made' : InStep(r, s)
  BY <1>2, <1>6, <1>7 DEF Counts
<1> QED
  BY <1>3, <1>5, <1>8 DEF Counts, InStep, SameBoot

LEMMA ConsumeKeeps ==
    ASSUME SimInv, NEW o \in Objects, ConsumeOrder(o) PROVE SimInv'
<1> DEFINE c == object[o].order
           e == [object |-> o, order |-> c, count |-> row.count + 1]
           new == [stage |-> "free", boot |-> object[o].boot, active |-> NoNonce]
<1>1. /\ Shape /\ Consuming(o) /\ object' = [object EXCEPT ![o] = new]
      /\ UNCHANGED <<persistent, offered, ordered, boots, replies>>
  BY DEF SimInv, ConsumeOrder, Consuming, Freed, outside
<1>2. /\ object[o].boot \in 1 .. MaxBoots /\ c \in Order \ everExecuted
      /\ HeldBy(o) = c.offer.nonce /\ c.offer.boot = object[o].boot
      /\ c.offer.nonce \in DOMAIN offered /\ c.offer = offered[c.offer.nonce]
  BY <1>1, ObjectShape, ConsumedFirst DEF SimInv, OwnBoot
<1>3. new \in Object \cup {Gone} /\ new.stage = "free" /\ new.active = NoNonce
  BY <1>2, SimulatedAssumption DEF Object, NoNonce
<1> HIDE DEF new
<1>4. /\ row.boot \in Nat /\ row.last \in Nat /\ row.count \in Nat
      /\ row \in [boot : Nat, last : Nat, count : Nat]
  BY <1>1 DEF Shape
<1>5. CASE UNCHANGED <<row, everExecuted, unsigned>>
  <2>1. /\ object' \in [Objects -> Object \cup {Gone}]
        /\ Fresh' /\ OwnBoot'
    BY <1>1, <1>3, <1>5, ObjectStep
  <2>2. Shape'
    BY <1>1, <1>5, <2>1 DEF Shape
  <2>3. OneEach' /\ (persistent' => Counts')
    BY <1>1, <1>5, AsideOneEach DEF SimInv, Counts, Made, Aside
  <2> QED
    BY <2>1, <2>2, <2>3 DEF SimInv
<1>6. CASE /\ MayConsume(o)
           /\ row' = [row EXCEPT !.last = c.offer.sequence, !.count = row.count + 1]
           /\ everExecuted' = everExecuted \cup {c}
           /\ unsigned' = unsigned \cup {[object |-> o, order |-> c, count |-> row'.count]}
  <2>1. /\ row.boot = object[o].boot /\ c.offer.sequence = row.last + 1
    BY <1>6 DEF MayConsume
  <2>2. row' = [boot |-> row.boot, last |-> row.last + 1, count |-> row.count + 1]
    BY <1>4, <1>6, <2>1
  <2>3. e \in Entry /\ e.order = c /\ e.count = row.count + 1 /\ e.object = o
    BY <1>2, <1>4 DEF Entry
  <2>4. unsigned' = unsigned \cup {e}
    BY <1>6, <2>2
  <2> HIDE DEF e
  <2>5. row' \in [boot : Nat, last : Nat, count : Nat] /\ row'.boot = row.boot
    BY <1>4, <2>2
  <2>6. row'.last <= Len(offered)
    BY <1>1, <1>2, <1>4, <2>1, <2>2, OfferShape
  <2>7. object' \in [Objects -> Object \cup {Gone}]
    BY <1>1, <1>3 DEF Shape
  <2>8. Shape'
    BY <1>1, <1>2, <1>6, <2>3, <2>4, <2>5, <2>6, <2>7 DEF Shape
  <2>9. /\ object'[o] = new
        /\ \A p \in Objects : p # o => object'[p] = object[p]
    BY <1>1 DEF Shape
  <2>10. \A p \in Objects : HeldBy(p)' = IF p = o THEN NoNonce ELSE HeldBy(p)
    BY <1>3, <2>9 DEF HeldBy, Free, Consuming
  <2>11. c.offer.nonce \in 1 .. Len(offered)
    BY <1>1, <1>2, OfferShape
  <2>12. Fresh'
    <3>1. \A x \in everExecuted : x.offer.nonce # NoNonce
      BY <1>1, OrderShape DEF Shape, NoNonce
    <3>2. \A p \in Objects : HeldBy(p)' \in 0 .. Len(offered)
      BY <1>1, <2>10 DEF SimInv, Fresh, Shape, NoNonce
    <3>3. \A p, q \in Objects : HeldBy(p)' = HeldBy(q)' /\ HeldBy(p)' # NoNonce => p = q
      BY <2>10 DEF SimInv, Fresh
    <3>4. \A p \in Objects : HeldBy(p)' # c.offer.nonce
      BY <1>2, <2>10, <2>11 DEF SimInv, Fresh, NoNonce
    <3>5. \A x \in everExecuted :
              x.offer.nonce <= Len(offered) /\ \A p \in Objects : HeldBy(p)' # x.offer.nonce
      BY <2>10, <3>1 DEF SimInv, Fresh
    <3> QED
      BY <1>1, <1>6, <2>11, <3>2, <3>3, <3>4, <3>5 DEF Fresh
  <2>13. OwnBoot'
    BY <1>1, <1>3, <2>9 DEF SimInv, OwnBoot, Free, Consuming
  <2>14. OneEach'
    BY <1>1, <1>2, <1>6, <2>3, <2>4 DEF SimInv, OneEach, Made
  <2>15. persistent' => Counts'
    <3>1. SUFFICES ASSUME persistent PROVE Counts'
      BY <1>1
    <3>2. Counts
      BY <3>1 DEF SimInv
    <3>3. /\ c \in Order \ everExecuted /\ c.offer.boot = row.boot
          /\ everExecuted' = everExecuted \cup {c} /\ UNCHANGED replies
      BY <1>1, <1>2, <1>6, <2>1
    <3> HIDE DEF c
    <3> QED
      BY <2>1, <2>2, <2>3, <2>4, <3>2, <3>3, AcceptCounts
  <2> QED
    BY <2>8, <2>12, <2>13, <2>14, <2>15 DEF SimInv
<1> QED
  BY <1>5, <1>6 DEF ConsumeOrder

LEMMA SignReplyKeeps ==
    ASSUME SimInv, NEW e \in unsigned, SignReply(e) PROVE SimInv'
<1>1. /\ Shape /\ unsigned' = unsigned \ {e} /\ replies' = Append(replies, e)
      /\ UNCHANGED <<row, executed, object, everExecuted, persistent, offered,
                     ordered, boots>>
  BY DEF SimInv, SignReply, outside
<1>2. e \in Entry /\ replies \in Seq(Entry)
  BY <1>1 DEF Shape
<1>3. /\ replies' \in Seq(Entry) /\ DOMAIN replies' = 1 .. (Len(replies) + 1)
      /\ DOMAIN replies = 1 .. Len(replies) /\ Len(replies) \in Nat
      /\ \A i \in DOMAIN replies : replies'[i] = replies[i]
      /\ replies'[Len(replies) + 1] = e
  BY <1>1, <1>2
<1>4. \A i \in DOMAIN replies' : i \in DOMAIN replies \/ i = Len(replies) + 1
  BY <1>3
<1>5. Shape'
  BY <1>1, <1>3 DEF Shape
<1>6. Fresh' /\ OwnBoot'
  BY <1>1 DEF SimInv, Fresh, OwnBoot, HeldBy, Free, Consuming
<1>7. Made' \subseteq Made
  BY <1>1, <1>3, <1>4 DEF Made
<1>8. OneEach'
  <2>1. \A r \in Made' : r.order \in everExecuted'
    BY <1>1, <1>7 DEF SimInv, OneEach
  <2>2. \A r, s \in unsigned' : r.order = s.order => r = s
    BY <1>1 DEF SimInv, OneEach
  <2>3. \A r \in unsigned', i \in DOMAIN replies' : replies'[i].order # r.order
    BY <1>1, <1>3, <1>4 DEF SimInv, OneEach
  <2>4. \A i, j \in DOMAIN replies' : replies'[i].order = replies'[j].order => i = j
    BY <1>1, <1>3, <1>4 DEF SimInv, OneEach
  <2> QED
    BY <2>1, <2>2, <2>3, <2>4 DEF OneEach
<1>9. persistent' => Counts'
  BY <1>1, <1>7 DEF SimInv, Counts, InStep, SameBoot
<1> QED
  BY <1>5, <1>6, <1>8, <1>9 DEF SimInv

LEMMA SimInvStep == SimInv /\ [SimulatedNext]_simulatedVars => SimInv'
<1> SUFFICES ASSUME SimInv, [SimulatedNext]_simulatedVars PROVE SimInv'
  OBVIOUS
<1>1. ASSUME NEW o \in Objects,
             Start(o) \/ OfferChallenge(o) \/ TakeOrder(o) \/ Expire(o)
             \/ ConsumeOrder(o) \/ Die(o)
      PROVE  SimInv'
  BY <1>1, StartKeeps, OfferKeeps, TakeKeeps, ConsumeKeeps, DieKeeps
<1>2. ASSUME NEW e \in unsigned, SignReply(e) PROVE SimInv'
  BY <1>2, SignReplyKeeps
<1>3. CASE SignOrder
  BY <1>3, SignOrderKeeps
<1>4. CASE UNCHANGED simulatedVars
  BY <1>4 DEF simulatedVars, SimInv, Shape, Fresh, OwnBoot, HeldBy, Free, Consuming,
              OneEach, Counts, Made
<1> QED
  BY <1>1, <1>2, <1>3, <1>4 DEF SimulatedNext

-----------------------------------------------------------------------------
(* The promise. *)

Acted == [i \in DOMAIN replies |-> replies[i].order]

(* Signing an acknowledgement appends its command to those acted on. *)
LEMMA ActedAppend ==
    ASSUME NEW s \in Seq(Entry), NEW e \in Entry
    PROVE  [i \in DOMAIN Append(s, e) |-> Append(s, e)[i].order]
             = Append([i \in DOMAIN s |-> s[i].order], e.order)
<1> DEFINE old == [i \in DOMAIN s |-> s[i].order]
           new == [i \in DOMAIN Append(s, e) |-> Append(s, e)[i].order]
<1>1. /\ DOMAIN s = 1 .. Len(s) /\ Len(s) \in Nat
      /\ DOMAIN Append(s, e) = 1 .. (Len(s) + 1)
      /\ \A i \in 1 .. Len(s) : Append(s, e)[i] = s[i] /\ s[i] \in Entry
      /\ Append(s, e)[Len(s) + 1] = e
  OBVIOUS
<1>2. old \in Seq(Order) /\ Len(old) = Len(s)
  <2>1. old \in [1 .. Len(s) -> Order]
    BY <1>1 DEF Entry
  <2> QED
    BY <1>1, <2>1
<1>3. e.order \in Order
  BY DEF Entry
<1>4. /\ Append(old, e.order) \in Seq(Order)
      /\ DOMAIN Append(old, e.order) = 1 .. (Len(s) + 1)
      /\ \A i \in 1 .. Len(s) : Append(old, e.order)[i] = old[i]
      /\ Append(old, e.order)[Len(s) + 1] = e.order
  <2> HIDE DEF old
  <2> QED
    BY <1>1, <1>2, <1>3
<1>5. \A i \in 1 .. (Len(s) + 1) : new[i] = Append(old, e.order)[i]
  <2> SUFFICES ASSUME NEW i \in 1 .. (Len(s) + 1)
               PROVE  new[i] = Append(old, e.order)[i]
    OBVIOUS
  <2>1. new[i] = Append(s, e)[i].order
    BY <1>1
  <2>2. CASE i \in 1 .. Len(s)
    <3>1. old[i] = s[i].order
      BY <1>1, <2>2
    <3> QED
      BY <1>1, <1>4, <2>1, <2>2, <3>1
  <2>3. CASE i = Len(s) + 1
    BY <1>1, <1>4, <2>1, <2>3
  <2> QED
    BY <1>1, <2>2, <2>3
<1>6. new = [i \in 1 .. (Len(s) + 1) |-> new[i]]
  BY <1>1
<1>7. Append(old, e.order) = [i \in 1 .. (Len(s) + 1) |-> Append(old, e.order)[i]]
  <2> HIDE DEF old
  <2> QED
    BY <1>4
<1> QED
  BY <1>5, <1>6, <1>7

(* Each step of the device is a step or a stutter of the promise. *)
LEMMA PromiseStep ==
    ASSUME SimInv, [SimulatedNext]_simulatedVars
    PROVE  [Promise!OneShotNext]_(Promise!oneShotVars)
<1>1. ASSUME NEW o \in Objects, ConsumeOrder(o)
      PROVE  [Promise!OneShotNext]_(Promise!oneShotVars)
  <2>1. Consuming(o) /\ UNCHANGED replies
    BY <1>1 DEF ConsumeOrder, Consuming
  <2>2. object[o].order \in Order \ everExecuted
    BY <2>1, ConsumedFirst
  <2>3. \/ UNCHANGED everExecuted
        \/ everExecuted' = everExecuted \cup {object[o].order}
    BY <1>1 DEF ConsumeOrder
  <2>4. UNCHANGED Acted
    BY <2>1 DEF Acted
  <2>5. CASE UNCHANGED everExecuted
    BY <2>4, <2>5 DEF Promise!oneShotVars, Acted
  <2>6. CASE everExecuted' = everExecuted \cup {object[o].order}
    <3>1. Promise!Consume(object[o].order)
      BY <2>2, <2>4, <2>6 DEF Promise!Consume, Acted
    <3> QED
      BY <2>2, <3>1 DEF Promise!OneShotNext
  <2> QED
    BY <2>3, <2>5, <2>6
<1>2. ASSUME NEW e \in unsigned, SignReply(e)
      PROVE  [Promise!OneShotNext]_(Promise!oneShotVars)
  <2>1. /\ replies' = Append(replies, e) /\ UNCHANGED everExecuted
        /\ e \in Entry /\ replies \in Seq(Entry)
    BY <1>2 DEF SimInv, Shape, SignReply
  <2>2. Acted' = Append(Acted, e.order)
    BY <2>1, ActedAppend DEF Acted
  <2>3. e.order \in everExecuted /\ \A i \in DOMAIN replies : replies[i].order # e.order
    BY DEF SimInv, OneEach, Made
  <2>4. e.order \in Order
    BY <2>1 DEF Entry
  <2>5. Promise!Act(e.order)
    BY <2>1, <2>2, <2>3 DEF Promise!Act, Acted
  <2> QED
    BY <2>4, <2>5 DEF Promise!OneShotNext
<1>3. CASE \/ SignOrder
           \/ \E o \in Objects : Start(o) \/ OfferChallenge(o) \/ TakeOrder(o)
                                 \/ Expire(o) \/ Die(o)
           \/ UNCHANGED simulatedVars
  <2>1. UNCHANGED <<everExecuted, replies>>
    BY <1>3 DEF SignOrder, Start, OfferChallenge, TakeOrder, Expire, Die, simulatedVars
  <2> QED
    BY <2>1 DEF Promise!oneShotVars
<1> QED
  BY <1>1, <1>2, <1>3 DEF SimulatedNext

LEMMA CountsAreExact == ASSUME SimInv, persistent PROVE CountsExact
<1>1. /\ replies \in Seq(Entry) /\ Counts /\ OneEach
  BY DEF SimInv, Shape
<1>2. \A i \in DOMAIN replies : replies[i] \in Made
  BY DEF Made
<1>3. \A i, j \in DOMAIN replies : i # j => replies[i].order # replies[j].order
  BY <1>1 DEF OneEach
<1> QED
  BY <1>1, <1>2, <1>3 DEF Counts, CountsExact, InStep, SameBoot

(* The device objects keep the firmware's promise whatever the store, with *)
(* any number of objects, restarts and repeated commands: a command is     *)
(* executed at most once and acknowledged at most once after that; and a   *)
(* SQLite store counts exactly.                                            *)
THEOREM SimulatedKeepsPromise == SimulatedSpec => SimulatedIsOneShot
<1>1. SimulatedInit => Promise!OneShotInit
  BY DEF SimulatedInit, Promise!OneShotInit
<1>2. SimInv /\ [SimulatedNext]_simulatedVars
        => [Promise!OneShotNext]_(Promise!oneShotVars)
  BY PromiseStep
<1>3. SimInv => (persistent => CountsExact)
  BY CountsAreExact
<1> QED
  BY <1>1, <1>2, <1>3, SimInvInit, SimInvStep, PTL
     DEF SimulatedSpec, SimulatedIsOneShot, Promise!OneShotSpec

-----------------------------------------------------------------------------
(* The bounds on the store's counters: what a store counts is what it has  *)
(* executed, and each of those commands used up a challenge of its own.    *)

NoncesDiffer == \A c, d \in everExecuted : c.offer.nonce = d.offer.nonce => c = d

SimTypeInv ==
    /\ executed \subseteq everExecuted
    /\ IsFiniteSet(executed) /\ row.count = Cardinality(executed)
    /\ NoncesDiffer
    /\ \A o \in Objects : object[o] # Gone => object[o].boot <= row.boot
    /\ \A r \in Made : r.count \in 1 .. MaxNonces

(* Commands of different challenges are no more than there were challenges.*)
LEMMA NoMoreThanChallenges ==
    ASSUME NEW n \in Nat, NEW S \in SUBSET Order,
           \A c \in S : c.offer.nonce \in 1 .. n,
           \A c, d \in S : c.offer.nonce = d.offer.nonce => c = d
    PROVE  IsFiniteSet(S) /\ Cardinality(S) \in 0 .. n
<1> DEFINE nonce == [c \in S |-> c.offer.nonce]
<1>1. nonce \in Injection(S, 1 .. n)
  BY DEF Injection, IsInjective
<1>2. IsFiniteSet(1 .. n) /\ Cardinality(1 .. n) = n
  BY FS_Interval
<1>3. IsFiniteSet(S) /\ Cardinality(S) <= n
  BY <1>1, <1>2, FS_Injection
<1> QED
  BY <1>3, FS_CardinalityType

LEMMA SimTypeInit == SimulatedInit => SimTypeInv
  BY FS_EmptySet DEF SimulatedInit, SimTypeInv, NoncesDiffer, NoRow, Made

(* The transaction accepts: the store counts one more, and still no more   *)
(* than there are challenges.                                              *)
LEMMA ConsumeTypes ==
    ASSUME SimInv, SimInv', SimTypeInv, NEW o \in Objects, ConsumeOrder(o)
    PROVE  SimTypeInv'
<1> DEFINE c == object[o].order
           new == [stage |-> "free", boot |-> object[o].boot, active |-> NoNonce]
<1>1. /\ Shape /\ Shape' /\ Fresh /\ Consuming(o)
      /\ object' = [object EXCEPT ![o] = new] /\ UNCHANGED <<offered, replies>>
  BY DEF SimInv, ConsumeOrder, Consuming, Freed, outside
<1>2. /\ object[o] # Gone /\ c \in Order \ everExecuted /\ HeldBy(o) = c.offer.nonce
  BY <1>1, ConsumedFirst DEF Gone, Consuming
<1>3. /\ new.boot = object[o].boot /\ new.boot <= row.boot
  BY <1>2 DEF SimTypeInv
<1> HIDE DEF new
<1>4. \A p \in Objects : object'[p] = IF p = o THEN new ELSE object[p]
  BY <1>1 DEF Shape
<1>5. row.boot \in Nat /\ row.count \in Nat /\ row.last \in Nat
      /\ row \in [boot : Nat, last : Nat, count : Nat]
  BY <1>1 DEF Shape
<1>6. CASE UNCHANGED <<row, executed, everExecuted, unsigned>>
  <2>1. Made' = Made
    BY <1>1, <1>6 DEF Made
  <2> QED
    BY <1>3, <1>4, <1>6, <2>1 DEF SimTypeInv, NoncesDiffer
<1>7. CASE /\ MayConsume(o)
           /\ row' = [row EXCEPT !.last = c.offer.sequence, !.count = row.count + 1]
           /\ executed' = executed \cup {c}
           /\ everExecuted' = everExecuted \cup {c}
           /\ unsigned' = unsigned \cup {[object |-> o, order |-> c, count |-> row'.count]}
  <2>1. row'.count = row.count + 1 /\ row'.boot = row.boot
    BY <1>5, <1>7
  <2>2. c \notin executed /\ executed' \subseteq everExecuted'
    BY <1>7 DEF MayConsume, SimTypeInv
  <2>3. IsFiniteSet(executed') /\ row'.count = Cardinality(executed')
    <3> HIDE DEF c
    <3>1. IsFiniteSet(executed) /\ row.count = Cardinality(executed)
      BY DEF SimTypeInv
    <3>2. /\ IsFiniteSet(executed \cup {c})
          /\ Cardinality(executed \cup {c}) = Cardinality(executed) + 1
      BY <2>2, <3>1, FS_AddElement
    <3> QED
      BY <1>7, <2>1, <3>1, <3>2
  <2>4. NoncesDiffer'
    BY <1>1, <1>2, <1>7 DEF NoncesDiffer, Fresh, SimTypeInv
  <2>5. /\ everExecuted' \in SUBSET Order /\ Len(offered) \in Nat /\ Len(offered) <= MaxNonces
        /\ Fresh'
    BY <1>1 DEF Shape, SimInv
  <2>6. \A x \in everExecuted' : x.offer.nonce \in 1 .. Len(offered)
    BY <1>1, <2>5, OrderShape DEF Fresh
  <2>7. Cardinality(executed') \in 0 .. Len(offered)
    <3>1. /\ executed' \in SUBSET Order
          /\ \A x \in executed' : x.offer.nonce \in 1 .. Len(offered)
          /\ \A x, y \in executed' : x.offer.nonce = y.offer.nonce => x = y
      BY <2>2, <2>4, <2>5, <2>6 DEF NoncesDiffer
    <3> QED
      BY <2>5, <3>1, NoMoreThanChallenges
  <2>8. row'.count \in 1 .. MaxNonces
    BY <1>5, <2>1, <2>3, <2>5, <2>7, SimulatedAssumption
  <2>9. \A r \in Made' : r.count \in 1 .. MaxNonces
    <3>1. \A r \in Made' : r \in Made \/ r = [object |-> o, order |-> c, count |-> row'.count]
      BY <1>1, <1>7 DEF Made
    <3> QED
      BY <2>8, <3>1 DEF SimTypeInv
  <2>10. \A p \in Objects : object'[p] # Gone => object'[p].boot <= row'.boot
    BY <1>3, <1>4, <2>1 DEF SimTypeInv
  <2> QED
    BY <2>2, <2>3, <2>4, <2>9, <2>10 DEF SimTypeInv
<1> QED
  BY <1>6, <1>7 DEF ConsumeOrder

LEMMA SimTypeStep ==
    ASSUME SimInv, SimInv', SimTypeInv, [SimulatedNext]_simulatedVars
    PROVE  SimTypeInv'
<1>1. ASSUME NEW o \in Objects, Start(o) PROVE SimTypeInv'
  <2>1. /\ row.boot \in Nat /\ row'.boot = row.boot + 1 /\ row'.count = row.count
        /\ Made' = Made /\ UNCHANGED <<executed, everExecuted>>
    BY <1>1 DEF Start, BeginBoot, SimInv, Shape, Made
  <2>2. \A p \in Objects : object'[p] # Gone => object'[p].boot <= row'.boot
    <3>1. object' = [object EXCEPT ![o] = [stage |-> "free", boot |-> row'.boot,
                                           active |-> NoNonce]]
      BY <1>1 DEF Start
    <3>2. \A p \in Objects : object[p] # Gone =>
             object[p].boot \in 1 .. MaxBoots /\ object[p].boot <= row.boot
      BY ObjectShape DEF SimTypeInv, SimInv
    <3>3. \A p \in Objects : p # o => object'[p] = object[p]
      BY <3>1 DEF SimInv, Shape
    <3>4. object'[o].boot = row'.boot
      BY <3>1 DEF SimInv, Shape
    <3> QED
      BY <2>1, <3>2, <3>3, <3>4, SimulatedAssumption
  <2> QED
    BY <2>1, <2>2 DEF SimTypeInv, NoncesDiffer
<1>2. ASSUME NEW o \in Objects, OfferChallenge(o) \/ TakeOrder(o) \/ Expire(o)
      PROVE  SimTypeInv'
  <2>1. Made' = Made /\ UNCHANGED <<row, executed, everExecuted>>
    BY <1>2 DEF OfferChallenge, TakeOrder, Expire, Made
  <2>2. object \in [Objects -> Object \cup {Gone}] /\ object[o] # Gone
    BY <1>2 DEF SimInv, Shape, OfferChallenge, TakeOrder, Expire, Gone
  <2>3. PICK new : /\ object' = [object EXCEPT ![o] = new] /\ new.boot = object[o].boot
    <3>1. object[o].stage = "free" /\ object[o] \in Object
      BY <1>2, <2>2 DEF OfferChallenge, TakeOrder, Expire
    <3>2. \A n : [object[o] EXCEPT !.active = n].boot = object[o].boot
      BY <3>1 DEF Object
    <3>3. CASE OfferChallenge(o)
      BY <3>2, <3>3 DEF OfferChallenge
    <3>4. CASE Expire(o)
      BY <3>2, <3>4 DEF Expire
    <3>5. CASE TakeOrder(o)
      <4>1. PICK order \in ordered :
               object' = [object EXCEPT ![o] =
                  IF Fits(object[o].active, order)
                  THEN [stage |-> "consume", boot |-> object[o].boot, order |-> order]
                  ELSE [object[o] EXCEPT !.active = NoNonce]]
        BY <3>5 DEF TakeOrder
      <4> QED
        BY <3>2, <4>1
    <3> QED
      BY <1>2, <3>3, <3>4, <3>5
  <2>4. \A p \in Objects : object'[p] = IF p = o THEN new ELSE object[p]
    BY <2>2, <2>3
  <2> QED
    BY <2>1, <2>2, <2>3, <2>4 DEF SimTypeInv, NoncesDiffer
<1>3. ASSUME NEW o \in Objects, ConsumeOrder(o) PROVE SimTypeInv'
  BY <1>3, ConsumeTypes
<1>4. ASSUME NEW o \in Objects, Die(o) PROVE SimTypeInv'
  <2>1. Made' \subseteq Made /\ UNCHANGED everExecuted
    BY <1>4 DEF Die, Made
  <2>2. CASE persistent
    <3>1. UNCHANGED <<row, executed>> /\ object' = [object EXCEPT ![o] = Gone]
      BY <1>4, <2>2 DEF Die
    <3>2. \A p \in Objects : object'[p] = IF p = o THEN Gone ELSE object[p]
      BY <3>1 DEF SimInv, Shape
    <3> QED
      BY <2>1, <3>1, <3>2 DEF SimTypeInv, NoncesDiffer
  <2>3. CASE ~persistent
    <3>1. row' = NoRow /\ executed' = {} /\ object' = [p \in Objects |-> Gone]
      BY <1>4, <2>3 DEF Die
    <3> QED
      BY <2>1, <3>1, FS_EmptySet DEF SimTypeInv, NoncesDiffer, NoRow
  <2> QED
    BY <2>2, <2>3
<1>5. ASSUME NEW reply \in unsigned, SignReply(reply) PROVE SimTypeInv'
  <2>1. /\ replies \in Seq(Entry) /\ replies' = Append(replies, reply)
        /\ unsigned' = unsigned \ {reply} /\ reply \in Entry
        /\ UNCHANGED <<row, executed, everExecuted, object>>
    BY <1>5 DEF SignReply, SimInv, Shape
  <2>2. Made' \subseteq Made
    BY <2>1 DEF Made
  <2> QED
    BY <2>1, <2>2 DEF SimTypeInv, NoncesDiffer
<1>6. CASE SignOrder \/ UNCHANGED simulatedVars
  BY <1>6 DEF SignOrder, simulatedVars, SimTypeInv, NoncesDiffer, Made
<1> QED
  BY <1>1, <1>2, <1>3, <1>4, <1>5, <1>6 DEF SimulatedNext

(* Every variable keeps its shape within its bounds: the store counts no   *)
(* more than there were challenges, whatever dies and starts again, and no *)
(* object has a boot counter that the store has not reached.               *)
THEOREM SimulatedTypeCorrect == SimulatedSpec => []SimulatedTypeOK
<1>1. SimInv /\ SimTypeInv => SimulatedTypeOK
  <2> SUFFICES ASSUME SimInv, SimTypeInv PROVE SimulatedTypeOK
    OBVIOUS
  <2> USE SimulatedAssumption
  <2>1. /\ row \in [boot : Nat, last : Nat, count : Nat] /\ boots \in 0 .. MaxBoots
        /\ row.boot <= boots /\ row.last <= Len(offered) /\ Len(offered) <= MaxNonces
        /\ Len(offered) \in Nat /\ everExecuted \in SUBSET Order
    BY DEF SimInv, Shape
  <2>2. row.count \in 0 .. MaxNonces
    <3>1. \A c \in everExecuted : c.offer.nonce \in 1 .. Len(offered)
      BY <2>1, OrderShape DEF SimInv, Fresh
    <3>2. Cardinality(executed) \in 0 .. Len(offered)
      <4>1. executed \in SUBSET Order
        BY <2>1 DEF SimTypeInv
      <4> QED
        BY <2>1, <3>1, <4>1, NoMoreThanChallenges DEF SimTypeInv, NoncesDiffer
    <3> QED
      BY <2>1, <3>2 DEF SimTypeInv
  <2>3. row \in [boot : 0 .. MaxBoots, last : 0 .. MaxNonces, count : 0 .. MaxNonces]
    BY <2>1, <2>2
  <2>4. \A r \in Made : r \in Reply
    BY MadeShape DEF SimInv, SimTypeInv, Entry, Reply
  <2>5. unsigned \subseteq Reply /\ {r.order : r \in unsigned} \subseteq everExecuted
    BY <2>4 DEF Made, SimInv, OneEach
  <2>6. replies \in Seq(Reply)
    <3>1. replies \in Seq(Entry) /\ \A i \in DOMAIN replies : replies[i] \in Reply
      BY <2>4 DEF SimInv, Shape, Made
    <3> QED
      BY <3>1
  <2> QED
    BY <2>3, <2>5, <2>6 DEF SimulatedTypeOK, SimInv, Shape, SimTypeInv
<1> QED
  BY <1>1, SimInvInit, SimInvStep, SimTypeInit, SimTypeStep, PTL DEF SimulatedSpec

-----------------------------------------------------------------------------
(***************************************************************************)
(* The trusted clock never gives a reading that lies before the last one   *)
(* or too far after it, for any number of threads, any source and any      *)
(* bound, as long as no reading was kept between another's comparison and  *)
(* its assignment.                                                         *)
(*                                                                         *)
(* The readings given do not say why: what makes the next one fit is that  *)
(* a reading which has passed the comparison still passes it when it is    *)
(* kept.  That is lost exactly when another thread keeps a reading in      *)
(* between, and KeepReading notes it.                                      *)
(***************************************************************************)

(* A reading that has passed the comparison would pass it again. *)
StillAcceptable ==
    ~interleaved =>
        \A r \in Readers : reader[r].stage = "checked" => Acceptable(reader[r].reading)

TimeInv == TimeTypeOK /\ StillAcceptable /\ TrustedTimeGrows

-----------------------------------------------------------------------------
(* Every variable keeps its shape, and _last is the last reading given.    *)

LEMMA TimeTypeInit == TimeInit => TimeTypeOK
<1> SUFFICES ASSUME TimeInit PROVE TimeTypeOK
  OBVIOUS
<1>1. given \in Seq(Wall) /\ Len(given) = 0
  BY DEF TimeInit
<1>2. wall \in Wall /\ resets \in 0 .. MaxResets /\ Len(given) <= MaxReadings
  BY <1>1, TimeAssumption DEF TimeInit
<1>3. latest = Unset /\ given = <<>> /\ interleaved \in BOOLEAN
  BY DEF TimeInit
<1>4. reader \in [Readers -> Reader \cup {NotReading}]
  BY DEF TimeInit
<1> QED
  BY <1>1, <1>2, <1>3, <1>4 DEF TimeTypeOK

LEMMA TimeTypeStep == TimeTypeOK /\ [TimeNext]_timeVars => TimeTypeOK'
<1> SUFFICES ASSUME TimeTypeOK, [TimeNext]_timeVars PROVE TimeTypeOK'
  OBVIOUS
<1> USE TimeAssumption DEF TimeTypeOK
<1>1. CASE WallMoves
  BY <1>1 DEF WallMoves
<1>2. CASE Reset
  BY <1>2 DEF Reset, Unset
<1>3. ASSUME NEW r \in Readers, ReadSource(r) PROVE TimeTypeOK'
  <2>1. [stage |-> "read", reading |-> wall] \in Reader
    BY DEF Reader
  <2> QED
    BY <1>3, <2>1 DEF ReadSource
<1>4. ASSUME NEW r \in Readers, CheckReading(r) PROVE TimeTypeOK'
  <2>1. reader[r] \in Reader
    BY <1>4 DEF CheckReading, NotReading
  <2>2. [reader[r] EXCEPT !.stage = "checked"] \in Reader
    BY <2>1 DEF Reader
  <2> QED
    BY <1>4, <2>2 DEF CheckReading
<1>5. ASSUME NEW r \in Readers, KeepReading(r) PROVE TimeTypeOK'
  <2>1. reader[r].reading \in Wall
    BY <1>5 DEF KeepReading, NotReading, Reader
  <2>2. given' = Append(given, latest') /\ latest' \in Wall
    BY <1>5, <2>1 DEF KeepReading
  <2>3. given' \in Seq(Wall) /\ Len(given') = Len(given) + 1 /\ given'[Len(given')] = latest'
    BY <2>2
  <2>4. given' # <<>> /\ Len(given') <= MaxReadings
    BY <1>5, <2>3 DEF KeepReading
  <2> QED
    BY <1>5, <2>2, <2>3, <2>4 DEF KeepReading
<1>6. CASE UNCHANGED timeVars
  BY <1>6 DEF timeVars
<1> QED
  BY <1>1, <1>2, <1>3, <1>4, <1>5, <1>6 DEF TimeNext

-----------------------------------------------------------------------------
(* The readings given. *)

LEMMA TimeInvInit == TimeInit => TimeInv
<1> SUFFICES ASSUME TimeInit PROVE TimeInv
  OBVIOUS
<1>1. StillAcceptable
  BY DEF TimeInit, StillAcceptable, NotReading
<1>2. TrustedTimeGrows
  BY DEF TimeInit, TrustedTimeGrows
<1> QED
  BY <1>1, <1>2, TimeTypeInit DEF TimeInv

LEMMA TimeInvStep == TimeInv /\ [TimeNext]_timeVars => TimeInv'
<1> SUFFICES ASSUME TimeInv, [TimeNext]_timeVars PROVE StillAcceptable' /\ TrustedTimeGrows'
  BY TimeTypeStep DEF TimeInv
<1> USE DEF TimeInv
<1>1. CASE WallMoves
  BY <1>1 DEF WallMoves, StillAcceptable, TrustedTimeGrows, Acceptable
<1>2. CASE Reset
  BY <1>2 DEF Reset, StillAcceptable, TrustedTimeGrows, Acceptable
<1>3. ASSUME NEW r \in Readers, ReadSource(r)
      PROVE  StillAcceptable' /\ TrustedTimeGrows'
  <2>1. StillAcceptable'
    BY <1>3 DEF ReadSource, StillAcceptable, Acceptable, TimeTypeOK
  <2> QED
    BY <1>3, <2>1 DEF ReadSource, TrustedTimeGrows
<1>4. ASSUME NEW r \in Readers, CheckReading(r)
      PROVE  StillAcceptable' /\ TrustedTimeGrows'
  <2>1. reader[r] \in Reader
    BY <1>4 DEF CheckReading, NotReading, TimeTypeOK
  <2>2. reader'[r].stage = "checked" =>
           reader'[r].reading = reader[r].reading /\ Acceptable(reader[r].reading)
    BY <1>4, <2>1 DEF CheckReading, NotReading, Reader, TimeTypeOK
  <2>3. \A q \in Readers \ {r} : reader'[q] = reader[q]
    BY <1>4 DEF CheckReading, TimeTypeOK
  <2>4. latest' = latest /\ interleaved' = interleaved
    BY <1>4 DEF CheckReading
  <2>5. StillAcceptable'
    BY <2>2, <2>3, <2>4 DEF StillAcceptable, Acceptable
  <2> QED
    BY <1>4, <2>5 DEF CheckReading, TrustedTimeGrows
<1>5. ASSUME NEW r \in Readers, KeepReading(r)
      PROVE  StillAcceptable' /\ TrustedTimeGrows'
  <2> SUFFICES ASSUME ~interleaved' PROVE StillAcceptable' /\ TrustedTimeGrows'
    BY DEF StillAcceptable, TrustedTimeGrows
  <2>1. ~interleaved /\ ~Overtakes(r)
    BY <1>5 DEF KeepReading
  <2>2. StillAcceptable'
    BY <1>5, <2>1 DEF KeepReading, Overtakes, StillAcceptable, NotReading, TimeTypeOK
  <2>3. latest' = reader[r].reading /\ Acceptable(latest') /\ latest' \in Wall
    BY <1>5, <2>1 DEF KeepReading, StillAcceptable, TimeTypeOK, Reader, NotReading
  <2>4. given' = Append(given, latest') /\ given \in Seq(Wall)
    BY <1>5 DEF KeepReading, TimeTypeOK
  <2>5. /\ Len(given') = Len(given) + 1
        /\ given'[Len(given')] = latest'
        /\ \A i \in 1 .. Len(given) : given'[i] = given[i]
    BY <2>3, <2>4
  <2>6. given # <<>> => latest = given[Len(given)] /\ latest \in Wall /\ latest # Unset
    BY <2>4, TimeAssumption DEF TimeTypeOK, Unset
  <2>7. given # <<>> => latest <= latest' /\ latest' - latest <= MaxForwardJump
    BY <2>3, <2>6 DEF Acceptable
  <2>8. ASSUME NEW i \in 1 .. Len(given') - 1
        PROVE  given'[i] <= given'[i + 1] /\ given'[i + 1] - given'[i] <= MaxForwardJump
    <3>1. CASE i = Len(given)
      BY <3>1, <2>4, <2>5, <2>6, <2>7, <2>8
    <3>2. CASE i # Len(given)
      <4>1. i \in 1 .. Len(given) - 1 /\ i + 1 \in 1 .. Len(given)
        BY <3>2, <2>4, <2>5, <2>8
      <4> QED
        BY <4>1, <2>1, <2>5 DEF TrustedTimeGrows
    <3> QED
      BY <3>1, <3>2
  <2> QED
    BY <2>2, <2>8 DEF TrustedTimeGrows
<1>6. CASE UNCHANGED timeVars
  BY <1>6 DEF timeVars, StillAcceptable, TrustedTimeGrows, Acceptable
<1> QED
  BY <1>1, <1>2, <1>3, <1>4, <1>5, <1>6 DEF TimeNext

(* The readings given since the last reset never go back and never jump,   *)
(* unless two calls of now() were interleaved: trust.py's promise.         *)
THEOREM TimeNeverGoesBack == TimeSpec => []TrustedTimeGrows
<1>1. TimeInv => TrustedTimeGrows
  BY DEF TimeInv
<1> QED
  BY <1>1, TimeInvInit, TimeInvStep, PTL DEF TimeSpec

-----------------------------------------------------------------------------
(***************************************************************************)
(* The registries of names and of things: an invariant for each, that says *)
(* of what is there now where in its history it comes from.                *)
(***************************************************************************)

(* A name that is active is as it was issued, and has not ended. *)
NamesInv ==
    /\ day \in Days /\ issued \in Seq([owner : Owner, since : Days])
    /\ ended \subseteq DOMAIN issued
    /\ \A n \in DOMAIN active : n \in DOMAIN issued /\ active[n] = issued[n] /\ n \notin ended

(* The descriptions of a thing that could be registered. *)
Registrable(d) == d.actions /\ (d.pointer = NoPointer \/ d.authenticated)

(* A thing is as the first of them describes it. *)
ToldFirst(t) ==
    \E i \in DOMAIN described[t] :
        /\ Registrable(described[t][i])
        /\ \A j \in DOMAIN described[t] : Registrable(described[t][j]) => i <= j
        /\ things[t].pointer = described[t][i].pointer
        /\ things[t].pointer # NoPointer => things[t].authenticated

ThingsInv ==
    /\ described \in [Things -> Seq(Description)] /\ DOMAIN things \subseteq Things
    /\ \A t \in Things :
          IF t \in DOMAIN things THEN ToldFirst(t)
          ELSE \A i \in DOMAIN described[t] : ~Registrable(described[t][i])

(* Names are added and taken away, and none comes back. *)
LEMMA NamesStep == NamesInv /\ [NamesNext \/ ThingsNext]_directoryVars => NamesInv'
<1> SUFFICES ASSUME NamesInv, [NamesNext \/ ThingsNext]_directoryVars PROVE NamesInv'
  OBVIOUS
<1> DEFINE Record == [owner : Owner, since : Days]
<1>0. /\ day \in Days /\ issued \in Seq(Record) /\ ended \subseteq DOMAIN issued
      /\ \A n \in DOMAIN active : n \in DOMAIN issued /\ active[n] = issued[n] /\ n \notin ended
  BY DEF NamesInv
<1>1. ASSUME NEW owner \in Owner, NEW names \in SUBSET DOMAIN active, With(names, owner),
             day' = day, ended' \subseteq DOMAIN issued, ended' \cap names = {}
      PROVE  NamesInv'
  <2> DEFINE new == [owner |-> owner, since |-> day]
             next == Len(issued) + 1
  <2>1. /\ new \in Record /\ next \notin DOMAIN issued /\ DOMAIN issued = 1 .. Len(issued)
        /\ Len(issued) \in Nat
    BY <1>0
  <2>2. issued' = Append(issued, new)
        /\ active' = [m \in names \cup {next} |-> IF m = next THEN new ELSE active[m]]
    BY <1>1 DEF With
  <2> HIDE DEF Record, new
  <2>3. /\ issued' \in Seq(Record) /\ DOMAIN issued' = 1 .. next /\ issued'[next] = new
        /\ \A n \in DOMAIN issued : issued'[n] = issued[n] /\ n \in DOMAIN issued'
    BY <1>0, <2>1, <2>2
  <2>4. ASSUME NEW n \in DOMAIN active'
        PROVE  n \in DOMAIN issued' /\ active'[n] = issued'[n] /\ n \notin ended'
    <3>1. CASE n = next
      BY <1>1, <2>1, <2>2, <2>3, <3>1
    <3>2. CASE n # next
      <4>1. n \in names /\ active'[n] = active[n] /\ n \in DOMAIN active
        BY <2>2, <3>2
      <4> QED
        BY <1>0, <1>1, <2>3, <4>1
    <3> QED
      BY <3>1, <3>2
  <2>5. ended' \subseteq DOMAIN issued'
    BY <1>1, <2>3
  <2> QED
    BY <1>0, <1>1, <2>3, <2>4, <2>5 DEF NamesInv, Record
<1>2. ASSUME NEW n \in DOMAIN active, active' = Only(DOMAIN active \ {n}),
             ended' = ended \cup {n}, day' = day, issued' = issued
      PROVE  NamesInv'
  BY <1>0, <1>2 DEF NamesInv, Only
<1>3. ASSUME NEW owner \in Owner, IssueName(owner) PROVE NamesInv'
  BY <1>0, <1>1, <1>3 DEF IssueName
<1>4. ASSUME NEW owner \in Owner, Rotate(owner) PROVE NamesInv'
  <2> DEFINE names == DOMAIN active \ OwnedBy(owner)
  <2>1. /\ With(names, owner) /\ day' = day
        /\ ended' = ended \cup {n \in DOMAIN issued : issued[n].owner = owner}
    BY <1>4 DEF Rotate
  <2>2. ended' \subseteq DOMAIN issued /\ ended' \cap names = {}
    BY <1>0, <2>1 DEF OwnedBy
  <2> QED
    BY <1>1, <2>1, <2>2
<1>5. ASSUME NEW n \in DOMAIN active, RevokeName(n) PROVE NamesInv'
  BY <1>2, <1>5 DEF RevokeName
<1>6. ASSUME NEW n \in DOMAIN active, ResolveExpired(n) PROVE NamesInv'
  BY <1>2, <1>6 DEF ResolveExpired
<1>7. ASSUME NEW d \in Days, SetClock(d) PROVE NamesInv'
  BY <1>0, <1>7 DEF SetClock, NamesInv
<1>8. CASE ThingsNext
  BY <1>0, <1>8 DEF ThingsNext, Register, Remove, NamesInv
<1>9. CASE UNCHANGED directoryVars
  BY <1>0, <1>9 DEF directoryVars, NamesInv
<1> QED
  BY <1>3, <1>4, <1>5, <1>6, <1>7, <1>8, <1>9 DEF NamesNext

(* The first description that could be registered was. *)
LEMMA ThingsStep == ThingsInv /\ [NamesNext \/ ThingsNext]_directoryVars => ThingsInv'
<1> SUFFICES ASSUME ThingsInv, [NamesNext \/ ThingsNext]_directoryVars PROVE ThingsInv'
  OBVIOUS
<1>0. /\ described \in [Things -> Seq(Description)] /\ DOMAIN things \subseteq Things
      /\ \A t \in Things : IF t \in DOMAIN things THEN ToldFirst(t)
                           ELSE \A i \in DOMAIN described[t] : ~Registrable(described[t][i])
  BY DEF ThingsInv
<1>1. ASSUME NEW d \in Description, Register(d) PROVE ThingsInv'
  <2> DEFINE t == d.id
             told == described[t]
  <2>1. /\ described' = [described EXCEPT ![d.id] = Append(@, d)] /\ t \in Things
        /\ (Registers(d) => things' = [s \in DOMAIN things \cup {d.id} |->
               IF s = d.id THEN [pointer |-> d.pointer, authenticated |-> d.authenticated]
                           ELSE things[s]])
        /\ (~Registers(d) => things' = things)
        /\ Registers(d) <=> Registrable(d) /\ d.id \notin DOMAIN things
    BY <1>1 DEF Register, Description, Registers, Registrable
  <2>2. described' \in [Things -> Seq(Description)] /\ DOMAIN things' \subseteq Things
    <3>1. Append(told, d) \in Seq(Description)
      BY <1>0, <2>1
    <3> QED
      BY <1>0, <2>1, <3>1
  <2>3. /\ \A s \in Things : s # t => described'[s] = described[s]
        /\ described'[t] = Append(told, d) /\ told \in Seq(Description)
    BY <1>0, <2>1
  <2>4. ASSUME NEW s \in Things, s # t
        PROVE  IF s \in DOMAIN things' THEN ToldFirst(s)'
               ELSE \A i \in DOMAIN described'[s] : ~Registrable(described'[s][i])
    <3>1. /\ described'[s] = described[s]
          /\ s \in DOMAIN things' <=> s \in DOMAIN things
          /\ s \in DOMAIN things => things'[s] = things[s]
      BY <2>1, <2>3, <2>4
    <3> QED
      BY <1>0, <3>1 DEF ToldFirst
  <2>5. /\ Len(told) \in Nat /\ DOMAIN told = 1 .. Len(told)
        /\ DOMAIN described'[t] = 1 .. Len(told) + 1
        /\ described'[t][Len(told) + 1] = d
        /\ \A i \in 1 .. Len(told) : described'[t][i] = told[i]
    BY <2>3
  <2>6. CASE Registers(d)
    <3>1. \A i \in DOMAIN told : ~Registrable(told[i])
      BY <1>0, <2>1, <2>6
    <3>2. /\ t \in DOMAIN things' /\ things'[t].pointer = d.pointer
          /\ things'[t].authenticated = d.authenticated /\ Registrable(d)
      BY <2>1, <2>6
    <3>3. \A j \in DOMAIN described'[t] : Registrable(described'[t][j]) => Len(told) + 1 <= j
      BY <2>5, <3>1
    <3>4. ToldFirst(t)'
      BY <2>5, <3>2, <3>3 DEF ToldFirst, Registrable
    <3> QED
      BY <2>2, <2>4, <3>2, <3>4 DEF ThingsInv
  <2>7. CASE ~Registers(d) /\ t \in DOMAIN things
    <3>1. things' = things /\ ToldFirst(t)
      BY <1>0, <2>1, <2>7
    <3>2. PICK i \in DOMAIN told :
              /\ Registrable(told[i])
              /\ \A j \in DOMAIN told : Registrable(told[j]) => i <= j
              /\ things[t].pointer = told[i].pointer
              /\ things[t].pointer # NoPointer => things[t].authenticated
      BY <3>1 DEF ToldFirst
    <3>3. /\ i \in DOMAIN described'[t] /\ described'[t][i] = told[i]
          /\ \A j \in DOMAIN described'[t] : Registrable(described'[t][j]) => i <= j
      BY <2>5, <3>2
    <3>4. ToldFirst(t)'
      BY <3>1, <3>2, <3>3 DEF ToldFirst
    <3> QED
      BY <2>2, <2>4, <2>7, <3>1, <3>4 DEF ThingsInv
  <2>8. CASE ~Registers(d) /\ t \notin DOMAIN things
    <3>1. things' = things /\ ~Registrable(d) /\ \A i \in DOMAIN told : ~Registrable(told[i])
      BY <1>0, <2>1, <2>8
    <3>2. \A i \in DOMAIN described'[t] : ~Registrable(described'[t][i])
      BY <2>5, <3>1
    <3> QED
      BY <2>2, <2>4, <2>8, <3>1, <3>2 DEF ThingsInv
  <2> QED
    BY <2>6, <2>7, <2>8
<1>2. ASSUME NEW t \in DOMAIN things, Remove(t) PROVE ThingsInv'
  <2>1. /\ things' = [s \in DOMAIN things \ {t} |-> things[s]]
        /\ described' = [described EXCEPT ![t] = <<>>]
    BY <1>2 DEF Remove
  <2>2. described' \in [Things -> Seq(Description)] /\ DOMAIN things' \subseteq Things
    <3>1. <<>> \in Seq(Description)
      OBVIOUS
    <3> QED
      BY <1>0, <2>1, <3>1
  <2>3. ASSUME NEW s \in Things
        PROVE  IF s \in DOMAIN things' THEN ToldFirst(s)'
               ELSE \A i \in DOMAIN described'[s] : ~Registrable(described'[s][i])
    <3>1. CASE s = t
      <4>1. described'[s] = <<>> /\ s \notin DOMAIN things'
        BY <1>0, <2>1, <3>1
      <4> QED
        BY <4>1
    <3>2. CASE s # t
      <4>1. /\ described'[s] = described[s]
            /\ s \in DOMAIN things' <=> s \in DOMAIN things
            /\ s \in DOMAIN things => things'[s] = things[s]
        BY <1>0, <2>1, <3>2
      <4> QED
        BY <1>0, <4>1 DEF ToldFirst
    <3> QED
      BY <3>1, <3>2
  <2> QED
    BY <2>2, <2>3 DEF ThingsInv
<1>3. CASE UNCHANGED <<things, described>>
  BY <1>0, <1>3 DEF ThingsInv, ToldFirst
<1>4. CASE NamesNext
  <2>1. UNCHANGED <<things, described>>
    BY <1>4 DEF NamesNext, IssueName, Rotate, RevokeName, ResolveExpired, SetClock
  <2> QED
    BY <1>3, <2>1
<1> QED
  BY <1>1, <1>2, <1>3, <1>4 DEF ThingsNext, directoryVars

LEMMA DirectoryInvInit == DirectoryInit => NamesInv /\ ThingsInv
<1> SUFFICES ASSUME DirectoryInit PROVE NamesInv /\ ThingsInv
  OBVIOUS
<1>1. /\ day \in Days /\ active = <<>> /\ issued = <<>> /\ ended = {}
      /\ DOMAIN things = {} /\ described = [t \in Things |-> <<>>]
  BY DEF DirectoryInit
<1>2. NamesInv
  BY <1>1 DEF NamesInv
<1>3. ThingsInv
  <2>1. <<>> \in Seq(Description)
    OBVIOUS
  <2>2. described \in [Things -> Seq(Description)]
    BY <1>1, <2>1
  <2>3. \A t \in Things : DOMAIN described[t] = {}
    BY <1>1
  <2> QED
    BY <1>1, <2>2, <2>3 DEF ThingsInv
<1> QED
  BY <1>2, <1>3

(* Whatever the clock does, and for any names, owners, things and          *)
(* descriptions: a name resolves to its owner, within its lifetime, and    *)
(* never after it ended (privacy.py), and a thing points where the first   *)
(* description that could be registered says (discovery.py).               *)
THEOREM LookupsTrue == DirectorySpec => []LookupsTellTruth
<1>1. NamesInv /\ ThingsInv => LookupsTellTruth
  <2> SUFFICES ASSUME NamesInv, ThingsInv PROVE LookupsTellTruth
    OBVIOUS
  <2>1. ASSUME NEW n \in DOMAIN issued, Resolves(n)
        PROVE  /\ active[n].owner = issued[n].owner
               /\ day <= issued[n].since + Lifetime
               /\ n \notin ended
    <3>1. n \in DOMAIN active /\ active[n] = issued[n] /\ n \notin ended
      BY <2>1 DEF NamesInv, Resolves
    <3>2. issued[n].since \in Nat /\ day \in Nat /\ Lifetime \in Nat
      <4> DEFINE Record == [owner : Owner, since : Days]
      <4>1. issued \in Seq(Record)
        BY DEF NamesInv
      <4> HIDE DEF Record
      <4>2. issued[n] \in Record
        BY <4>1
      <4> QED
        BY <4>2, DirectoryAssumption DEF NamesInv, Record
    <3>3. ~(day - issued[n].since > Lifetime)
      BY <2>1, <3>1 DEF Resolves, Expired
    <3> QED
      BY <3>1, <3>2, <3>3
  <2>2. ASSUME NEW t \in Things
        PROVE  LET told == described[t]
                   fit == {i \in DOMAIN told :
                              /\ told[i].actions
                              /\ told[i].pointer = NoPointer \/ told[i].authenticated} IN
               /\ t \in DOMAIN things <=> fit # {}
               /\ t \in DOMAIN things =>
                     LET first == CHOOSE i \in fit : \A j \in fit : i <= j IN
                     /\ things[t].pointer = told[first].pointer
                     /\ things[t].pointer # NoPointer => things[t].authenticated
    <3> DEFINE told == described[t]
               fit == {i \in DOMAIN told :
                          /\ told[i].actions
                          /\ told[i].pointer = NoPointer \/ told[i].authenticated}
               first == CHOOSE i \in fit : \A j \in fit : i <= j
    <3>1. \A i : i \in fit <=> i \in DOMAIN told /\ Registrable(told[i])
      BY DEF Registrable
    <3>2. fit \subseteq Int
      <4>1. told \in Seq(Description)
        BY DEF ThingsInv
      <4> QED
        BY <4>1
    <3> HIDE DEF fit
    <3>3. CASE t \notin DOMAIN things
      <4>1. fit = {}
        BY <3>1, <3>3 DEF ThingsInv
      <4> QED
        BY <3>3, <4>1 DEF fit
    <3>4. CASE t \in DOMAIN things
      <4>1. ToldFirst(t)
        BY <3>4 DEF ThingsInv
      <4>2. PICK i \in fit :
                /\ \A j \in fit : i <= j
                /\ things[t].pointer = told[i].pointer
                /\ things[t].pointer # NoPointer => things[t].authenticated
        BY <3>1, <4>1 DEF ToldFirst
      <4>3. first \in fit /\ \A j \in fit : first <= j
        BY <4>2
      <4> HIDE DEF first
      <4>4. first = i
        BY <3>2, <4>2, <4>3
      <4>5. things[t].pointer = told[first].pointer
        BY <4>2, <4>4
      <4>6. fit # {}
        BY <4>2
      <4> QED
        BY <3>4, <4>2, <4>5, <4>6 DEF fit, first
    <3> QED
      BY <3>3, <3>4
  <2> QED
    BY <2>1, <2>2, Zenon DEF LookupsTellTruth
<1> QED
  BY <1>1, DirectoryInvInit, NamesStep, ThingsStep, PTL DEF DirectorySpec

(* The type invariant of the two registries. *)
THEOREM DirectoryTypeCorrect == DirectorySpec => []DirectoryTypeOK
<1>1. NamesInv /\ ThingsInv => DirectoryTypeOK
  <2> SUFFICES ASSUME NamesInv, ThingsInv PROVE DirectoryTypeOK
    OBVIOUS
  <2> DEFINE Record == [owner : Owner, since : Days]
  <2>1. issued \in Seq(Record)
    BY DEF NamesInv
  <2> HIDE DEF Record
  <2>2. \A n \in DOMAIN issued : issued[n] \in Record
    BY <2>1
  <2>3. \A n \in DOMAIN issued : issued[n].owner \in Owner /\ issued[n].since \in Days
    BY <2>2 DEF Record
  <2> QED
    BY <2>3 DEF DirectoryTypeOK, NamesInv, ThingsInv
<1> QED
  BY <1>1, DirectoryInvInit, NamesStep, ThingsStep, PTL DEF DirectorySpec

-----------------------------------------------------------------------------
(***************************************************************************)
(* Disclosures, for documents of any fields.  The tree, the positions in   *)
(* it and the digests of a verifier are defined by recursion; of each it   *)
(* is shown once that its equations have a solution, and what holds on     *)
(* each layer passes to the next.                                          *)
(***************************************************************************)

(* What holds of 0 and passes from each number to the next holds of all.   *)
LEMMA StepByStep ==
    ASSUME NEW S, 0 \in S, \A m \in Nat : m \in S => m + 1 \in S
    PROVE  \A m \in Nat : m \in S
<1> SUFFICES ASSUME NEW n \in Nat, n \notin S PROVE FALSE
  OBVIOUS
<1>1. PICK m \in Nat \ S : \A y \in Nat \ S : m <= y
  BY LeastThere, Nat \ S \in SUBSET Nat, n \in Nat \ S
<1>2. m # 0 /\ m - 1 \in Nat /\ m - 1 \in S
  BY <1>1
<1> QED
  BY <1>1, <1>2

(* The functions that are defined by recursion are what their equations    *)
(* say: what satisfies them up to m can be continued to m + 1.             *)
LEMMA SizesDouble ==
    ASSUME NEW n \in Nat
    PROVE  Sizes(n) = [k \in 0 .. n |-> IF k = 0 THEN 1 ELSE 2 * Sizes(n)[k - 1]]
<1> DEFINE Value(f, k) == IF k = 0 THEN 1 ELSE 2 * f[k - 1]
           Is(f, m) == f = [k \in 0 .. m |-> Value(f, k)]
           S == {m \in Nat : \E f : Is(f, m)}
<1>1. \A f, g, k : (k # 0 => f[k - 1] = g[k - 1]) => Value(f, k) = Value(g, k)
  OBVIOUS
<1> HIDE DEF Value
<1>2. 0 \in S
  <2>1. Is([k \in 0 .. 0 |-> Value(0, 0)], 0)
    BY <1>1
  <2> QED
    BY <2>1
<1>3. ASSUME NEW m \in Nat, m \in S PROVE m + 1 \in S
  <2>1. PICK f : Is(f, m)
    BY <1>3
  <2> DEFINE g == [k \in 0 .. m + 1 |-> Value(f, k)]
  <2>2. \A k \in 0 .. m : g[k] = f[k]
    BY <2>1
  <2>3. \A k \in 0 .. m + 1 : k # 0 => k - 1 \in 0 .. m
    OBVIOUS
  <2>4. \A k \in 0 .. m + 1 : Value(f, k) = Value(g, k)
    <3> HIDE DEF g
    <3> QED
      BY <1>1, <2>2, <2>3, Zenon
  <2>5. Is(g, m + 1)
    BY <2>4
  <2> HIDE DEF g, Is
  <2> QED
    BY <2>5
<1>4. n \in S
  BY <1>2, <1>3, StepByStep
<1>5. \E f : Is(f, n)
  BY <1>4
<1> QED
  BY <1>5, Zenon DEF Sizes, Value

(* The position of a field is halved from layer to layer.                  *)
LEMMA PositionsHalve ==
    ASSUME NEW doc, NEW field, DocHeight(doc) \in Nat
    PROVE  Positions(doc, field) =
              [k \in 0 .. DocHeight(doc) |->
                  IF k = 0 THEN Place(doc, field) ELSE Positions(doc, field)[k - 1] \div 2]
<1> DEFINE Value(f, k) == IF k = 0 THEN Place(doc, field) ELSE f[k - 1] \div 2
           Is(f, m) == f = [k \in 0 .. m |-> Value(f, k)]
           S == {m \in Nat : \E f : Is(f, m)}
<1>1. \A f, g, k : (k # 0 => f[k - 1] = g[k - 1]) => Value(f, k) = Value(g, k)
  OBVIOUS
<1> HIDE DEF Value
<1>2. 0 \in S
  <2>1. Is([k \in 0 .. 0 |-> Value(0, 0)], 0)
    BY <1>1
  <2> QED
    BY <2>1
<1>3. ASSUME NEW m \in Nat, m \in S PROVE m + 1 \in S
  <2>1. PICK f : Is(f, m)
    BY <1>3
  <2> DEFINE g == [k \in 0 .. m + 1 |-> Value(f, k)]
  <2>2. \A k \in 0 .. m : g[k] = f[k]
    BY <2>1
  <2>3. \A k \in 0 .. m + 1 : k # 0 => k - 1 \in 0 .. m
    OBVIOUS
  <2>4. \A k \in 0 .. m + 1 : Value(f, k) = Value(g, k)
    <3> HIDE DEF g
    <3> QED
      BY <1>1, <2>2, <2>3, Zenon
  <2>5. Is(g, m + 1)
    BY <2>4
  <2> HIDE DEF g, Is
  <2> QED
    BY <2>5
<1>4. DocHeight(doc) \in S
  BY <1>2, <1>3, StepByStep
<1>5. \E f : Is(f, DocHeight(doc))
  BY <1>4
<1> QED
  BY <1>5, Zenon DEF Positions, Value

(* _build_tree, layer by layer.                                            *)
LEMMA LayersGrow ==
    ASSUME NEW doc, DocHeight(doc) \in Nat
    PROVE  Layers(doc) =
             [k \in 0 .. DocHeight(doc) |->
                [i \in 0 .. Sizes(Cardinality(DOMAIN doc))[DocHeight(doc) - k] - 1 |->
                 IF k = 0 THEN LeafAt(doc, i)
                 ELSE Node(Layers(doc)[k - 1][2 * i], Layers(doc)[k - 1][2 * i + 1])]]
<1> DEFINE Value(f, k) == [i \in 0 .. Sizes(Cardinality(DOMAIN doc))[DocHeight(doc) - k] - 1 |->
                   IF k = 0 THEN LeafAt(doc, i) ELSE Node(f[k - 1][2 * i], f[k - 1][2 * i + 1])]
           Is(f, m) == f = [k \in 0 .. m |-> Value(f, k)]
           S == {m \in Nat : \E f : Is(f, m)}
<1>1. \A f, g, k : (k # 0 => f[k - 1] = g[k - 1]) => Value(f, k) = Value(g, k)
  OBVIOUS
<1> HIDE DEF Value
<1>2. 0 \in S
  <2>1. Is([k \in 0 .. 0 |-> Value(0, 0)], 0)
    BY <1>1
  <2> QED
    BY <2>1
<1>3. ASSUME NEW m \in Nat, m \in S PROVE m + 1 \in S
  <2>1. PICK f : Is(f, m)
    BY <1>3
  <2> DEFINE g == [k \in 0 .. m + 1 |-> Value(f, k)]
  <2>2. \A k \in 0 .. m : g[k] = f[k]
    BY <2>1
  <2>3. \A k \in 0 .. m + 1 : k # 0 => k - 1 \in 0 .. m
    OBVIOUS
  <2>4. \A k \in 0 .. m + 1 : Value(f, k) = Value(g, k)
    <3> HIDE DEF g
    <3> QED
      BY <1>1, <2>2, <2>3, Zenon
  <2>5. Is(g, m + 1)
    BY <2>4
  <2> HIDE DEF g, Is
  <2> QED
    BY <2>5
<1>4. DocHeight(doc) \in S
  BY <1>2, <1>3, StepByStep
<1>5. \E f : Is(f, DocHeight(doc))
  BY <1>4
<1> QED
  BY <1>5, Zenon DEF Layers, Value

(* What verify_field computes, step by step.                               *)
Climb(field, value, proof) ==
    LET digest[k \in 0 .. Len(proof)] ==
            IF k = 0 THEN Leaf(field, value)
            ELSE IF proof[k].left THEN Node(proof[k].hash, digest[k - 1])
                                  ELSE Node(digest[k - 1], proof[k].hash) IN
    digest

(* verify_field, step by step.                                             *)
LEMMA ClimbSteps ==
    ASSUME NEW field, NEW value, NEW proof, Len(proof) \in Nat
    PROVE  Climb(field, value, proof) =
             [k \in 0 .. Len(proof) |->
                 IF k = 0 THEN Leaf(field, value)
                 ELSE IF proof[k].left THEN Node(proof[k].hash, Climb(field, value, proof)[k - 1])
                                       ELSE Node(Climb(field, value, proof)[k - 1], proof[k].hash)]
<1> DEFINE Value(f, k) == IF k = 0 THEN Leaf(field, value)
                          ELSE IF proof[k].left THEN Node(proof[k].hash, f[k - 1])
                                                ELSE Node(f[k - 1], proof[k].hash)
           Is(f, m) == f = [k \in 0 .. m |-> Value(f, k)]
           S == {m \in Nat : \E f : Is(f, m)}
<1>1. \A f, g, k : (k # 0 => f[k - 1] = g[k - 1]) => Value(f, k) = Value(g, k)
  OBVIOUS
<1> HIDE DEF Value
<1>2. 0 \in S
  <2>1. Is([k \in 0 .. 0 |-> Value(0, 0)], 0)
    BY <1>1
  <2> QED
    BY <2>1
<1>3. ASSUME NEW m \in Nat, m \in S PROVE m + 1 \in S
  <2>1. PICK f : Is(f, m)
    BY <1>3
  <2> DEFINE g == [k \in 0 .. m + 1 |-> Value(f, k)]
  <2>2. \A k \in 0 .. m : g[k] = f[k]
    BY <2>1
  <2>3. \A k \in 0 .. m + 1 : k # 0 => k - 1 \in 0 .. m
    OBVIOUS
  <2>4. \A k \in 0 .. m + 1 : Value(f, k) = Value(g, k)
    <3> HIDE DEF g
    <3> QED
      BY <1>1, <2>2, <2>3, Zenon
  <2>5. Is(g, m + 1)
    BY <2>4
  <2> HIDE DEF g, Is
  <2> QED
    BY <2>5
<1>4. Len(proof) \in S
  BY <1>2, <1>3, StepByStep
<1>5. \E f : Is(f, Len(proof))
  BY <1>4
<1> QED
  BY <1>5, Zenon DEF Climb, Value

(* verify_field compares the last digest with the root.                    *)
LEMMA VerifyClimbs ==
    ASSUME NEW root, NEW field, NEW value, NEW proof
    PROVE  VerifyField(root, field, value, proof) <=> Climb(field, value, proof)[Len(proof)] = root
  BY Zenon DEF VerifyField, Climb

-----------------------------------------------------------------------------
(* A tree has room for its leaves, and each layer half as many as the one  *)
(* below.                                                                  *)

(* Sizes double, and so outgrow what they are to hold.                     *)
LEMMA SizesGrow ==
    ASSUME NEW n \in Nat
    PROVE  /\ Sizes(n)[0] = 1
           /\ \A h \in 0 .. n : Sizes(n)[h] \in Nat /\ Sizes(n)[h] >= h + 1
           /\ \A h \in 0 .. n : h # 0 => Sizes(n)[h] = 2 * Sizes(n)[h - 1]
<1>1. \A h \in 0 .. n : Sizes(n)[h] = IF h = 0 THEN 1 ELSE 2 * Sizes(n)[h - 1]
  <2> DEFINE size == Sizes(n)
  <2>1. size = [k \in 0 .. n |-> IF k = 0 THEN 1 ELSE 2 * size[k - 1]]
    BY SizesDouble
  <2> HIDE DEF size
  <2>2. \A h \in 0 .. n : size[h] = IF h = 0 THEN 1 ELSE 2 * size[h - 1]
    BY <2>1
  <2> QED
    BY <2>2 DEF size
<1> DEFINE S == {h \in Nat : h <= n => Sizes(n)[h] \in Nat /\ Sizes(n)[h] >= h + 1}
<1>2. 0 \in S
  BY <1>1
<1>3. ASSUME NEW h \in Nat, h \in S PROVE h + 1 \in S
  <2> SUFFICES ASSUME h + 1 <= n
               PROVE  Sizes(n)[h + 1] \in Nat /\ Sizes(n)[h + 1] >= h + 2
    OBVIOUS
  <2>1. Sizes(n)[h + 1] = 2 * Sizes(n)[h]
    BY <1>1
  <2>2. Sizes(n)[h] \in Nat /\ Sizes(n)[h] >= h + 1
    BY <1>3
  <2> QED
    BY <2>1, <2>2
<1>4. \A h \in Nat : h \in S
  BY <1>2, <1>3, StepByStep
<1> QED
  BY <1>1, <1>4

(* The first size that is large enough is tried.                           *)
LEMMA HeightHolds ==
    ASSUME NEW n \in Nat
    PROVE  Height(n) \in 0 .. n /\ Sizes(n)[Height(n)] >= n
<1> DEFINE T == {h \in 0 .. n : Sizes(n)[h] >= n}
<1>1. T \in SUBSET Nat /\ n \in T
  BY SizesGrow
<1>2. PICK m \in T : \A y \in T : m <= y
  BY <1>1, LeastThere
<1>3. /\ m \in 0 .. n /\ Sizes(n)[m] >= n
      /\ \A k \in 0 .. m - 1 : Sizes(n)[k] < n
  <2>1. m \in 0 .. n /\ Sizes(n)[m] >= n
    OBVIOUS
  <2>2. ASSUME NEW k \in 0 .. m - 1 PROVE Sizes(n)[k] < n
    <3>1. k \in 0 .. n /\ k < m
      BY <2>1
    <3>2. k \notin T /\ Sizes(n)[k] \in Nat
      BY <1>2, <2>1, <3>1, SizesGrow
    <3> QED
      BY <3>1, <3>2
  <2> QED
    BY <2>1, <2>2
<1> QED
  BY <1>3 DEF Height

(* The number of nodes on a layer.                                         *)
Width(doc, k) == Sizes(Cardinality(DOMAIN doc))[DocHeight(doc) - k]

(* From the leaves to the root each layer is half as wide as the one       *)
(* below.                                                                  *)
LEMMA WidthsHalve ==
    ASSUME NEW doc \in Documents
    PROVE  /\ IsFiniteSet(DOMAIN doc) /\ Cardinality(DOMAIN doc) \in Nat
           /\ DocHeight(doc) \in Nat
           /\ Width(doc, 0) >= Cardinality(DOMAIN doc)
           /\ Width(doc, DocHeight(doc)) = 1
           /\ \A k \in 0 .. DocHeight(doc) : Width(doc, k) \in Nat /\ Width(doc, k) >= 1
           /\ \A k \in 1 .. DocHeight(doc) : Width(doc, k - 1) = 2 * Width(doc, k)
<1> DEFINE n == Cardinality(DOMAIN doc)
           H == DocHeight(doc)
<1>1. IsFiniteSet(DOMAIN doc)
  <2>1. IsFiniteSet(DOMAIN FieldOrder)
    BY FS_Interval, DisclosureAssumption
  <2> DEFINE order == [i \in DOMAIN FieldOrder |-> FieldOrder[i]]
  <2>2. order \in Surjection(DOMAIN FieldOrder, {FieldOrder[i] : i \in DOMAIN FieldOrder})
    BY DEF Surjection
  <2> HIDE DEF order
  <2>3. IsFiniteSet({FieldOrder[i] : i \in DOMAIN FieldOrder})
    BY <2>1, <2>2, FS_Surjection
  <2> QED
    BY <2>3, FS_Subset, DisclosureAssumption
<1>2. n \in Nat
  BY <1>1, FS_CardinalityType
<1> HIDE DEF n
<1>3. H \in 0 .. n /\ Sizes(n)[H] >= n
  BY <1>2, HeightHolds DEF DocHeight, n
<1>4. \A k : Width(doc, k) = Sizes(n)[H - k]
  BY DEF Width, n
<1> HIDE DEF H
<1>5. Width(doc, 0) >= n /\ Width(doc, H) = 1
  <2>1. H - 0 = H /\ H - H = 0
    BY <1>2, <1>3
  <2> QED
    BY <1>2, <1>3, <1>4, <2>1, SizesGrow
<1>6. ASSUME NEW k \in 0 .. H PROVE Width(doc, k) \in Nat /\ Width(doc, k) >= 1
  <2>1. H - k \in 0 .. n
    BY <1>2, <1>3
  <2>2. Sizes(n)[H - k] \in Nat /\ Sizes(n)[H - k] >= (H - k) + 1
    BY <1>2, <2>1, SizesGrow
  <2> QED
    BY <1>4, <2>1, <2>2
<1>7. ASSUME NEW k \in 1 .. H PROVE Width(doc, k - 1) = 2 * Width(doc, k)
  <2>1. /\ H - (k - 1) \in 0 .. n /\ H - (k - 1) # 0
        /\ (H - (k - 1)) - 1 = H - k
    BY <1>2, <1>3
  <2> QED
    BY <1>2, <1>4, <2>1, SizesGrow
<1> QED
  BY <1>1, <1>2, <1>3, <1>5, <1>6, <1>7 DEF H, n

(* A node is made of the two below it.                                     *)
LEMMA LayersAre ==
    ASSUME NEW doc \in Documents, NEW k \in 0 .. DocHeight(doc),
           NEW i \in 0 .. Width(doc, k) - 1
    PROVE  Layers(doc)[k][i] =
              IF k = 0 THEN LeafAt(doc, i)
              ELSE Node(Layers(doc)[k - 1][2 * i], Layers(doc)[k - 1][2 * i + 1])
<1> DEFINE layers == Layers(doc)
           Row(j) == [x \in 0 .. Width(doc, j) - 1 |->
                        IF j = 0 THEN LeafAt(doc, x)
                        ELSE Node(layers[j - 1][2 * x], layers[j - 1][2 * x + 1])]
<1>1. layers = [j \in 0 .. DocHeight(doc) |-> Row(j)]
  BY WidthsHalve, LayersGrow, Zenon DEF Width
<1>2. Row(k)[i] = IF k = 0 THEN LeafAt(doc, i)
                  ELSE Node(layers[k - 1][2 * i], layers[k - 1][2 * i + 1])
  OBVIOUS
<1> HIDE DEF layers, Row
<1>3. layers[k] = Row(k)
  BY <1>1
<1> QED
  BY <1>2, <1>3 DEF layers

-----------------------------------------------------------------------------
(* The leaves *)

(* Fields of a document have places of their own, within the tree.         *)
LEMMA PlacesDiffer ==
    ASSUME NEW doc \in Documents, NEW f \in DOMAIN doc
    PROVE  /\ Place(doc, f) \in 0 .. Cardinality(DOMAIN doc) - 1
           /\ \A g \in DOMAIN doc : Place(doc, g) = Place(doc, f) => g = f
<1> DEFINE Below(g) == {h \in DOMAIN doc : Rank(h) < Rank(g)}
<1>1. /\ IsFiniteSet(DOMAIN doc) /\ Cardinality(DOMAIN doc) \in Nat
      /\ \A g : Below(g) \subseteq DOMAIN doc
  BY WidthsHalve
<1>2. \A g : IsFiniteSet(Below(g)) /\ Cardinality(Below(g)) \in Nat
  BY <1>1, FS_Subset, FS_CardinalityType
<1>3. \A g \in DOMAIN doc : Rank(g) \in Int /\ FieldOrder[Rank(g)] = g
  BY DisclosureAssumption DEF Rank
<1>4. \A g : Place(doc, g) = Cardinality(Below(g))
  BY DEF Place
<1>5. Cardinality(Below(f)) < Cardinality(DOMAIN doc)
  <2>1. f \notin Below(f)
    BY <1>3
  <2> HIDE DEF Below
  <2>2. Below(f) # DOMAIN doc
    BY <2>1
  <2> QED
    BY <1>1, <1>2, <2>2, FS_Subset
<1>6. ASSUME NEW g \in DOMAIN doc, NEW h \in DOMAIN doc, Rank(g) < Rank(h)
      PROVE  Cardinality(Below(g)) < Cardinality(Below(h))
  <2>1. Below(g) \subseteq Below(h) /\ g \in Below(h) /\ g \notin Below(g)
    BY <1>3, <1>6
  <2> HIDE DEF Below
  <2>2. Below(g) # Below(h)
    BY <2>1
  <2> QED
    BY <1>2, <2>1, <2>2, FS_Subset
<1> HIDE DEF Below
<1>7. ASSUME NEW g \in DOMAIN doc, g # f PROVE Place(doc, g) # Place(doc, f)
  <2>1. Rank(g) # Rank(f)
    BY <1>3, <1>7
  <2>2. Rank(g) < Rank(f) \/ Rank(f) < Rank(g)
    BY <1>3, <2>1
  <2> QED
    BY <1>2, <1>4, <1>6, <2>2
<1> QED
  BY <1>1, <1>2, <1>4, <1>5, <1>7

(* The leaf at a field's place is that field's.                            *)
LEMMA FieldIsLeaf ==
    ASSUME NEW doc \in Documents, NEW f \in DOMAIN doc
    PROVE  LeafAt(doc, Place(doc, f)) = Leaf(f, doc[f])
<1> DEFINE there == {g \in DOMAIN doc : Place(doc, g) = Place(doc, f)}
<1>1. there = {f}
  BY PlacesDiffer
<1> QED
  BY <1>1 DEF LeafAt

(* No leaf is taken for padding or for a node.                             *)
LEMMA LeafShows ==
    ASSUME NEW doc \in Documents, NEW i, NEW field, NEW value
    PROVE  /\ LeafAt(doc, i) = Leaf(field, value) => field \in DOMAIN doc /\ doc[field] = value
           /\ \A left, right : LeafAt(doc, i) # Node(left, right)
           /\ \A left, right : Leaf(field, value) # Node(left, right)
<1>1. \A f, v, left, right :
         /\ DOMAIN Leaf(f, v) = {"field", "value"} /\ DOMAIN Node(left, right) = {"left", "right"}
         /\ DOMAIN Pad = {"pad"}
  BY DEF Leaf, Node, Pad
<1>2. \A f, v, left, right :
         Leaf(f, v) # Node(left, right) /\ Leaf(f, v) # Pad /\ Pad # Node(left, right)
  <2>1. {"field", "value"} # {"left", "right"} /\ {"field", "value"} # {"pad"}
        /\ {"pad"} # {"left", "right"}
    OBVIOUS
  <2> QED
    BY <1>1, <2>1, Zenon
<1> DEFINE there == {f \in DOMAIN doc : Place(doc, f) = i}
<1>3. CASE there = {}
  <2>1. LeafAt(doc, i) = Pad
    BY <1>3 DEF LeafAt
  <2> QED
    BY <1>2, <2>1
<1>4. CASE there # {}
  <2>1. PICK f \in DOMAIN doc : LeafAt(doc, i) = Leaf(f, doc[f])
    BY <1>4 DEF LeafAt
  <2>2. Leaf(f, doc[f]) = Leaf(field, value) => f = field /\ doc[f] = value
    BY DEF Leaf
  <2> QED
    BY <1>2, <2>1, <2>2
<1> QED
  BY <1>3, <1>4

-----------------------------------------------------------------------------
(* A field that verifies is in the document.  Whatever was hashed with it, *)
(* the last digest is the root, a node on the top layer; and where a digest*)
(* is a node of the tree, the one it was made from is a node below it.  So *)
(* the leaf itself is in the tree, and only at its foot are there leaves.  *)
THEOREM VerifiedIsThere ==
    ASSUME NEW doc \in Documents, NEW field, NEW value, NEW proof, Len(proof) \in Nat,
           VerifyField(Root(doc), field, value, proof)
    PROVE  field \in DOMAIN doc /\ doc[field] = value
<1> DEFINE H == DocHeight(doc)
           n == Len(proof)
           climb == Climb(field, value, proof)
           layers == Layers(doc)
           S == {j \in Nat : j <= n /\ j <= H =>
                    \E i \in 0 .. Width(doc, H - j) - 1 : climb[n - j] = layers[H - j][i]}
<1>1. /\ climb[0] = Leaf(field, value)
      /\ \A k \in 1 .. n : \E left, right :
            climb[k] = Node(left, right) /\ (climb[k - 1] = left \/ climb[k - 1] = right)
  <2>1. climb = [k \in 0 .. n |->
                    IF k = 0 THEN Leaf(field, value)
                    ELSE IF proof[k].left THEN Node(proof[k].hash, climb[k - 1])
                                          ELSE Node(climb[k - 1], proof[k].hash)]
    BY ClimbSteps
  <2> HIDE DEF climb
  <2>2. \A k \in 0 .. n :
           climb[k] = IF k = 0 THEN Leaf(field, value)
                      ELSE IF proof[k].left THEN Node(proof[k].hash, climb[k - 1])
                                            ELSE Node(climb[k - 1], proof[k].hash)
    BY <2>1
  <2>3. ASSUME NEW k \in 1 .. n
        PROVE  \E left, right :
                  climb[k] = Node(left, right) /\ (climb[k - 1] = left \/ climb[k - 1] = right)
    <3>1. k \in 0 .. n /\ k # 0
      OBVIOUS
    <3>2. \/ climb[k] = Node(proof[k].hash, climb[k - 1])
          \/ climb[k] = Node(climb[k - 1], proof[k].hash)
      BY <2>2, <3>1, Zenon
    <3> QED
      BY <3>2
  <2> QED
    BY <2>2, <2>3
<1>2. climb[n] = layers[H][0]
  BY VerifyClimbs DEF Root
<1> HIDE DEF climb, layers, H, n
<1>3. /\ H \in Nat /\ n \in Nat /\ Width(doc, H) = 1
      /\ \A k \in 0 .. H : Width(doc, k) \in Nat
      /\ \A k \in 1 .. H : Width(doc, k - 1) = 2 * Width(doc, k)
  BY WidthsHalve DEF H, n
<1>4. \A k \in 0 .. H : \A i \in 0 .. Width(doc, k) - 1 :
         layers[k][i] = IF k = 0 THEN LeafAt(doc, i)
                        ELSE Node(layers[k - 1][2 * i], layers[k - 1][2 * i + 1])
  BY LayersAre DEF layers, H
<1>5. 0 \in S
  <2>1. 0 \in 0 .. Width(doc, H) - 1 /\ H - 0 = H /\ n - 0 = n
    BY <1>3
  <2> QED
    BY <1>2, <2>1
<1>6. ASSUME NEW j \in Nat, j \in S PROVE j + 1 \in S
  <2> SUFFICES ASSUME j + 1 <= n, j + 1 <= H
               PROVE  \E i \in 0 .. Width(doc, H - (j + 1)) - 1 :
                         climb[n - (j + 1)] = layers[H - (j + 1)][i]
    OBVIOUS
  <2> DEFINE k == H - j
  <2>1. /\ j <= n /\ j <= H /\ n - j \in 1 .. n /\ (n - j) - 1 = n - (j + 1)
        /\ k \in 1 .. H /\ k \in 0 .. H /\ k # 0 /\ k - 1 = H - (j + 1)
    BY <1>3
  <2>2. PICK i \in 0 .. Width(doc, k) - 1 : climb[n - j] = layers[k][i]
    BY <1>6, <2>1
  <2> HIDE DEF k
  <2>3. climb[n - j] = Node(layers[k - 1][2 * i], layers[k - 1][2 * i + 1])
    BY <1>4, <2>1, <2>2
  <2>4. \/ climb[(n - j) - 1] = layers[k - 1][2 * i]
        \/ climb[(n - j) - 1] = layers[k - 1][2 * i + 1]
    <3>1. PICK left, right : /\ climb[n - j] = Node(left, right)
                             /\ climb[(n - j) - 1] = left \/ climb[(n - j) - 1] = right
      BY <1>1, <2>1
    <3>2. left = layers[k - 1][2 * i] /\ right = layers[k - 1][2 * i + 1]
      BY <2>3, <3>1 DEF Node
    <3> QED
      BY <3>1, <3>2
  <2>5. /\ 2 * i \in 0 .. Width(doc, k - 1) - 1
        /\ 2 * i + 1 \in 0 .. Width(doc, k - 1) - 1
    <3>1. Width(doc, k) \in Nat /\ Width(doc, k - 1) = 2 * Width(doc, k)
      BY <1>3, <2>1
    <3> QED
      BY <3>1
  <2> QED
    BY <2>1, <2>4, <2>5
<1>7. \A j \in Nat : j <= n /\ j <= H =>
         \E i \in 0 .. Width(doc, H - j) - 1 : climb[n - j] = layers[H - j][i]
  <2>1. \A j \in Nat : j \in S
    BY <1>5, <1>6, StepByStep
  <2> QED
    BY <2>1
<1>8. CASE n < H
  <2>1. n <= n /\ n <= H /\ n - n = 0 /\ H - n \in 0 .. H /\ H - n # 0
    BY <1>3, <1>8
  <2>2. PICK i \in 0 .. Width(doc, H - n) - 1 : climb[n - n] = layers[H - n][i]
    BY <1>3, <1>7, <2>1
  <2>3. Leaf(field, value) = Node(layers[(H - n) - 1][2 * i], layers[(H - n) - 1][2 * i + 1])
    BY <1>1, <1>4, <2>1, <2>2
  <2> QED
    BY <2>3, LeafShows
<1>9. CASE n >= H
  <2>1. /\ H <= n /\ H <= H /\ H - H = 0 /\ 0 \in 0 .. H
        /\ n = H => n - H = 0
        /\ n # H => n - H \in 1 .. n
    BY <1>3, <1>9
  <2>2. PICK i \in 0 .. Width(doc, H - H) - 1 : climb[n - H] = layers[H - H][i]
    BY <1>3, <1>7, <2>1
  <2>3. climb[n - H] = LeafAt(doc, i)
    BY <1>4, <2>1, <2>2
  <2>4. n = H
    BY <1>1, <2>1, <2>3, LeafShows
  <2> QED
    BY <1>1, <2>1, <2>3, <2>4, LeafShows
<1> QED
  BY <1>3, <1>8, <1>9

(* A proof has one step for each layer below the root.                     *)
LEMMA ProofShape ==
    ASSUME NEW doc \in Documents, NEW f
    PROVE  /\ Len(Proof(doc, f)) = DocHeight(doc)
           /\ \E T : Proof(doc, f) \in [1 .. DocHeight(doc) -> T]
<1> DEFINE p == Proof(doc, f)
           T == {p[k] : k \in 1 .. DocHeight(doc)}
<1>1. DocHeight(doc) \in Nat
  BY WidthsHalve
<1>2. p \in [1 .. DocHeight(doc) -> T]
  BY DEF Proof
<1> HIDE DEF p, T
<1>3. Len(p) = DocHeight(doc)
  BY <1>1, <1>2
<1> QED
  BY <1>2, <1>3 DEF p

(* A field verifies with its proof: on each layer the digest so far is the *)
(* node at the position that merkle_proofs had reached.                    *)
THEOREM ProofVerifies ==
    ASSUME NEW doc \in Documents, NEW f \in DOMAIN doc
    PROVE  VerifyField(Root(doc), f, doc[f], Proof(doc, f))
<1> DEFINE H == DocHeight(doc)
           proof == Proof(doc, f)
           climb == Climb(f, doc[f], proof)
           layers == Layers(doc)
           position == Positions(doc, f)
           S == {k \in Nat : k <= H => /\ position[k] \in 0 .. Width(doc, k) - 1
                                       /\ climb[k] = layers[k][position[k]]}
<1>1. /\ H \in Nat /\ Width(doc, 0) >= Cardinality(DOMAIN doc) /\ Width(doc, H) = 1
      /\ Cardinality(DOMAIN doc) \in Nat
      /\ \A k \in 0 .. H : Width(doc, k) \in Nat
      /\ \A k \in 1 .. H : Width(doc, k - 1) = 2 * Width(doc, k)
  BY WidthsHalve
<1>2. Len(proof) = H
  BY ProofShape
<1>3. /\ position[0] = Place(doc, f)
      /\ \A k \in 1 .. H : position[k] = position[k - 1] \div 2
  <2>1. position = [k \in 0 .. H |-> IF k = 0 THEN Place(doc, f) ELSE position[k - 1] \div 2]
    BY <1>1, PositionsHalve
  <2> HIDE DEF position, H
  <2> QED
    BY <1>1, <2>1
<1>4. /\ climb[0] = Leaf(f, doc[f])
      /\ \A k \in 1 .. H :
            climb[k] = IF proof[k].left THEN Node(proof[k].hash, climb[k - 1])
                                        ELSE Node(climb[k - 1], proof[k].hash)
  <2>1. climb = [k \in 0 .. Len(proof) |->
                    IF k = 0 THEN Leaf(f, doc[f])
                    ELSE IF proof[k].left THEN Node(proof[k].hash, climb[k - 1])
                                          ELSE Node(climb[k - 1], proof[k].hash)]
    <3>1. Len(proof) \in Nat
      BY <1>1, <1>2
    <3> HIDE DEF proof
    <3> QED
      BY <3>1, ClimbSteps
  <2> HIDE DEF climb, H, proof
  <2>2. \A k \in 0 .. H :
           climb[k] = IF k = 0 THEN Leaf(f, doc[f])
                      ELSE IF proof[k].left THEN Node(proof[k].hash, climb[k - 1])
                                            ELSE Node(climb[k - 1], proof[k].hash)
    BY <1>2, <2>1
  <2>3. 0 \in 0 .. H /\ \A k \in 1 .. H : k \in 0 .. H /\ k # 0
    BY <1>1
  <2> QED
    BY <2>2, <2>3, Zenon
<1>5. \A k \in 1 .. H :
         LET p == position[k - 1]
             sibling == IF p % 2 = 0 THEN p + 1 ELSE p - 1 IN
         proof[k] = [hash |-> layers[k - 1][sibling], left |-> sibling < p]
  BY DEF Proof
<1>6. \A k \in 0 .. H : \A i \in 0 .. Width(doc, k) - 1 :
         layers[k][i] = IF k = 0 THEN LeafAt(doc, i)
                        ELSE Node(layers[k - 1][2 * i], layers[k - 1][2 * i + 1])
  BY LayersAre
<1>7. climb[H] = layers[H][0] => VerifyField(Root(doc), f, doc[f], proof)
  BY <1>2, VerifyClimbs DEF Root
<1> HIDE DEF climb, layers, H, proof, position
<1>8. 0 \in S
  <2>1. Place(doc, f) \in 0 .. Width(doc, 0) - 1
    BY <1>1, PlacesDiffer
  <2> QED
    BY <1>1, <1>3, <1>4, <1>6, <2>1, FieldIsLeaf
<1>9. ASSUME NEW k \in Nat, k \in S PROVE k + 1 \in S
  <2> SUFFICES ASSUME k + 1 <= H
               PROVE  /\ position[k + 1] \in 0 .. Width(doc, k + 1) - 1
                      /\ climb[k + 1] = layers[k + 1][position[k + 1]]
    OBVIOUS
  <2> DEFINE p == position[k]
             q == p \div 2
  <2>1. /\ k \in 0 .. H /\ k + 1 \in 1 .. H /\ k + 1 \in 0 .. H
        /\ (k + 1) - 1 = k /\ k + 1 # 0
    BY <1>1
  <2>2. p \in 0 .. Width(doc, k) - 1 /\ climb[k] = layers[k][p]
    BY <1>9, <2>1
  <2>3. position[k + 1] = q
    BY <1>3, <2>1
  <2>4. Width(doc, k) = 2 * Width(doc, k + 1) /\ Width(doc, k + 1) \in Nat
    BY <1>1, <2>1
  <2>5. /\ q \in 0 .. Width(doc, k + 1) - 1
        /\ p % 2 = 0 => p = 2 * q
        /\ p % 2 # 0 => p = 2 * q + 1
    BY <2>2, <2>4
  <2>6. layers[k + 1][q] = Node(layers[k][2 * q], layers[k][2 * q + 1])
    BY <1>6, <2>1, <2>5
  <2>7. climb[k + 1] = Node(layers[k][2 * q], layers[k][2 * q + 1])
    <3> HIDE DEF p, q
    <3>1. p \in Int /\ q \in Int
      BY <2>2, <2>5
    <3> DEFINE sibling == IF p % 2 = 0 THEN p + 1 ELSE p - 1
    <3>2. proof[k + 1] = [hash |-> layers[k][sibling], left |-> sibling < p]
      <4>1. LET x == position[(k + 1) - 1]
                y == IF x % 2 = 0 THEN x + 1 ELSE x - 1 IN
            proof[k + 1] = [hash |-> layers[(k + 1) - 1][y], left |-> y < x]
        BY <1>5, <2>1, Zenon
      <4> QED
        BY <2>1, <4>1, Zenon DEF p
    <3>3. \/ p = 2 * q /\ sibling = 2 * q + 1 /\ ~(sibling < p)
          \/ p = 2 * q + 1 /\ sibling = 2 * q /\ sibling < p
      BY <2>5, <3>1
    <3> HIDE DEF sibling
    <3>4. proof[k + 1].hash = layers[k][sibling] /\ proof[k + 1].left = (sibling < p)
      <4> DEFINE h == layers[k][sibling]
                 l == sibling < p
      <4>1. proof[k + 1] = [hash |-> h, left |-> l]
        BY <3>2
      <4> HIDE DEF h, l
      <4>2. proof[k + 1].hash = h /\ proof[k + 1].left = l
        BY <4>1
      <4> QED
        BY <4>2 DEF h, l
    <3>5. climb[k + 1] = IF sibling < p THEN Node(layers[k][sibling], layers[k][p])
                                        ELSE Node(layers[k][p], layers[k][sibling])
      BY <1>4, <2>1, <2>2, <3>4, Zenon
    <3> QED
      BY <3>3, <3>5, Zenon
  <2> QED
    BY <2>3, <2>5, <2>6, <2>7
<1>10. \A k \in Nat : k \in S
  BY <1>8, <1>9, StepByStep
<1>11. position[H] = 0 /\ climb[H] = layers[H][position[H]]
  <2>1. position[H] \in 0 .. Width(doc, H) - 1 /\ climb[H] = layers[H][position[H]]
    BY <1>1, <1>10
  <2> QED
    BY <1>1, <2>1
<1> QED
  BY <1>7, <1>11 DEF proof

-----------------------------------------------------------------------------
(* The disclosures *)

(* Only the owner's disclosures are ever made.                             *)
DisclosureInv ==
    /\ \A r \in shown : \E doc \in Documents :
          \E visible \in (SUBSET DOMAIN doc) \ {{}} : r = MerkleRedact(doc, visible)
    /\ \A r \in redacted : \E doc \in Documents :
          \E keep \in SUBSET DOMAIN doc : r = Redact(doc, keep)

(* Both kinds of disclosure are the owner's.                               *)
LEMMA DisclosureInvStep ==
    ASSUME DisclosureInv, [DisclosureNext]_disclosureVars
    PROVE  DisclosureInv'
<1>1. CASE UNCHANGED disclosureVars
  BY <1>1 DEF DisclosureInv, disclosureVars
<1>2. ASSUME NEW doc \in Documents, NEW visible \in (SUBSET DOMAIN doc) \ {{}}, Show(doc, visible)
      PROVE  DisclosureInv'
  <2>1. shown' = shown \cup {MerkleRedact(doc, visible)} /\ redacted' = redacted
    BY <1>2 DEF Show
  <2> QED
    BY <2>1 DEF DisclosureInv
<1>3. ASSUME NEW doc \in Documents, NEW keep \in SUBSET DOMAIN doc, ShowRedacted(doc, keep)
      PROVE  DisclosureInv'
  <2>1. shown' = shown /\ redacted' = redacted \cup {Redact(doc, keep)}
    BY <1>3 DEF ShowRedacted
  <2> QED
    BY <2>1 DEF DisclosureInv
<1> QED
  BY <1>1, <1>2, <1>3 DEF DisclosureNext

(* A disclosure verifies, and its proofs are sequences.                    *)
LEMMA ShownVerifies ==
    ASSUME DisclosureInv, NEW r \in shown
    PROVE  /\ VerifyMerkle(r)
           /\ \A entry \in r.visible : Len(entry.proof) \in Nat
                                       /\ \E T : entry.proof \in Seq(T)
<1>1. PICK doc \in Documents :
         \E visible \in (SUBSET DOMAIN doc) \ {{}} : r = MerkleRedact(doc, visible)
  BY DEF DisclosureInv
<1>2. PICK visible \in (SUBSET DOMAIN doc) \ {{}} : r = MerkleRedact(doc, visible)
  BY <1>1
<1> DEFINE ShownField(f) == [field |-> f, value |-> doc[f], proof |-> Proof(doc, f)]
<1>3. r.root = Root(doc) /\ r.visible = {ShownField(f) : f \in visible}
  BY <1>2 DEF MerkleRedact
<1>4. visible # {} /\ visible \subseteq DOMAIN doc
  OBVIOUS
<1>5. ASSUME NEW f \in visible
      PROVE  /\ VerifyField(Root(doc), ShownField(f).field, ShownField(f).value, ShownField(f).proof)
             /\ Len(ShownField(f).proof) \in Nat /\ \E T : ShownField(f).proof \in Seq(T)
  <2>1. /\ ShownField(f).field = f /\ ShownField(f).value = doc[f]
        /\ ShownField(f).proof = Proof(doc, f)
    OBVIOUS
  <2>2. DocHeight(doc) \in Nat /\ Len(Proof(doc, f)) = DocHeight(doc)
    BY ProofShape, WidthsHalve
  <2>3. PICK T : Proof(doc, f) \in [1 .. DocHeight(doc) -> T]
    BY ProofShape
  <2>4. Proof(doc, f) \in Seq(T)
    BY <2>2, <2>3
  <2>5. VerifyField(Root(doc), f, doc[f], Proof(doc, f))
    BY <1>4, ProofVerifies
  <2> HIDE DEF ShownField
  <2> QED
    BY <2>1, <2>2, <2>4, <2>5
<1> HIDE DEF ShownField
<1>6. r.visible # {}
  BY <1>3, <1>4
<1> QED
  BY <1>3, <1>5, <1>6, Zenon DEF VerifyMerkle

(* So are all their parts.                                                 *)
LEMMA PartsAreSequences ==
    ASSUME DisclosureInv, NEW proof \in Proofs
    PROVE  Len(proof) \in Nat
<1>1. PICK r \in shown : \E entry \in r.visible : proof \in Parts(entry.proof)
  BY DEF Proofs
<1>2. PICK entry \in r.visible : proof \in Parts(entry.proof)
  BY <1>1
<1>3. PICK T : entry.proof \in Seq(T)
  BY ShownVerifies
<1>4. PICK from \in 1 .. Len(entry.proof) + 1, to \in 0 .. Len(entry.proof) :
         proof = SubSeq(entry.proof, from, to)
  BY <1>2 DEF Parts
<1> QED
  BY <1>3, <1>4

(* A redaction verifies against its document.                              *)
LEMMA RedactedVerifies ==
    ASSUME DisclosureInv, NEW r \in redacted
    PROVE  VerifyRedaction(r, r.full)
<1>1. PICK doc \in Documents : \E keep \in SUBSET DOMAIN doc : r = Redact(doc, keep)
  BY DEF DisclosureInv
<1>2. PICK keep \in SUBSET DOMAIN doc : r = Redact(doc, keep)
  BY <1>1
<1>3. /\ r.visible = keep /\ r.hidden = DOMAIN doc \ keep /\ r.full = doc
      /\ r.redacted = [f \in DOMAIN doc |-> IF f \in keep THEN doc[f] ELSE Hidden]
  BY <1>2 DEF Redact
<1> QED
  BY <1>3 DEF VerifyRedaction

(* What is put together of two redactions keeps its own lists of fields.   *)
LEMMA MixedShows ==
    ASSUME DisclosureInv, NEW r \in redacted, NEW s \in redacted, NEW doc \in Documents,
           VerifyRedaction([r EXCEPT !.redacted = s.redacted, !.full = s.full], doc)
    PROVE  \A f \in r.visible : f \in DOMAIN doc /\ s.redacted[f] = doc[f]
<1>1. DOMAIN r = {"visible", "hidden", "full", "redacted"}
  BY DEF DisclosureInv, Redact
<1> DEFINE mixed == [r EXCEPT !.redacted = s.redacted, !.full = s.full]
<1>2. mixed.visible = r.visible /\ mixed.redacted = s.redacted
  BY <1>1
<1> HIDE DEF mixed
<1>3. VerifyRedaction(mixed, doc)
  BY DEF mixed
<1> QED
  BY <1>2, <1>3 DEF VerifyRedaction

(* Disclosures prove what they show and nothing else, for documents of any *)
(* number of fields and whatever of the proofs is put together anew.       *)
THEOREM DisclosuresAreProofs == DisclosureSpec => []DisclosuresProve
<1>1. DisclosureInit => DisclosureInv
  BY DEF DisclosureInit, DisclosureInv
<1>2. DisclosureInv => DisclosuresProve
  <2> SUFFICES ASSUME DisclosureInv PROVE DisclosuresProve
    OBVIOUS
  <2>1. \A doc \in Documents : \A field \in Fields, value \in Values, proof \in Proofs :
           VerifyField(Root(doc), field, value, proof) =>
               field \in DOMAIN doc /\ doc[field] = value
    BY PartsAreSequences, VerifiedIsThere
  <2> QED
    BY <2>1, ShownVerifies, RedactedVerifies, MixedShows, Zenon DEF DisclosuresProve
<1> QED
  BY <1>1, <1>2, DisclosureInvStep, PTL DEF DisclosureSpec

-----------------------------------------------------------------------------
(***************************************************************************)
(* The parts together.                                                     *)
(***************************************************************************)

(* The parts share no state: a behaviour of all of them is one of each.    *)
THEOREM PartsAreAlone ==
    Spec => /\ FleetSpec /\ FileSpec /\ RevocationSpec /\ SimulatedSpec
            /\ TimeSpec /\ DirectorySpec /\ DisclosureSpec
<1> DEFINE allVars == <<part, fleetVars, fileVars, revocationVars, simulatedVars, timeVars,
                        directoryVars, disclosureVars>>
<1>1. Init => /\ FleetInit /\ FileInit /\ RevocationInit /\ SimulatedInit
              /\ TimeInit /\ DirectoryInit /\ DisclosureInit
  BY DEF Init
<1>2. [Next]_allVars =>
          /\ [FleetNext]_fleetVars /\ [FileNext]_fileVars /\ [RevocationNext]_revocationVars
          /\ [SimulatedNext]_simulatedVars /\ [TimeNext]_timeVars
          /\ [NamesNext \/ ThingsNext]_directoryVars /\ [DisclosureNext]_disclosureVars
  BY Zenon DEF Next
<1> QED
  BY <1>1, <1>2, PTL DEF Spec, FleetSpec, FileSpec, RevocationSpec, SimulatedSpec, TimeSpec,
                         DirectorySpec, DisclosureSpec

(* The state of every part keeps its types, whatever the sizes of the      *)
(* fleet, the registry, the store and the documents.                       *)
THEOREM PartsTypeCorrect == Spec => []PartsTypeOK
<1>1. FileSpec => []FileTypeOK
  BY FileTypeInit, FileTypeStep, PTL DEF FileSpec
<1>2. RevocationSpec => []RevocationTypeOK
  BY RevocationTypeInit, RevocationTypeStep, PTL DEF RevocationSpec
<1>3. TimeSpec => []TimeTypeOK
  BY TimeTypeInit, TimeTypeStep, PTL DEF TimeSpec
<1>4. []FleetTypeOK /\ []FileTypeOK /\ []RevocationTypeOK /\ []SimulatedTypeOK
      /\ []TimeTypeOK /\ []DirectoryTypeOK => []PartsTypeOK
  <2>1. FleetTypeOK /\ FileTypeOK /\ RevocationTypeOK /\ SimulatedTypeOK /\ TimeTypeOK
        /\ DirectoryTypeOK => PartsTypeOK
    BY DEF PartsTypeOK
  <2> QED
    BY <2>1, PTL
<1> QED
  BY <1>1, <1>2, <1>3, <1>4, PartsAreAlone, FleetTypeCorrect, SimulatedTypeCorrect,
     DirectoryTypeCorrect
=============================================================================
