----------------------------- MODULE RevocationFleet -----------------------------
(***************************************************************************)
(* Signed revocation bundles in a fleet of gates (revocation.py and        *)
(* distribution.py).  An authority revokes capabilities in its own list    *)
(* and signs the whole list from time to time, each bundle numbered and    *)
(* linked to the one before if the caller says so.  A distributor applies  *)
(* a bundle to the gates' lists, entry by entry, while the gates use their *)
(* lists and revoke on their own.  Bundles may come late, twice, out of    *)
(* order, or never.                                                        *)
(*                                                                         *)
(* A bundle's digest is its place among the bundles signed.  Reasons and   *)
(* dates of a revocation are left out; the gates' side of a revocation is  *)
(* in ActionGate.                                                          *)
(***************************************************************************)
EXTENDS Integers, Sequences, FiniteSets

CONSTANTS
    Capabilities,    \* capability ids
    FleetOrder,      \* the gates, sorted by id
    MaxSigned        \* bound on the bundles

Fleet == {FleetOrder[i] : i \in DOMAIN FleetOrder}

ASSUME RevocationAssumption ==
    /\ MaxSigned \in Nat
    /\ IsFiniteSet(Capabilities)
    /\ FleetOrder \in Seq(Fleet) /\ FleetOrder # <<>>

VARIABLES
    listed,          \* the authority's RevocationList
    signed,          \* the bundles in the order they were signed
    lists,           \* gate -> its RevocationList
    delivery         \* RevocationDistributor.distribute in progress, or its report

revocationVars == <<listed, signed, lists, delivery>>

NoBundle == 0
NoDelivery == [stage |-> "idle"]

SignedBundle == [version : Nat \ {0}, previous : Nat, entries : SUBSET Capabilities]

GateAck == [gate : Fleet, added : Nat, already : Nat]

Delivery == [stage : {"apply", "done"}, bundle : Nat \ {0}, left : SUBSET Capabilities,
             added : Nat, already : Nat, acks : Seq(GateAck)]

Distributing == delivery.stage = "apply"

(* Every variable keeps its shape, a link leads to an earlier bundle, and  *)
(* what was added, what was there and what is left are the entries.        *)
RevocationTypeOK ==
    /\ listed \subseteq Capabilities
    /\ signed \in Seq(SignedBundle)
    /\ \A i \in DOMAIN signed : signed[i].previous < i
    /\ lists \in [Fleet -> SUBSET Capabilities]
    /\ delivery \in Delivery \cup {NoDelivery}
    /\ Distributing =>
          /\ delivery.bundle \in DOMAIN signed
          /\ Len(delivery.acks) < Len(FleetOrder)
          /\ delivery.left \subseteq signed[delivery.bundle].entries
          /\ delivery.added + delivery.already + Cardinality(delivery.left)
                = Cardinality(signed[delivery.bundle].entries)

RevocationInit ==
    /\ listed = {}
    /\ signed = <<>>
    /\ lists = [g \in Fleet |-> {}]
    /\ delivery = NoDelivery

-----------------------------------------------------------------------------
(* RevocationList.revoke at the authority. *)
ListCapability(id) ==
    /\ id \notin listed
    /\ listed' = listed \cup {id}
    /\ UNCHANGED <<signed, lists, delivery>>

(* A gate, or whoever shares its list, revokes on its own. *)
RevokeAtGate(g, id) ==
    /\ lists' = [lists EXCEPT ![g] = @ \cup {id}]
    /\ UNCHANGED <<listed, signed, delivery>>

(* build_revocation_bundle and sign: number and link are the caller's, and *)
(* by default 1 and none.                                                  *)
SignBundle ==
    /\ Len(signed) < MaxSigned
    /\ \E link \in {<<Len(signed) + 1, Len(signed)>>, <<1, NoBundle>>} :
          signed' = Append(signed, [version |-> link[1], previous |-> link[2],
                                    entries |-> listed])
    /\ UNCHANGED <<listed, lists, delivery>>

-----------------------------------------------------------------------------
(* verify_revocation_bundle: with an expected digest, only the bundle that *)
(* follows the one named is taken.                                         *)
VerifiesLink(b, expected) ==
    expected # NoBundle => signed[b].previous = expected

(* Any bundle signed so far may arrive; one that does not verify changes   *)
(* nothing.                                                                *)
BeginDelivery ==
    /\ ~Distributing
    /\ \E b \in DOMAIN signed, expected \in 0 .. Len(signed) :
          /\ VerifiesLink(b, expected)
          /\ delivery' = [stage |-> "apply", bundle |-> b, left |-> signed[b].entries,
                          added |-> 0, already |-> 0, acks |-> <<>>]
    /\ UNCHANGED <<listed, signed, lists>>

ServedGate == FleetOrder[Len(delivery.acks) + 1]

ReplaceList(id) ==
    /\ Distributing
    /\ id \in delivery.left
    /\ lists' = [lists EXCEPT ![ServedGate] = signed[delivery.bundle].entries]
    /\ delivery' = [delivery EXCEPT !.left = @ \ {id}, !.added = @ + 1]
    /\ UNCHANGED <<listed, signed>>

ApplyUnlessAny(id) ==
    /\ Distributing
    /\ id \in delivery.left
    /\ IF lists[ServedGate] # {}
       THEN /\ delivery' = [delivery EXCEPT !.left = @ \ {id}, !.already = @ + 1]
            /\ UNCHANGED lists
       ELSE /\ delivery' = [delivery EXCEPT !.left = @ \ {id}, !.added = @ + 1]
            /\ lists' = [lists EXCEPT ![ServedGate] = @ \cup {id}]
    /\ UNCHANGED <<listed, signed>>

(* One entry at one gate: revoked there unless it already is. *)
ApplyEntry(id) ==
    /\ Distributing
    /\ id \in delivery.left
    /\ IF id \in lists[ServedGate]
       THEN /\ delivery' = [delivery EXCEPT !.left = @ \ {id}, !.already = @ + 1]
            /\ UNCHANGED lists
       ELSE /\ delivery' = [delivery EXCEPT !.left = @ \ {id}, !.added = @ + 1]
            /\ lists' = [lists EXCEPT ![ServedGate] = @ \cup {id}]
    /\ UNCHANGED <<listed, signed>>

(* The gate is acknowledged; the last one makes the report. *)
AckGate ==
    /\ Distributing
    /\ delivery.left = {}
    /\ LET acks == Append(delivery.acks, [gate |-> ServedGate, added |-> delivery.added,
                                          already |-> delivery.already])
           final == Len(acks) = Len(FleetOrder) IN
       delivery' = [delivery EXCEPT
                       !.acks = acks, !.added = 0, !.already = 0,
                       !.left = IF final THEN {} ELSE signed[delivery.bundle].entries,
                       !.stage = IF final THEN "done" ELSE "apply"]
    /\ UNCHANGED <<listed, signed, lists>>

RevocationNext ==
    \/ \E id \in Capabilities :
          \/ ListCapability(id)
          \/ \E g \in Fleet : RevokeAtGate(g, id)
          \/ ApplyEntry(id)
    \/ SignBundle \/ BeginDelivery \/ AckGate

RevocationSpec == RevocationInit /\ [][RevocationNext]_revocationVars

-----------------------------------------------------------------------------
(* The report of a distribution that has ended. *)

(* sum: there are as many pairs of a place and a number up to what stands  *)
(* there.                                                                  *)
Total(counts) == Cardinality(UNION {{i} \X (1 .. counts[i]) : i \in DOMAIN counts})

AddedTotal(acks) == Total([i \in DOMAIN acks |-> acks[i].added])

AlreadyTotal(acks) == Total([i \in DOMAIN acks |-> acks[i].already])

RevocationReport ==
    [bundle |-> delivery.bundle, acks |-> delivery.acks,
     gates |-> Len(delivery.acks), added |-> AddedTotal(delivery.acks),
     already |-> AlreadyTotal(delivery.acks)]

(* verify_distribution_report: an acknowledgement names the bundle of its  *)
(* report, and the bundle verifies by itself.                              *)
RevocationReportVerifies(report, b) ==
    /\ report.bundle = b
    /\ report.gates = Len(report.acks)
    /\ report.added = AddedTotal(report.acks)
    /\ report.already = AlreadyTotal(report.acks)

-----------------------------------------------------------------------------
(* Properties *)

(* A bundle that comes late, again or out of order never makes a gate      *)
(* accept a capability again that it had refused.                          *)
RevokedForGood ==
    [][\A g \in Fleet : lists[g] \subseteq lists'[g]]_revocationVars

RefusedEverywhere(b) == \A g \in Fleet : signed[b].entries \subseteq lists[g]

(* Once there is a report, it verifies, and whatever bundle it verifies    *)
(* for, every gate of the fleet refuses every entry of that bundle from    *)
(* then on; and the report's totals count every entry once at every gate.  *)
PassMeansRevoked ==
    delivery.stage = "done" =>
        /\ RevocationReportVerifies(RevocationReport, delivery.bundle)
        /\ \A b \in DOMAIN signed :
              RevocationReportVerifies(RevocationReport, b) =>
                  /\ RefusedEverywhere(b)
                  /\ RevocationReport.added + RevocationReport.already
                         = RevocationReport.gates * Cardinality(signed[b].entries)
=============================================================================
