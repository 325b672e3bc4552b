------------------------------ MODULE MC_Gatekeeper ------------------------------
(***************************************************************************)
(* Two threads over two capabilities: a short-lived one to open, with      *)
(* obligations, and one to enter, which a forbidden combination keeps from *)
(* following within a second.  The threads are interchangeable.            *)
(***************************************************************************)
EXTENDS Gatekeeper, FiniteSets, TLC

Cap(id, request, nb, exp) ==
    [signed |-> TRUE, wellFormed |-> TRUE, version |-> "0.1", ownKey |-> TRUE,
     issuer |-> "authority", request |-> request, scope |-> {request}, id |-> id,
     consistent |-> TRUE, root |-> "none",
     issuedAt |-> nb, notBefore |-> nb, expires |-> exp]

MCEnvelopes == {"open", "enter"}

MCPayload == [e \in MCEnvelopes |-> CASE e = "open"  -> Cap("c1", "open", 0, 1)
                                      [] e = "enter" -> Cap("c2", "enter", 0, 2)]

MCPresentations ==
    {[env |-> e, req |-> MCPayload[e].request, parent |-> NoParent] : e \in MCEnvelopes}

MCRequests == {"open", "enter"}
MCTrustedIssuers == {"authority"}
MCObliged == {"c1"}
MCCombinations == {[patterns |-> {{"open"}}, window |-> 1, trigger |-> {"enter"}]}

Threads == Permutations(Callers)

(* A bound on the runs explored: one revocation, one restart, one failure  *)
(* of the actuator or one call with malformed arguments.                   *)
OneDisruption ==
    boot + Cardinality(revoked)
      + Cardinality({d \in DOMAIN deeds : ~deeds[d].ok \/ deeds[d].refused = Misreported}) <= 1
=============================================================================
