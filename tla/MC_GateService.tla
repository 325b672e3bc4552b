----------------------------- MODULE MC_GateService -----------------------------
(***************************************************************************)
(* Two threads over two capabilities, the second issued when the first     *)
(* expires, and one that nobody signed.                                    *)
(***************************************************************************)
EXTENDS GateService, TLC

Cap(id, issuedAt, expires) ==
    [signed |-> TRUE, wellFormed |-> TRUE, version |-> "0.1", ownKey |-> TRUE,
     issuer |-> "issuer", request |-> id, scope |-> {id}, id |-> id,
     consistent |-> TRUE, root |-> "none",
     issuedAt |-> issuedAt, notBefore |-> issuedAt, expires |-> expires]

MCEnvelopes == {"c1", "c2", "forged"}

MCPayload == [e \in MCEnvelopes |-> CASE e = "c1" -> Cap("c1", 0, 1)
                                      [] e = "c2" -> Cap("c2", 1, 2)
                                      [] e = "forged" -> [Cap("c1", 0, 1) EXCEPT !.signed = FALSE]]

MCRequests == {"c1", "c2"}
MCPresentations == {[env |-> e, req |-> MCPayload[e].request, parent |-> NoParent] : e \in MCEnvelopes}
MCTrustedIssuers == {"issuer"}

Threads == Permutations(Callers)
=============================================================================
