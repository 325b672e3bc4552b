----------------------------- MODULE MC_ActionGate -----------------------------
(***************************************************************************)
(* A small world for the gate: a scoped root capability and a child        *)
(* delegated from it, and two envelopes that claim the root's id without   *)
(* being it (a broken signature, an issuer nobody trusts).  The lives are  *)
(* short enough for calls to straddle their end.                           *)
(***************************************************************************)
EXTENDS ActionGate

Cap(id, root, version, nb, exp) ==
    [signed |-> TRUE, wellFormed |-> TRUE, version |-> version, ownKey |-> TRUE,
     issuer |-> "authority", request |-> "open", scope |-> {"open"}, id |-> id,
     consistent |-> TRUE, root |-> root,
     issuedAt |-> nb, notBefore |-> nb, expires |-> exp]

MCEnvelopes == {"root", "child", "forged", "rogue"}

MCPayload ==
    [e \in MCEnvelopes |->
        CASE e = "root"   -> Cap("c1", "c1", "0.2", 0, 2)
          [] e = "child"  -> Cap("c2", "c1", "0.2", 1, 2)
          [] e = "forged" -> [Cap("c1", "none", "0.1", 0, 3) EXCEPT !.signed = FALSE,
                                                                    !.consistent = FALSE]
          [] e = "rogue"  -> [Cap("c1", "c1", "0.2", 0, 3) EXCEPT !.issuer = "other",
                                                                  !.consistent = FALSE]]

Presented(e, r, par) == [env |-> e, req |-> r, parent |-> par]

MCPresentations ==
    {Presented("root", "open", NoParent), Presented("root", "enter", NoParent),
     Presented("child", "open", "root"), Presented("child", "open", "rogue"),
     Presented("forged", "open", NoParent), Presented("rogue", "open", NoParent)}

MCRequests == {"open", "enter"}
MCTrustedIssuers == {"authority"}
MCAttenuates == {<<"child", "root">>}
=============================================================================
