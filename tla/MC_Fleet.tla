-------------------------------- MODULE MC_Fleet --------------------------------
(***************************************************************************)
(* Parts around the gates, which share no state: signed policy bundles in  *)
(* two gates, the state file of one registry, signed revocation bundles in *)
(* two gates, one simulated device, the trusted clock, the two registries  *)
(* of names, and disclosure.  A behaviour is one of one part; the others   *)
(* keep their initial state.                                               *)
(*                                                                         *)
(* gate-a trusts a second authority, "k2", as the distributor does, and    *)
(* gate-b does not.  A bundle of k2 is about that Python alone accepts,    *)
(* for its actions and its times; and one of k1 and one of k2 that only    *)
(* the Go verifier accepts, for an effect and for a loose field.           *)
(***************************************************************************)
EXTENDS PolicyFleet, RegistryFile, RevocationFleet, SimulatedDevice, TrustedTime,
        Directory, Disclosure

VARIABLE part

MCGateOrder == <<"gate-a", "gate-b">>

MCTrusts == [g \in {"gate-a", "gate-b"} |->
                IF g = "gate-a" THEN {"k1", "k2"} ELSE {"k1"}]

MCWindows == {<<0, 1>>, <<0, 2>>}

MCForm == [effect |-> "known", names |-> "filled", actions |-> "listed",
           rest |-> TRUE, alike |-> TRUE]

MCContent == [r \in {"r1", "texts", "odd"} |->
                 CASE r = "r1"    -> {MCForm}
                   [] r = "texts" -> {MCForm, [MCForm EXCEPT !.actions = "unlisted"]}
                   [] OTHER       -> {[MCForm EXCEPT !.effect = "other"]}]

MCForeign ==
    LET Of(kid, version, rules, stamps, loose) ==
            [payload |-> [issuer |-> kid, version |-> version, rules |-> rules,
                          digest |-> rules, prev |-> "none",
                          issued |-> 0, from |-> 0, until |-> 2,
                          stamps |-> stamps, loose |-> loose],
             kid |-> kid, intact |-> TRUE] IN
    {Of("k2", 2, "texts", "iso", FALSE),
     Of("k1", 2, "odd", "rfc3339", FALSE), Of("k2", 2, "r1", "rfc3339", TRUE)}

(* Documents of one, two and three fields, of which two differ in one      *)
(* value and two in the name of a field.                                   *)
MCFieldOrder == <<"agent", "place", "time">>

MCDocuments ==
    {[f \in {"agent"} |-> "x"], [f \in {"agent", "place"} |-> "x"],
     [f \in {"agent", "time"} |-> "x"], [f \in {"agent", "place", "time"} |-> "x"],
     [f \in {"agent", "place", "time"} |-> IF f = "place" THEN "y" ELSE "x"]}

Init ==
    /\ part \in {"policies", "file", "revocations", "device", "clock",
                "names", "things", "disclosure"}
    /\ DirectoryInit /\ DisclosureInit
    /\ day # 0 => part = "names"
    /\ FleetInit /\ FileInit /\ RevocationInit /\ SimulatedInit /\ TimeInit
    /\ persistent => part = "device"

Next ==
    /\ \/ part = "policies" /\ FleetNext
          /\ UNCHANGED <<fileVars, revocationVars, simulatedVars, timeVars,
                         directoryVars, disclosureVars>>
       \/ part = "file" /\ FileNext
          /\ UNCHANGED <<fleetVars, revocationVars, simulatedVars, timeVars,
                         directoryVars, disclosureVars>>
       \/ part = "revocations" /\ RevocationNext
          /\ UNCHANGED <<fleetVars, fileVars, simulatedVars, timeVars,
                         directoryVars, disclosureVars>>
       \/ part = "device" /\ SimulatedNext
          /\ UNCHANGED <<fleetVars, fileVars, revocationVars, timeVars,
                         directoryVars, disclosureVars>>
       \/ part = "clock" /\ TimeNext
          /\ UNCHANGED <<fleetVars, fileVars, revocationVars, simulatedVars,
                         directoryVars, disclosureVars>>
       \/ part = "names" /\ NamesNext
          /\ UNCHANGED <<fleetVars, fileVars, revocationVars, simulatedVars, timeVars,
                         disclosureVars>>
       \/ part = "things" /\ ThingsNext
          /\ UNCHANGED <<fleetVars, fileVars, revocationVars, simulatedVars, timeVars,
                         disclosureVars>>
       \/ part = "disclosure" /\ DisclosureNext
          /\ UNCHANGED <<fleetVars, fileVars, revocationVars, simulatedVars, timeVars,
                         directoryVars>>
    /\ UNCHANGED part

Spec ==
    Init /\ [][Next]_<<part, fleetVars, fileVars, revocationVars, simulatedVars, timeVars,
                      directoryVars, disclosureVars>>

(* The type invariants of the parts. *)
PartsTypeOK ==
    /\ FleetTypeOK /\ FileTypeOK /\ RevocationTypeOK
    /\ SimulatedTypeOK /\ TimeTypeOK /\ DirectoryTypeOK
=============================================================================
