---------------------------- MODULE ActionGateProofs ----------------------------
(***************************************************************************)
(* What the action gate guarantees for every number of callers,            *)
(* capabilities, restarts and every interleaving.                          *)
(***************************************************************************)
EXTENDS ActionGate, TLAPS

-----------------------------------------------------------------------------
(* The gate: the inductive invariant. *)

(* Only a payload whose id is its content id reaches the store. *)
Genuine(g) == \E e \in Envelopes : Payload[e].consistent /\ g = Grant(e)

(* A use is remembered by the store until its expiry passes, or until the  *)
(* in-memory store is lost with its process.                               *)
Remembered(u) ==
    \/ u.grant \in store
    \/ now > u.grant.expires
    \/ ~Persistent /\ u.boot < boot

UsesRemembered ==
    \A i \in DOMAIN uses :
        Genuine(uses[i].grant) /\ uses[i].boot <= boot /\ Remembered(uses[i])

(* A caller past its checks holds a genuine capability that was not on the *)
(* list when it began; one before them is still on the list if it was.     *)
Honest(c) ==
    /\ c.pc = "consume" => Payload[c.pres.env].consistent /\ ~c.forewarned
    /\ c.pc = "validate" /\ c.forewarned => OnList(c.pres.env)

CallersHonest == \A t \in Callers : caller[t] # Idle => Honest(caller[t])

Inv == TypeOK /\ UsesRemembered /\ CallersHonest /\ ReuseOnlyAfterExpiry
              /\ RevocationHonoured

-----------------------------------------------------------------------------
(* Facts about the constants. *)

(* Capability ids are content ids: two genuine grants with the same id are *)
(* the same grant.                                                         *)
LEMMA GenuineGrantsById ==
    ASSUME NEW g, NEW h, Genuine(g), Genuine(h), g.id = h.id
    PROVE  g = h
<1>1. PICK e \in Envelopes : Payload[e].consistent /\ g = Grant(e)
  BY DEF Genuine
<1>2. PICK f \in Envelopes : Payload[f].consistent /\ h = Grant(f)
  BY DEF Genuine
<1>3. Payload[e].id = Payload[f].id
  BY <1>1, <1>2 DEF Grant
<1>4. Payload[e].expires = Payload[f].expires
  BY <1>1, <1>2, <1>3, GateAssumption
<1> QED
  BY <1>1, <1>2, <1>3, <1>4 DEF Grant

(* What the store keeps of an envelope ends at a natural number. *)
LEMMA GrantsHaveExpiry == \A g \in Grants : g.expires \in Nat
<1>1. \A e \in Envelopes : Payload[e].expires \in Nat
  BY GateAssumption DEF PayloadType
<1> QED
  BY <1>1 DEF Grants, Grant

(* An idle caller has no call in progress. *)
LEMMA IdleIsNoCall == Idle \notin Call
  BY DEF Idle, Call

-----------------------------------------------------------------------------
(* Every variable keeps its shape: the type invariant of the gate. *)
LEMMA TypeInit == Init => TypeOK
  BY DEF Init, TypeOK, Idle

(* Every step keeps the shapes of the variables.                           *)
LEMMA TypeStep == TypeOK /\ [Next]_vars => TypeOK'
<1> SUFFICES ASSUME TypeOK, [Next]_vars PROVE TypeOK'
  OBVIOUS
<1> USE DEF TypeOK
<1>1. ASSUME NEW t \in Callers, NEW p \in Presentations, Begin(t, p)
      PROVE  TypeOK'
  <2>1. [pc |-> "validate", pres |-> p, current |-> now,
         forewarned |-> OnList(p.env)] \in Call
    BY DEF Call, OnList
  <2> QED
    BY <1>1, <2>1 DEF Begin
<1>2. ASSUME NEW t \in Callers, Validate(t)
      PROVE  TypeOK'
  <2>1. caller[t] \in Call
    BY <1>2 DEF Validate
  <2>2. CASE caller' = [caller EXCEPT ![t].pc = "consume"]
    <3>1. [caller[t] EXCEPT !.pc = "consume"] \in Call
      BY <2>1 DEF Call
    <3> QED
      BY <1>2, <2>2, <3>1 DEF Validate
  <2>3. CASE caller' = [caller EXCEPT ![t] = Idle]
    BY <1>2, <2>3 DEF Validate
  <2> QED
    BY <1>2, <2>2, <2>3 DEF Validate
<1>3. ASSUME NEW t \in Callers, ConsumeOnce(t)
      PROVE  TypeOK'
  <2>1. caller[t] \in Call /\ caller' = [caller EXCEPT ![t] = Idle]
    BY <1>3 DEF ConsumeOnce
  <2> DEFINE e == caller[t].pres.env
             u == [grant |-> Grant(e), at |-> now, boot |-> boot,
                   forewarned |-> caller[t].forewarned]
  <2>2. e \in Envelopes
    BY <2>1, GateAssumption DEF Call
  <2>3. Grant(e) \in Grants /\ u \in Use
    BY <2>1, <2>2 DEF Grants, Use, Call
  <2>4. Kept \subseteq Grants
    BY DEF Kept
  <2>5. \/ store' = Kept /\ uses' = uses
        \/ store' = Kept \cup {Grant(e)} /\ uses' = Append(uses, u)
    BY <1>3 DEF ConsumeOnce
  <2>6. store' \subseteq Grants
    BY <2>3, <2>4, <2>5
  <2>7. uses' \in Seq(Use)
    <3> HIDE DEF u
    <3> QED
      BY <2>3, <2>5
  <2> QED
    BY <1>3, <2>1, <2>6, <2>7 DEF ConsumeOnce
<1>4. ASSUME NEW t \in Callers, StoreFails(t)
      PROVE  TypeOK'
  BY <1>4 DEF StoreFails
<1>5. ASSUME NEW c \in Ids, Revoke(c)
      PROVE  TypeOK'
  BY <1>5 DEF Revoke
<1>6. CASE Restart
  <2>1. caller' \in [Callers -> Call \cup {Idle}]
    BY <1>6 DEF Restart
  <2> QED
    BY <1>6, <2>1 DEF Restart
<1>7. CASE Tick
  BY <1>7 DEF Tick
<1>8. CASE UNCHANGED vars
  BY <1>8 DEF vars
<1> QED
  BY <1>1, <1>2, <1>3, <1>4, <1>5, <1>6, <1>7, <1>8 DEF Next, Authorize

(* Every reachable state of the gate is well typed, for every instance. *)
THEOREM TypeCorrect == Spec => []TypeOK
  BY TypeInit, TypeStep, PTL DEF Spec

-----------------------------------------------------------------------------
(* The invariant is inductive, one lemma per action that disturbs it. *)

LEMMA InvInit == Init => Inv
<1> SUFFICES ASSUME Init PROVE Inv
  OBVIOUS
<1>1. TypeOK
  BY TypeInit
<1>2. DOMAIN uses = {}
  BY DEF Init
<1>3. CallersHonest
  BY DEF Init, CallersHonest
<1> QED
  BY <1>1, <1>2, <1>3 DEF Inv, UsesRemembered, ReuseOnlyAfterExpiry, RevocationHonoured

(* A step that touches neither the uses nor the store, and does not turn   *)
(* the clock or the boot count back, keeps what is said of the uses.       *)
LEMMA UsesKept ==
    ASSUME Inv, TypeOK', UNCHANGED <<uses, store>>, now' >= now, boot' >= boot
    PROVE  UsesRemembered' /\ ReuseOnlyAfterExpiry' /\ RevocationHonoured'
<1>1. ReuseOnlyAfterExpiry' /\ RevocationHonoured'
  BY DEF Inv, ReuseOnlyAfterExpiry, RevocationHonoured
<1>2. ASSUME NEW i \in DOMAIN uses'
      PROVE  Genuine(uses[i].grant)' /\ (uses[i].boot <= boot)' /\ Remembered(uses[i])'
  <2>1. /\ i \in DOMAIN uses /\ uses[i] \in Use /\ uses'[i] = uses[i]
        /\ Genuine(uses[i].grant) /\ uses[i].boot <= boot /\ Remembered(uses[i])
    BY <1>2 DEF Inv, TypeOK, UsesRemembered
  <2>2. uses[i].grant.expires \in Nat /\ uses[i].boot \in Nat
    BY <2>1, GrantsHaveExpiry DEF Use
  <2>3. now \in Nat /\ now' \in Nat /\ boot \in Nat /\ boot' \in Nat
    BY DEF Inv, TypeOK
  <2>4. Genuine(uses[i].grant)'
    BY <2>1 DEF Genuine
  <2>5. (uses[i].boot <= boot)'
    BY <2>1, <2>2, <2>3
  <2>6. Remembered(uses[i])'
    BY <2>1, <2>2, <2>3 DEF Remembered
  <2> QED
    BY <2>4, <2>5, <2>6
<1>3. UsesRemembered'
  BY <1>2 DEF UsesRemembered
<1> QED
  BY <1>1, <1>3

(* A call that begins records whether its capability is already revoked.   *)
LEMMA BeginKeeps ==
    ASSUME Inv, TypeOK', NEW t \in Callers, NEW p \in Presentations, Begin(t, p)
    PROVE  Inv'
<1>1. UsesRemembered' /\ ReuseOnlyAfterExpiry' /\ RevocationHonoured'
  BY UsesKept DEF Begin, Inv, TypeOK
<1>2. CallersHonest'
  <2> SUFFICES ASSUME NEW s \in Callers, (caller[s] # Idle)'
               PROVE  Honest(caller[s])'
    BY DEF CallersHonest
  <2>1. revoked' = revoked /\ caller \in [Callers -> Call \cup {Idle}]
    BY DEF Begin, Inv, TypeOK
  <2>2. CASE s = t
    <3>1. caller'[s] = [pc |-> "validate", pres |-> p, current |-> now,
                        forewarned |-> OnList(p.env)]
      BY <2>1, <2>2 DEF Begin
    <3>2. /\ caller'[s].pc = "validate" /\ caller'[s].pres.env = p.env
          /\ caller'[s].forewarned <=> OnList(p.env)
      <4> HIDE DEF OnList
      <4> QED
        BY <3>1
    <3>3. OnList(p.env) => OnList(p.env)'
      BY <2>1 DEF OnList
    <3>4. caller'[s].forewarned => OnList(p.env)'
      BY <3>2, <3>3
    <3>5. OnList(caller[s].pres.env)' <=> OnList(p.env)'
      BY <3>2 DEF OnList
    <3> QED
      BY <3>2, <3>4, <3>5 DEF Honest
  <2>3. CASE s # t
    <3>1. caller'[s] = caller[s] /\ Honest(caller[s])
      BY <2>1, <2>3 DEF Begin, Inv, CallersHonest
    <3> QED
      BY <2>1, <3>1 DEF Honest, OnList
  <2> QED
    BY <2>2, <2>3
<1> QED
  BY <1>1, <1>2 DEF Inv

(* Only a genuine capability that is not revoked passes the checks, so a   *)
(* call that waits for consume_once was not forewarned.                    *)
LEMMA ValidateKeeps ==
    ASSUME Inv, TypeOK', NEW t \in Callers, Validate(t)
    PROVE  Inv'
<1>1. UsesRemembered' /\ ReuseOnlyAfterExpiry' /\ RevocationHonoured'
  BY UsesKept DEF Validate, Inv, TypeOK
<1>2. CallersHonest'
  <2> SUFFICES ASSUME NEW s \in Callers, (caller[s] # Idle)'
               PROVE  Honest(caller[s])'
    BY DEF CallersHonest
  <2>1. revoked' = revoked /\ caller \in [Callers -> Call \cup {Idle}]
    BY DEF Validate, Inv, TypeOK
  <2>2. CASE s = t
    <3>1. Passes(caller[t]) /\ caller' = [caller EXCEPT ![t].pc = "consume"]
      BY <2>1, <2>2 DEF Validate
    <3>2. caller[t] \in Call /\ caller[t].pc = "validate"
      BY <2>1 DEF Validate
    <3>3. caller'[s] = [caller[t] EXCEPT !.pc = "consume"]
      BY <2>1, <2>2, <3>1
    <3>4. /\ caller'[s].pc = "consume"
          /\ caller'[s].pres = caller[t].pres
          /\ caller'[s].forewarned = caller[t].forewarned
      BY <3>2, <3>3 DEF Call
    <3>5. Payload[caller[t].pres.env].consistent /\ ~Revoked(caller[t].pres.env)
      BY <3>1 DEF Passes
    <3>6. NoRoot \notin revoked
      BY GateAssumption DEF Inv, TypeOK
    <3>7. ~OnList(caller[t].pres.env)
      BY <3>5, <3>6 DEF Revoked, OnList
    <3>8. ~caller[t].forewarned
      BY <3>2, <3>7 DEF Inv, CallersHonest, Honest, Validate
    <3> QED
      BY <3>4, <3>5, <3>8 DEF Honest
  <2>3. CASE s # t
    <3>1. caller'[s] = caller[s] /\ Honest(caller[s])
      BY <2>1, <2>3 DEF Validate, Inv, CallersHonest
    <3> QED
      BY <2>1, <3>1 DEF Honest, OnList
  <2> QED
    BY <2>2, <2>3
<1> QED
  BY <1>1, <1>2 DEF Inv

(* A caller that leaves, or stays where it was, keeps the callers honest.  *)
LEMMA LeavingKeepsHonest ==
    ASSUME Inv, TypeOK', revoked \subseteq revoked',
           \A s \in Callers : caller'[s] = caller[s] \/ caller'[s] = Idle
    PROVE  CallersHonest'
<1> SUFFICES ASSUME NEW s \in Callers, (caller[s] # Idle)'
             PROVE  Honest(caller[s])'
  BY DEF CallersHonest
<1>1. caller'[s] = caller[s] /\ Honest(caller[s])
  BY DEF Inv, CallersHonest
<1> QED
  BY <1>1 DEF Honest, OnList

(* The step that matters: a use is added only when the store, pruned by    *)
(* the clock of this instant, does not hold the id.                        *)
LEMMA ConsumeKeeps ==
    ASSUME Inv, TypeOK', NEW t \in Callers, ConsumeOnce(t)
    PROVE  Inv'
<1> DEFINE e == caller[t].pres.env
           u == [grant |-> Grant(e), at |-> now, boot |-> boot,
                 forewarned |-> caller[t].forewarned]
<1>1. /\ caller[t] \in Call /\ caller[t].pc = "consume" /\ caller[t] # Idle
      /\ caller' = [caller EXCEPT ![t] = Idle]
      /\ UNCHANGED <<now, boot, revoked>>
  BY DEF ConsumeOnce, Inv, TypeOK
<1>2. Payload[e].consistent /\ ~caller[t].forewarned /\ e \in Envelopes
  BY <1>1, GateAssumption DEF Inv, CallersHonest, Honest, Call
<1>3. Genuine(Grant(e)) /\ u \in Use
  BY <1>1, <1>2 DEF Genuine, Use, Inv, TypeOK, Call, Grants
<1>4. CallersHonest'
  BY <1>1, LeavingKeepsHonest DEF Inv, TypeOK
<1>5. /\ uses \in Seq(Use) /\ now \in Nat /\ boot \in Nat
      /\ \A i \in DOMAIN uses : /\ uses[i] \in Use /\ uses[i].grant.expires \in Nat
                                /\ Genuine(uses[i].grant) /\ uses[i].boot <= boot
                                /\ Remembered(uses[i])
  <2>1. uses \in Seq(Use) /\ now \in Nat /\ boot \in Nat
    BY DEF Inv, TypeOK
  <2>2. ASSUME NEW i \in DOMAIN uses
        PROVE  uses[i] \in Use /\ uses[i].grant \in Grants
    <3>1. uses[i] \in Use
      BY <2>1
    <3> QED
      BY <3>1 DEF Use
  <2>3. \A i \in DOMAIN uses : uses[i].grant.expires \in Nat
    BY <2>2, GrantsHaveExpiry
  <2> QED
    BY <2>1, <2>2, <2>3 DEF Inv, UsesRemembered
<1>6. ASSUME NEW s, Remembered(s), s \in Use, s.grant.expires \in Nat, Kept \subseteq store'
      PROVE  Remembered(s)'
  BY <1>1, <1>5, <1>6 DEF Remembered, Kept
<1>7. CASE store' = Kept /\ uses' = uses
  <2>1. UsesRemembered'
    BY <1>1, <1>5, <1>6, <1>7 DEF UsesRemembered, Genuine
  <2> QED
    BY <1>4, <1>7, <2>1 DEF Inv, ReuseOnlyAfterExpiry, RevocationHonoured
<1>8. CASE ~Holds(Kept, e) /\ store' = Kept \cup {Grant(e)} /\ uses' = Append(uses, u)
  <2> HIDE DEF u
  <2>1. /\ DOMAIN uses' = DOMAIN uses \cup {Len(uses) + 1}
        /\ \A i \in DOMAIN uses : uses'[i] = uses[i] /\ i # Len(uses) + 1
                                                     /\ i < Len(uses) + 1
        /\ uses'[Len(uses) + 1] = u
    BY <1>3, <1>5, <1>8
  <2>2. /\ u.grant = Grant(e) /\ u.at = now /\ u.boot = boot /\ ~u.forewarned
    BY <1>2 DEF u
  <2>3. UsesRemembered'
    <3> SUFFICES ASSUME NEW i \in DOMAIN uses'
                 PROVE  Genuine(uses'[i].grant) /\ uses'[i].boot <= boot'
                        /\ (Remembered(uses[i]))'
      BY DEF UsesRemembered, Genuine
    <3>1. CASE i \in DOMAIN uses
      <4>1. Remembered(uses[i])'
        BY <1>1, <1>5, <1>8, <2>1, <3>1 DEF Remembered, Kept
      <4> QED
        BY <1>1, <1>5, <2>1, <3>1, <4>1
    <3>2. CASE i = Len(uses) + 1
      BY <1>1, <1>3, <1>5, <1>8, <2>1, <2>2, <3>2 DEF Remembered
    <3> QED
      BY <2>1, <3>1, <3>2
  <2>4. ASSUME NEW i \in DOMAIN uses, uses[i].grant.id = u.grant.id
        PROVE  now > u.grant.expires \/ (~Persistent /\ uses[i].boot < boot)
    <3>1. uses[i].grant = u.grant
      BY <1>3, <1>5, <2>2, <2>4, GenuineGrantsById
    <3>2. uses[i].grant \notin Kept
      BY <1>8, <2>2, <3>1 DEF Holds, Grant
    <3>3. uses[i].grant.expires \in Nat /\ now \in Nat
      BY <1>5
    <3>4. uses[i].grant \in store => now > uses[i].grant.expires
      BY <3>2, <3>3 DEF Kept
    <3>5. Remembered(uses[i])
      BY <1>5
    <3>6. now > uses[i].grant.expires \/ (~Persistent /\ uses[i].boot < boot)
      BY <3>4, <3>5 DEF Remembered
    <3> QED
      BY <3>1, <3>6
  <2>5. ReuseOnlyAfterExpiry'
    <3> SUFFICES ASSUME NEW i \in DOMAIN uses', NEW j \in DOMAIN uses', i < j,
                        uses'[i].grant.id = uses'[j].grant.id
                 PROVE  \/ uses'[j].at > uses'[j].grant.expires
                        \/ ~Persistent /\ uses'[i].boot < uses'[j].boot
      BY DEF ReuseOnlyAfterExpiry
    <3>1. i \in DOMAIN uses
      BY <1>5, <2>1
    <3>2. CASE j \in DOMAIN uses
      BY <2>1, <3>1, <3>2 DEF Inv, ReuseOnlyAfterExpiry
    <3>3. CASE j = Len(uses) + 1
      BY <2>1, <2>2, <2>4, <3>1, <3>3
    <3> QED
      BY <2>1, <3>2, <3>3
  <2>6. RevocationHonoured'
    BY <2>1, <2>2 DEF Inv, RevocationHonoured
  <2> QED
    BY <1>4, <2>3, <2>5, <2>6 DEF Inv
<1> QED
  BY <1>7, <1>8 DEF ConsumeOnce

(* A restart ends the calls and loses at most what an in-memory store held.*)
LEMMA RestartKeeps ==
    ASSUME Inv, TypeOK', Restart
    PROVE  Inv'
<1>1. CallersHonest'
  BY DEF Restart, CallersHonest
<1>2. UsesRemembered'
  <2> SUFFICES ASSUME NEW i \in DOMAIN uses
               PROVE  Genuine(uses[i].grant) /\ uses[i].boot <= boot'
                      /\ Remembered(uses[i])'
    BY DEF Restart, UsesRemembered, Genuine
  <2>1. uses[i] \in Use /\ boot \in Nat
    BY DEF Inv, TypeOK
  <2>2. Genuine(uses[i].grant) /\ uses[i].boot <= boot /\ Remembered(uses[i])
    BY DEF Inv, UsesRemembered
  <2>3. uses[i].boot \in Nat /\ uses[i].boot <= boot' /\ uses[i].boot < boot'
    BY <2>1, <2>2 DEF Restart, Use
  <2>4. Remembered(uses[i])'
    BY <2>2, <2>3, GateAssumption DEF Restart, Remembered
  <2> QED
    BY <2>2, <2>3, <2>4
<1> QED
  BY <1>1, <1>2 DEF Inv, Restart, ReuseOnlyAfterExpiry, RevocationHonoured

(* The invariant is inductive: every step of authorize, of the operator and*)
(* of the clock keeps it.                                                  *)
LEMMA InvStep == Inv /\ [Next]_vars => Inv'
<1> SUFFICES ASSUME Inv, [Next]_vars PROVE Inv'
  OBVIOUS
<1>0. TypeOK'
  BY TypeStep DEF Inv
<1>1. ASSUME NEW t \in Callers, NEW p \in Presentations, Begin(t, p)
      PROVE  Inv'
  BY <1>0, <1>1, BeginKeeps
<1>2. ASSUME NEW t \in Callers, Validate(t)
      PROVE  Inv'
  BY <1>0, <1>2, ValidateKeeps
<1>3. ASSUME NEW t \in Callers, ConsumeOnce(t)
      PROVE  Inv'
  BY <1>0, <1>3, ConsumeKeeps
<1>4. CASE \/ \E t \in Callers : StoreFails(t)
           \/ \E c \in Ids : Revoke(c)
           \/ Tick
           \/ UNCHANGED vars
  <2>1. UNCHANGED <<uses, store>> /\ now' >= now /\ boot' >= boot
    BY <1>4 DEF StoreFails, Revoke, Tick, vars, Inv, TypeOK
  <2>2. /\ revoked \subseteq revoked'
        /\ \A s \in Callers : caller'[s] = caller[s] \/ caller'[s] = Idle
    BY <1>4 DEF StoreFails, Revoke, Tick, vars, Inv, TypeOK
  <2> QED
    BY <1>0, <2>1, <2>2, UsesKept, LeavingKeepsHonest DEF Inv
<1>5. CASE Restart
  BY <1>0, <1>5, RestartKeeps
<1> QED
  BY <1>1, <1>2, <1>3, <1>4, <1>5 DEF Next, Authorize

-----------------------------------------------------------------------------
(* The results. *)

(* No live capability is consumed twice (by one process, for the in-memory *)
(* store), whatever the interleaving of authorize calls with the clock.    *)
THEOREM LiveCapabilityIsOneTime == Spec => []ReuseOnlyAfterExpiry
<1>1. Inv => ReuseOnlyAfterExpiry
  BY DEF Inv
<1> QED
  BY <1>1, InvInit, InvStep, PTL DEF Spec

(* A call that began after the revocation never consumes the capability.   *)
THEOREM RevocationHolds == Spec => []RevocationHonoured
<1>1. Inv => RevocationHonoured
  BY DEF Inv
<1> QED
  BY <1>1, InvInit, InvStep, PTL DEF Spec

-----------------------------------------------------------------------------
(* The durable gate implements the one-time ledger. *)

Spent == [i \in DOMAIN uses |-> uses[i].grant]

(* Appending a use appends its grant to what the ledger sees as spent.     *)
LEMMA SpentAppend ==
    ASSUME NEW s \in Seq(Use), NEW u \in Use
    PROVE  [i \in DOMAIN Append(s, u) |-> Append(s, u)[i].grant]
             = Append([i \in DOMAIN s |-> s[i].grant], u.grant)
<1> DEFINE old == [i \in DOMAIN s |-> s[i].grant]
           new == [i \in DOMAIN Append(s, u) |-> Append(s, u)[i].grant]
<1>1. /\ DOMAIN s = 1 .. Len(s) /\ Len(s) \in Nat
      /\ DOMAIN Append(s, u) = 1 .. (Len(s) + 1)
      /\ \A i \in 1 .. Len(s) : Append(s, u)[i] = s[i] /\ s[i] \in Use
      /\ Append(s, u)[Len(s) + 1] = u
  OBVIOUS
<1>2. old \in Seq(Grants) /\ Len(old) = Len(s)
  <2>1. \A i \in 1 .. Len(s) : s[i].grant \in Grants
    BY <1>1 DEF Use
  <2>2. old \in [1 .. Len(s) -> Grants]
    BY <1>1, <2>1
  <2> QED
    BY <1>1, <2>2
<1>3. u.grant \in Grants
  BY DEF Use
<1>4. /\ DOMAIN Append(old, u.grant) = 1 .. (Len(s) + 1)
      /\ \A i \in 1 .. Len(s) : Append(old, u.grant)[i] = old[i]
      /\ Append(old, u.grant)[Len(s) + 1] = u.grant
  <2> HIDE DEF old
  <2> QED
    BY <1>1, <1>2, <1>3
<1>5. Append(old, u.grant) \in Seq(Grants)
  <2> HIDE DEF old
  <2> QED
    BY <1>2, <1>3
<1>6. \A i \in 1 .. (Len(s) + 1) : new[i] = Append(old, u.grant)[i]
  <2> SUFFICES ASSUME NEW i \in 1 .. (Len(s) + 1)
               PROVE  new[i] = Append(old, u.grant)[i]
    OBVIOUS
  <2>1. new[i] = Append(s, u)[i].grant
    BY <1>1
  <2>2. CASE i \in 1 .. Len(s)
    <3>1. old[i] = s[i].grant
      BY <1>1, <2>2
    <3> QED
      BY <1>1, <1>4, <2>1, <2>2, <3>1
  <2>3. CASE i = Len(s) + 1
    BY <1>1, <1>4, <2>1, <2>3
  <2> QED
    BY <1>1, <2>2, <2>3
<1>7. new = [i \in 1 .. (Len(s) + 1) |-> new[i]]
  BY <1>1
<1>8. Append(old, u.grant) = [i \in 1 .. (Len(s) + 1) |-> Append(old, u.grant)[i]]
  <2> HIDE DEF old
  <2> QED
    BY <1>4, <1>5
<1> QED
  BY <1>6, <1>7, <1>8

(* On a durable store, every step is a step or a stutter of the ledger.    *)
LEMMA LedgerStep ==
    ASSUME Persistent, Inv, Inv', [Next]_vars
    PROVE  [Ledger!LedgerNext]_(Ledger!ledgerVars)
<1>1. ASSUME NEW t \in Callers, ConsumeOnce(t)
      PROVE  [Ledger!LedgerNext]_(Ledger!ledgerVars)
  <2> DEFINE e == caller[t].pres.env
             u == [grant |-> Grant(e), at |-> now, boot |-> boot,
                   forewarned |-> caller[t].forewarned]
  <2>1. CASE uses' = uses
    BY <1>1, <2>1 DEF ConsumeOnce, Ledger!ledgerVars
  <2>2. CASE uses' = Append(uses, u) /\ ~Holds(Kept, e)
    <3>1. /\ caller[t] \in Call /\ e \in Envelopes /\ uses \in Seq(Use)
          /\ now \in Nat /\ boot \in Nat
      BY <1>1, GateAssumption DEF ConsumeOnce, Inv, TypeOK, Call
    <3>2. u \in Use /\ Grant(e) \in Grants /\ u.grant = Grant(e)
      BY <3>1 DEF Use, Call, Grants
    <3>3. Spent' = Append(Spent, Grant(e))
      <4> HIDE DEF u
      <4> QED
        BY <2>2, <3>1, <3>2, SpentAppend DEF Spent
    <3>4. ASSUME NEW i \in DOMAIN Spent, Spent[i].id = Grant(e).id
          PROVE  now > Grant(e).expires
      <4>1. i \in DOMAIN uses /\ Spent[i] = uses[i].grant
        BY <3>4 DEF Spent
      <4>2. Genuine(uses[i].grant) /\ Remembered(uses[i]) /\ Genuine(Grant(e))
        BY <1>1, <3>1, <4>1
           DEF Inv, UsesRemembered, ConsumeOnce, CallersHonest, Honest, Genuine
      <4>3. uses[i].grant = Grant(e)
        BY <3>4, <4>1, <4>2, GenuineGrantsById
      <4>4. Grant(e) \notin Kept
        BY <2>2 DEF Holds, Grant
      <4>5. Grant(e).expires \in Nat
        BY <3>2, GrantsHaveExpiry
      <4>6. Grant(e) \in store => now > Grant(e).expires
        BY <3>1, <4>4, <4>5 DEF Kept
      <4> QED
        BY <4>2, <4>3, <4>6 DEF Remembered
    <3>5. now' = now
      BY <1>1 DEF ConsumeOnce
    <3>6. \E g \in Grants : Ledger!Spend(g)
      <4> DEFINE g == Grant(e)
      <4>1. /\ g \in Grants /\ Spent' = Append(Spent, g) /\ now' = now
            /\ \A i \in DOMAIN Spent : Spent[i].id = g.id => now > g.expires
        BY <3>2, <3>3, <3>4, <3>5
      <4> HIDE DEF g
      <4> QED
        BY <4>1 DEF Ledger!Spend, Spent
    <3> QED
      BY <3>6 DEF Ledger!LedgerNext, Ledger!Spend
  <2> QED
    BY <1>1, <2>1, <2>2 DEF ConsumeOnce
<1>2. CASE Tick
  BY <1>2 DEF Tick, Inv, TypeOK, Ledger!LedgerNext, Ledger!Advance
<1>3. CASE \/ \E t \in Callers : \/ \E p \in Presentations : Begin(t, p)
                                \/ Validate(t)
                                \/ StoreFails(t)
           \/ \E c \in Ids : Revoke(c)
           \/ Restart
           \/ UNCHANGED vars
  <2>1. UNCHANGED <<now, uses>>
    BY <1>3 DEF Begin, Validate, StoreFails, Revoke, Restart, vars
  <2> QED
    BY <2>1 DEF Ledger!ledgerVars
<1> QED
  BY <1>1, <1>2, <1>3 DEF Next, Authorize

(* A gate on SQLite, crashes, concurrent callers and late commits          *)
(* included, spends grants as the one-time ledger does.                    *)
THEOREM DurableGateIsLedger ==
    ASSUME Persistent
    PROVE  Spec => ImplementsLedger
<1>1. Init => Ledger!LedgerInit
  BY DEF Init, Ledger!LedgerInit
<1>2. Inv /\ Inv' /\ [Next]_vars => [Ledger!LedgerNext]_(Ledger!ledgerVars)
  BY LedgerStep
<1> QED
  BY <1>1, <1>2, InvInit, InvStep, PTL DEF Spec, ImplementsLedger, Ledger!LedgerSpec
=============================================================================
