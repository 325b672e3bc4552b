------------------------------- MODULE ActionGate -------------------------------
(***************************************************************************)
(* The enforcement point of KineGrant (gate.py): ActionGate.authorize, run *)
(* by several threads, over one replay store and one revocation list.      *)
(*                                                                         *)
(* A call takes its time `current' first (its own utc_now(), or the one    *)
(* the Gatekeeper took before its sequence check), then runs every check   *)
(* that reads only the capability, the request and `current', then looks   *)
(* at the revocation list, and only then calls consume_once, which takes   *)
(* the store's lock (or waits up to 5 s for SQLite's) and reads the clock  *)
(* a second time to prune.  Between these steps other calls run, the       *)
(* clock advances, capabilities are revoked and the process restarts.      *)
(*                                                                         *)
(* The clock never steps back: nothing in gate.py guards against a clock   *)
(* that does (trust.py's TrustedClock is not wired to the gate).           *)
(***************************************************************************)
EXTENDS Integers, Sequences

CONSTANTS
    Envelopes,       \* capability envelopes that callers may present
    Payload,         \* Payload[e]: what the gate reads in envelope e
    NoParent,        \* authorize called without parent_capability
    Requests,        \* the action requests presented with them
    Presentations,   \* the calls made: [env, req, parent]
    TrustedIssuers,  \* ActionGate.trusted_issuers
    Attenuates,      \* pairs <<child, parent>> that verify_attenuation accepts
    MaxLifetime,     \* the protocol maximum of a capability's life (300 s)
    Callers,         \* threads inside authorize
    Persistent,      \* TRUE: SQLiteReplayStore; FALSE: InMemoryReplayStore
    MaxTime,         \* bound on the clock
    MaxRestarts      \* bound on process restarts

Ids == {Payload[e].id : e \in Envelopes}

(* The root_capability_id of a v0.1 capability, which has none. *)
NoRoot == "none"

(* What the replay store keeps of a capability: its id and its expiry. *)
Grant(e) == [id |-> Payload[e].id, expires |-> Payload[e].expires]

Grants == {Grant(e) : e \in Envelopes}

PayloadType ==
    [signed : BOOLEAN,          \* verify_envelope accepts the signature
     wellFormed : BOOLEAN,      \* fields, type, nonce, obligations, digests
     version : {"0.1", "0.2", "1.0"},
     ownKey : BOOLEAN,          \* issuer is the kid that signed
     issuer : STRING,
     request : Requests,        \* the request whose digest it carries
     scope : SUBSET Requests,   \* requests within its agent, target, action, purpose
     id : STRING,
     consistent : BOOLEAN,      \* id is the content id of the payload
     root : STRING,             \* root_capability_id, or NoRoot
     issuedAt : Nat, notBefore : Nat, expires : Nat]

(* The id is a hash of the payload without the chain fields, expires_at    *)
(* included, so equal ids mean equal expiries (SHA-256 has no collision).  *)
ASSUME GateAssumption ==
    /\ Payload \in [Envelopes -> PayloadType]
    /\ \A e, f \in Envelopes :
          /\ Payload[e].consistent /\ Payload[f].consistent
          /\ Payload[e].id = Payload[f].id
          => Payload[e].expires = Payload[f].expires
    /\ NoRoot \notin Ids              \* an id is a content id, never the absent root
    /\ NoParent \notin Envelopes
    /\ Presentations \subseteq [env : Envelopes, req : Requests,
                               parent : Envelopes \cup {NoParent}]
    /\ Persistent \in BOOLEAN
    /\ MaxLifetime \in Nat
    /\ MaxTime \in Nat /\ MaxRestarts \in Nat

VARIABLES
    now,       \* the wall clock, utc_now()
    boot,      \* how often the process has restarted
    store,     \* the replay store's entries
    revoked,   \* ids in the RevocationList
    caller,    \* each thread's position in authorize and its locals
    uses       \* history: every consumption, in order

vars == <<now, boot, store, revoked, caller, uses>>

Idle == [pc |-> "idle"]

(* A call in progress.  forewarned is history: the capability or its root  *)
(* was on the revocation list when the call began.                         *)
Call == [pc : {"validate", "consume"},
         pres : Presentations,
         current : Nat, forewarned : BOOLEAN]

Use == [grant : Grants, at : Nat, boot : Nat, forewarned : BOOLEAN]

(* Every variable keeps its shape. *)
TypeOK ==
    /\ now \in Nat
    /\ boot \in Nat
    /\ store \subseteq Grants
    /\ revoked \subseteq Ids
    /\ caller \in [Callers -> Call \cup {Idle}]
    /\ uses \in Seq(Use)

Init ==
    /\ now = 0
    /\ boot = 0
    /\ store = {}
    /\ revoked = {}
    /\ caller = [t \in Callers |-> Idle]
    /\ uses = <<>>

-----------------------------------------------------------------------------
(* The checks of authorize that read no shared state, in its order. *)

Authentic(e) ==
    LET p == Payload[e] IN
    p.signed /\ p.wellFormed /\ p.ownKey /\ p.issuer \in TrustedIssuers

BindsRequest(e, r) == Payload[e].request = r /\ r \in Payload[e].scope

ParentAccepted(e, par) ==
    par # NoParent => /\ Payload[e].version = "0.2"
                      /\ Payload[par].signed
                      /\ <<e, par>> \in Attenuates

WindowAccepted(e, current) ==
    LET p == Payload[e] IN
    /\ p.issuedAt <= p.notBefore /\ p.notBefore < p.expires
    /\ p.expires - p.notBefore <= MaxLifetime
    /\ p.notBefore <= current /\ current < p.expires

(* A capability is revoked by its own id or by the root of its chain;      *)
(* is_revoked(None) is False, so a v0.1 capability has no root to revoke.  *)
RevokedByIdOnly(e) == Payload[e].id \in revoked

Revoked(e) ==
    \/ Payload[e].id \in revoked
    \/ Payload[e].root # NoRoot /\ Payload[e].root \in revoked

(* History: what a later complaint would be about, stated apart from the check. *)
OnList(e) == {Payload[e].id, Payload[e].root} \cap revoked # {}

-----------------------------------------------------------------------------
(* The call begins: `current' is fixed. *)
Begin(t, p) ==
    /\ caller[t] = Idle
    /\ caller' = [caller EXCEPT ![t] =
                    [pc |-> "validate", pres |-> p,
                     current |-> now, forewarned |-> OnList(p.env)]]
    /\ UNCHANGED <<now, boot, store, revoked, uses>>

Passes(c) ==
    /\ Authentic(c.pres.env)
    /\ BindsRequest(c.pres.env, c.pres.req)
    /\ ParentAccepted(c.pres.env, c.pres.parent)
    /\ WindowAccepted(c.pres.env, c.current)
    /\ ~Revoked(c.pres.env)
    /\ Payload[c.pres.env].consistent

(* Everything up to consume_once: on the first failed check authorize      *)
(* raises PermissionError and nothing shared has changed.                  *)
Validate(t) ==
    /\ caller[t] # Idle /\ caller[t].pc = "validate"
    /\ \/ /\ Passes(caller[t])
          /\ caller' = [caller EXCEPT ![t].pc = "consume"]
       \/ /\ ~Passes(caller[t])
          /\ caller' = [caller EXCEPT ![t] = Idle]
    /\ UNCHANGED <<now, boot, store, revoked, uses>>

KeptOffByOne == {g \in store : now < g.expires}

(* The pruning at the head of consume_once, by a fresh reading of the      *)
(* clock; the entry survives the instant of its expiry itself.             *)
Kept == {g \in store : now <= g.expires}

Holds(entries, e) == \E g \in entries : g.id = Payload[e].id

(* consume_once: prune, then insert unless present, under the lock.        *)
ConsumeOnce(t) ==
    /\ caller[t] # Idle /\ caller[t].pc = "consume"
    /\ LET e == caller[t].pres.env IN
       \/ /\ Holds(Kept, e)                  \* "capability replay detected"
          /\ store' = Kept
          /\ UNCHANGED uses
       \/ /\ ~Holds(Kept, e)
          /\ store' = Kept \cup {Grant(e)}
          /\ uses' = Append(uses, [grant |-> Grant(e), at |-> now, boot |-> boot,
                                   forewarned |-> caller[t].forewarned])
    /\ caller' = [caller EXCEPT ![t] = Idle]
    /\ UNCHANGED <<now, boot, revoked>>

(* SQLite cannot take its lock in 5 s, or the commit fails: the            *)
(* transaction rolls back and the exception leaves authorize.              *)
StoreFails(t) ==
    /\ Persistent
    /\ caller[t] # Idle /\ caller[t].pc = "consume"
    /\ caller' = [caller EXCEPT ![t] = Idle]
    /\ UNCHANGED <<now, boot, store, revoked, uses>>

(* RevocationList.revoke, by the operator or a distributed bundle. *)
Revoke(c) ==
    /\ c \in Ids \ revoked
    /\ revoked' = revoked \cup {c}
    /\ UNCHANGED <<now, boot, store, caller, uses>>

RestartForgets ==
    /\ boot < MaxRestarts
    /\ boot' = boot + 1
    /\ store' = {}
    /\ revoked' \in SUBSET revoked
    /\ caller' = [t \in Callers |-> Idle]
    /\ UNCHANGED <<now, uses>>

(* The process dies and starts again: calls in progress are gone, an       *)
(* in-memory store is empty, and the revocation list holds what the        *)
(* deployment hands to the new ActionGate.                                 *)
Restart ==
    /\ boot < MaxRestarts
    /\ boot' = boot + 1
    /\ store' = IF Persistent THEN store ELSE {}
    /\ revoked' \in SUBSET revoked
    /\ caller' = [t \in Callers |-> Idle]
    /\ UNCHANGED <<now, uses>>

Tick ==
    /\ now < MaxTime
    /\ now' = now + 1
    /\ UNCHANGED <<boot, store, revoked, caller, uses>>

Authorize(t) ==
    \/ \E p \in Presentations : Begin(t, p)
    \/ Validate(t)
    \/ ConsumeOnce(t)
    \/ StoreFails(t)

Next ==
    \/ \E t \in Callers : Authorize(t)
    \/ \E c \in Ids : Revoke(c)
    \/ Restart
    \/ Tick

Spec == Init /\ [][Next]_vars

-----------------------------------------------------------------------------
(* Properties *)

(* A capability is consumed a second time only after it has expired by the *)
(* store's own reading of the clock (or, with the in-memory store, after a *)
(* restart lost the entry): no order of checks, prunes and commits of any  *)
(* number of callers gives a live capability two uses.                     *)
ReuseOnlyAfterExpiry ==
    \A i, j \in DOMAIN uses :
        (i < j /\ uses[i].grant.id = uses[j].grant.id)
        => \/ uses[j].at > uses[j].grant.expires
           \/ ~Persistent /\ uses[i].boot < uses[j].boot

(* A call that begins after its capability, or the root of its delegation  *)
(* chain, is on the revocation list never consumes it, whatever is revoked,*)
(* restarted or consumed while the call runs.                              *)
RevocationHonoured == \A i \in DOMAIN uses : ~uses[i].forewarned

(* The promise the documentation makes without the expiry: "every          *)
(* capability remains single-use".                                         *)
SingleUse ==
    \A i, j \in DOMAIN uses :
        uses[i].grant.id = uses[j].grant.id => i = j

(* The durable gate as an implementation of the one-time ledger. *)
Ledger == INSTANCE OneTimeLedger
          WITH Grants <- Grants, clock <- now,
               spent <- [i \in DOMAIN uses |-> uses[i].grant]

(* Every step of a gate on a durable store is a step of the one-time       *)
(* ledger: a grant is spent at most once while the ledger's clock has not  *)
(* passed its expiry.                                                      *)
ImplementsLedger == Ledger!LedgerSpec
=============================================================================
