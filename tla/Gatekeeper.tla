------------------------------- MODULE Gatekeeper -------------------------------
(***************************************************************************)
(* The whole action boundary in one call (gatekeeper.py, execute): the     *)
(* sequence check against the action journal, the revocation check, the    *)
(* gate, the actuator, the signed receipt, the obligation check over the   *)
(* receipt chain, and the journal entry.                                   *)
(*                                                                         *)
(* The gate is ActionGate, whose steps are conjuncts of the steps here.    *)
(* The journal and the receipt log are shared by the threads and have no   *)
(* lock; neither is on disk, so a restart empties the journal and leaves   *)
(* the log as empty or as complete as the deployment restores it.          *)
(***************************************************************************)
EXTENDS ActionGate

CONSTANTS
    Obliged,        \* ids of the capabilities that carry obligations
    Combinations,   \* forbidden combinations: [patterns, window, trigger]
    Declared        \* what execute is told to put in the receipt: a result, or
                    \* Malformed for arguments that ReceiptLog.append refuses

NoWindow == 0       \* window_seconds is None

(* A result that is none of the three, an evidence hash that is no SHA-256,*)
(* or obligation results of the wrong shape.                               *)
Malformed == "malformed"

(* A pattern is the set of requests it matches; a combination without a    *)
(* trigger denies every request.                                           *)
ASSUME GatekeeperAssumption ==
    /\ Obliged \subseteq Ids
    /\ \A c \in Combinations :
          c \in [patterns : SUBSET SUBSET Requests, window : Nat,
                 trigger : SUBSET Requests]
    /\ Declared \subseteq {"succeeded", "failed", "aborted", Malformed}

VARIABLES
    job,        \* each thread's position in execute and its locals
    journal,    \* ActionJournal: requests with the time their call took
    receipts,   \* ReceiptLog: capability, result, number of the receipt before
    deeds       \* history: every run of the actuator since the process started

gkVars == <<now, boot, store, revoked, caller, uses, job, journal, receipts, deeds>>

gateUnchanged == UNCHANGED vars

NoJob == [stage |-> "none"]

Receipt == [cap : Ids, result : {"succeeded", "failed", "aborted"}, prev : Nat]

NoDraft == [result |-> "none"]

Job == [stage : {"sequence", "revocation", "gate", "actuate", "receipt",
                 "append", "comply", "record"},
        pres : Presentations, current : Nat,
        barred : BOOLEAN,               \* history: the sequence policy denied it at its start
        deed : Nat,                     \* history: which deed is its own
        draft : Receipt \cup {NoDraft}] \* the receipt signed, not yet in the log

Open == -1          \* no receipt was refused for the deed
Misreported == -2   \* refused for the caller's arguments

Deed == [pres : Presentations, ok : BOOLEAN, barred : BOOLEAN,
         refused : Nat \cup {Open, Misreported}]

(* Every variable keeps its shape, and a thread waits in the gate only     *)
(* while execute waits for it.                                             *)
GKTypeOK ==
    /\ TypeOK
    /\ job \in [Callers -> Job \cup {NoJob}]
    /\ journal \in Seq([req : Requests, at : Nat, deed : Nat])
    /\ receipts \in Seq(Receipt)
    /\ deeds \in Seq(Deed)
    /\ \A t \in Callers :
          caller[t] # Idle <=> job[t].stage \in {"sequence", "revocation", "gate"}

GKInit ==
    /\ Init
    /\ job = [t \in Callers |-> NoJob]
    /\ journal = <<>> /\ receipts = <<>> /\ deeds = <<>>

-----------------------------------------------------------------------------
(* The sequence policy. *)

MatchesOpenEnded(pattern, window, at) ==
    \E i \in DOMAIN journal :
        /\ window = NoWindow \/ journal[i].at > at - window
        /\ journal[i].req \in pattern

(* An entry counts from the cutoff on, the cutoff itself included. *)
Matches(pattern, window, at) ==
    \E i \in DOMAIN journal :
        /\ window = NoWindow \/ journal[i].at >= at - window
        /\ journal[i].req \in pattern

IsComplete(c, at) == \A p \in c.patterns : Matches(p, c.window, at)

SequenceDenies(r, at) ==
    \E c \in Combinations : IsComplete(c, at) /\ r \in c.trigger

(* History: some combination that r triggers has all its actions in the    *)
(* journal, none of them older than its window at this instant.            *)
Barred(r) ==
    \E c \in Combinations :
        /\ r \in c.trigger
        /\ \A p \in c.patterns :
              {i \in DOMAIN journal : /\ journal[i].req \in p
                                      /\ (c.window = NoWindow
                                          \/ now <= journal[i].at + c.window)} # {}

-----------------------------------------------------------------------------
(* The receipt log. *)

IdOf(t) == Payload[job[t].pres.env].id

(* append refuses a second terminal receipt for a capability ... *)
AlreadyReceipted(t) == \E k \in DOMAIN receipts : receipts[k].cap = IdOf(t)

AnyTime(e) == TRUE

ActiveAfterStart(e) == Payload[e].notBefore < now /\ now < Payload[e].expires

(* ... and a receipt whose own reading of the clock is outside its life.   *)
StillActive(e) == Payload[e].notBefore <= now /\ now < Payload[e].expires

(* verify_receipt_chain: each receipt names the one before it, no          *)
(* capability twice.                                                       *)
ChainValid ==
    \A k \in DOMAIN receipts :
        /\ receipts[k].prev = k - 1
        /\ \A i \in 1 .. (k - 1) : receipts[i].cap # receipts[k].cap

-----------------------------------------------------------------------------
(* execute, step by step *)

At(t, stage) == job[t] # NoJob /\ job[t].stage = stage

GoTo(t, stage) == job' = [job EXCEPT ![t].stage = stage]

Return(t) == job' = [job EXCEPT ![t] = NoJob]

Abandon(t) == Return(t) /\ caller' = [caller EXCEPT ![t] = Idle]

Start(t, p) ==
    /\ job[t] = NoJob
    /\ Begin(t, p)
    /\ job' = [job EXCEPT ![t] = [stage |-> "sequence", pres |-> p, current |-> now,
                                  barred |-> Barred(p.req), deed |-> 0,
                                  draft |-> NoDraft]]
    /\ UNCHANGED <<journal, receipts, deeds>>

CheckSequence(t) ==
    /\ At(t, "sequence")
    /\ \/ /\ SequenceDenies(job[t].pres.req, job[t].current)
          /\ Abandon(t)
       \/ /\ ~SequenceDenies(job[t].pres.req, job[t].current)
          /\ GoTo(t, "revocation")
          /\ UNCHANGED caller
    /\ UNCHANGED <<now, boot, store, revoked, uses, journal, receipts, deeds>>

CheckRevocation(t) ==
    /\ At(t, "revocation")
    /\ LET e == job[t].pres.env IN
       \/ /\ ~Payload[e].signed \/ Revoked(e)
          /\ Abandon(t)
       \/ /\ Payload[e].signed /\ ~Revoked(e)
          /\ GoTo(t, "gate")
          /\ UNCHANGED caller
    /\ UNCHANGED <<now, boot, store, revoked, uses, journal, receipts, deeds>>

(* The gate's own checks; a PermissionError ends the call. *)
GateValidate(t) ==
    /\ At(t, "gate")
    /\ Validate(t)
    /\ IF caller'[t] = Idle THEN Return(t) ELSE UNCHANGED job
    /\ UNCHANGED <<journal, receipts, deeds>>

GateConsume(t) ==
    /\ At(t, "gate")
    /\ ConsumeOnce(t)
    /\ IF uses' # uses THEN GoTo(t, "actuate") ELSE Return(t)
    /\ UNCHANGED <<journal, receipts, deeds>>

(* sqlite3's exception is neither caught by the gate nor by execute. *)
GateStoreFails(t) ==
    /\ At(t, "gate")
    /\ StoreFails(t)
    /\ Return(t)
    /\ UNCHANGED <<journal, receipts, deeds>>

(* Trying again while the actuator raises, instead of taking the exception *)
(* for the action's end.                                                   *)
ActuateUntilDone(t) ==
    /\ At(t, "actuate")
    /\ \E ok \in BOOLEAN :
          /\ deeds' = Append(deeds, [pres |-> job[t].pres, ok |-> ok,
                                    barred |-> job[t].barred, refused |-> Open])
          /\ job' = IF ok THEN [job EXCEPT ![t].stage = "receipt",
                                           ![t].deed = Len(deeds) + 1]
                    ELSE job
    /\ gateUnchanged
    /\ UNCHANGED <<journal, receipts>>

(* The physical action; an exception of the actuator is kept for later.    *)
Actuate(t) ==
    /\ At(t, "actuate")
    /\ \E ok \in BOOLEAN :
          deeds' = Append(deeds, [pres |-> job[t].pres, ok |-> ok,
                                  barred |-> job[t].barred, refused |-> Open])
    /\ job' = [job EXCEPT ![t].stage = "receipt", ![t].deed = Len(deeds) + 1]
    /\ gateUnchanged
    /\ UNCHANGED <<journal, receipts>>

(* append raises, and execute returns without a receipt. *)
RefuseReceipt(t, why) ==
    /\ deeds' = [deeds EXCEPT ![job[t].deed].refused = why]
    /\ Return(t)

(* ReceiptLog.append up to the signature: it has read the last entry.  The *)
(* arguments are looked at only now, after the action.                     *)
PrepareReceipt(t) ==
    /\ At(t, "receipt")
    /\ \/ /\ AlreadyReceipted(t) \/ ~StillActive(job[t].pres.env)
          /\ RefuseReceipt(t, now)
       \/ /\ ~AlreadyReceipted(t) /\ StillActive(job[t].pres.env)
          /\ \/ Malformed \in Declared /\ RefuseReceipt(t, Misreported)
             \/ \E result \in Declared \ {Malformed} :
                   /\ job' = [job EXCEPT ![t].stage = "append",
                                         ![t].draft =
                                [cap |-> IdOf(t), prev |-> Len(receipts),
                                 result |-> IF deeds[job[t].deed].ok THEN result
                                            ELSE "failed"]]
                   /\ UNCHANGED deeds
    /\ gateUnchanged
    /\ UNCHANGED <<journal, receipts>>

AppendReceipt(t) ==
    /\ At(t, "append")
    /\ receipts' = Append(receipts, job[t].draft)
    /\ job' = [job EXCEPT ![t].stage = "comply", ![t].draft = NoDraft]
    /\ gateUnchanged
    /\ UNCHANGED <<journal, deeds>>

CompliesWhateverHappened(t, fulfilled) ==
    IdOf(t) \in Obliged => ChainValid /\ fulfilled

(* A capability without obligations complies without a look at the chain.  *)
Complies(t, fulfilled) ==
    /\ deeds[job[t].deed].ok
    /\ IdOf(t) \in Obliged => ChainValid /\ fulfilled

(* The obligation check; `fulfilled' is what the receipt reports of them.  *)
Comply(t) ==
    /\ At(t, "comply")
    /\ \E fulfilled \in BOOLEAN :
          \/ Complies(t, fulfilled) /\ GoTo(t, "record")
          \/ ~Complies(t, fulfilled) /\ Return(t)
    /\ gateUnchanged
    /\ UNCHANGED <<journal, receipts, deeds>>

(* The entry is dated when the call began, not when the action ran. *)
Record(t) ==
    /\ At(t, "record")
    /\ journal' = Append(journal, [req |-> job[t].pres.req, at |-> job[t].current,
                                   deed |-> job[t].deed])
    /\ Return(t)
    /\ gateUnchanged
    /\ UNCHANGED <<receipts, deeds>>

Execute(t) ==
    \/ \E p \in Presentations : Start(t, p)
    \/ CheckSequence(t) \/ CheckRevocation(t)
    \/ GateValidate(t) \/ GateConsume(t) \/ GateStoreFails(t)
    \/ Actuate(t)
    \/ PrepareReceipt(t) \/ AppendReceipt(t)
    \/ Comply(t) \/ Record(t)

GKRevoke(c) == Revoke(c) /\ UNCHANGED <<job, journal, receipts, deeds>>

GKTick == Tick /\ UNCHANGED <<job, journal, receipts, deeds>>

GKRestart ==
    /\ Restart
    /\ job' = [t \in Callers |-> NoJob]
    /\ journal' = <<>>
    /\ receipts' \in {receipts, <<>>}
    /\ deeds' = <<>>

GKNext ==
    \/ \E t \in Callers : Execute(t)
    \/ \E c \in Ids : GKRevoke(c)
    \/ GKTick
    \/ GKRestart

GKSpec == GKInit /\ [][GKNext]_gkVars

-----------------------------------------------------------------------------
(* Properties *)

(* A forbidden combination that was complete when a call began keeps that  *)
(* call from the actuator, whatever other calls record meanwhile.          *)
BarredNeverActuates == \A d \in DOMAIN deeds : ~deeds[d].barred

(* Between two restarts, the actuator runs a second time under one         *)
(* capability only after the capability's expiry, when the store has       *)
(* forgotten it: not for a replay on another thread, not under another     *)
(* envelope of the same capability, and not because the first run failed.  *)
OneActionPerLiveCapability ==
    \A i, k \in DOMAIN deeds :
        i # k /\ Payload[deeds[i].pres.env].id = Payload[deeds[k].pres.env].id =>
            now > Payload[deeds[k].pres.env].expires

(* With a durable store, the receipt of an action that was taken is refused*)
(* for two reasons only: execute was called with malformed arguments, or   *)
(* the capability expired before the receipt began; never because another  *)
(* thread's call has taken its place in the log.                           *)
ReceiptGapExplained ==
    Persistent =>
        \A d \in DOMAIN deeds :
            \/ deeds[d].refused \in {Open, Misreported}
            \/ deeds[d].refused >= Payload[deeds[d].pres.env].expires

(* No capability has two receipts in the log, although the check for the   *)
(* earlier one and the append are two steps: only one use of it can still  *)
(* be within its life.                                                     *)
OneReceiptPerCapability ==
    \A i, k \in DOMAIN receipts : receipts[i].cap = receipts[k].cap => i = k

(* Each journal entry is for a deed of its own that ended well and whose   *)
(* capability has its receipt in the log.                                  *)
JournalHasReceipts ==
    /\ \A i \in DOMAIN journal :
          /\ deeds[journal[i].deed].ok
          /\ deeds[journal[i].deed].pres.req = journal[i].req
          /\ \E k \in DOMAIN receipts :
                receipts[k].cap = Payload[deeds[journal[i].deed].pres.env].id
    /\ \A i, k \in DOMAIN journal : journal[i].deed = journal[k].deed => i = k

(* The promise the documentation makes of every action: once its call is   *)
(* over, a receipt exists.                                                 *)
EveryDeedReceipted == \A d \in DOMAIN deeds : deeds[d].refused = Open
=============================================================================
