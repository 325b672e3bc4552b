------------------------------- MODULE GateService -------------------------------
(***************************************************************************)
(* The HTTP service (server.py, GateService), each request in a thread of  *)
(* its own: POST /authorize issues a capability, /verify runs it through   *)
(* the gate, /receipt appends its receipt, /run does all three, and        *)
(* GET /receipts reads the log without a lock.                             *)
(*                                                                         *)
(* The gate is ActionGate; its steps are conjuncts of the steps here.  The *)
(* policy decision before an issue is a free choice (PolicyReload has the  *)
(* engine).  The receipt log is in memory; _receipt_lock covers its append *)
(* and the write of the whole log to a temporary file that replaces the    *)
(* last one.  The write may fail, and the process may die at any step.     *)
(***************************************************************************)
EXTENDS ActionGate

VARIABLES
    issued,     \* capabilities the issuer has signed
    known,      \* capabilities that were in an answer, which clients may send
    serving,    \* each thread's request and its position in it
    log,        \* ReceiptLog: capability and number of the receipt before
    file,       \* receipt-log.json
    lock,       \* holder of _receipt_lock, or Free
    acked,      \* history: capabilities whose receipt was answered with 200
    duplicate,  \* history: capabilities refused since they had a receipt
    unsaved,    \* history: some write of the file has failed
    unread      \* history: some start of the process could not read the file

serviceVars == <<now, boot, store, revoked, caller, uses,
                 issued, known, serving, log, file, lock, acked, duplicate,
                 unsaved, unread>>

gateUnchanged == UNCHANGED vars
historyUnchanged == UNCHANGED <<acked, duplicate, unsaved, unread>>

CONSTANT Free

Presented(e) == [env |-> e, req |-> Payload[e].request, parent |-> NoParent]

(* The service takes every capability to the gate with the request that it *)
(* was made for, and without a parent.                                     *)
ASSUME ServiceAssumption ==
    /\ Free \notin Callers
    /\ \A e \in Envelopes : Presented(e) \in Presentations

None == [op |-> "none"]

Receipt == [cap : Ids, prev : Nat]

NoDraft == [cap |-> "none"]

Serving == [op : {"verify", "run", "receipt"},
            stage : {"issued", "gate", "lock", "append", "persist"},
            env : Envelopes, draft : Receipt \cup {NoDraft}]

ServiceInit ==
    /\ Init
    /\ issued = {} /\ known = {}
    /\ serving = [t \in Callers |-> None]
    /\ log = <<>> /\ file = <<>>
    /\ lock = Free
    /\ acked = {} /\ duplicate = {} /\ unsaved = FALSE /\ unread = FALSE

-----------------------------------------------------------------------------
At(t, stage) == serving[t] # None /\ serving[t].stage = stage

GoTo(t, stage) == serving' = [serving EXCEPT ![t].stage = stage]

Answer(t) == serving' = [serving EXCEPT ![t] = None]

(* An allowed request: CapabilityIssuer signs a capability dated now. *)
Issue(e) ==
    /\ e \notin issued
    /\ Payload[e].signed /\ Payload[e].issuedAt = now
    /\ issued' = issued \cup {e}

(* POST /authorize *)
AuthorizeRequest(e) ==
    /\ Issue(e)
    /\ known' = known \cup {e}
    /\ gateUnchanged /\ historyUnchanged
    /\ UNCHANGED <<serving, log, file, lock>>

Request(op, stage, e) == [op |-> op, stage |-> stage, env |-> e, draft |-> NoDraft]

(* POST /verify: anyone may also send a capability that nobody signed. *)
VerifyRequest(t) ==
    /\ serving[t] = None
    /\ \E e \in known \cup {f \in Envelopes : ~Payload[f].signed} :
          /\ Begin(t, Presented(e))
          /\ serving' = [serving EXCEPT ![t] = Request("verify", "gate", e)]
    /\ historyUnchanged
    /\ UNCHANGED <<issued, known, log, file, lock>>

(* POST /run signs a capability of its own, in no answer so far, ... *)
RunRequest(t) ==
    /\ serving[t] = None
    /\ \E e \in Envelopes :
          /\ Issue(e)
          /\ serving' = [serving EXCEPT ![t] = Request("run", "issued", e)]
    /\ gateUnchanged /\ historyUnchanged
    /\ UNCHANGED <<known, log, file, lock>>

(* ... and takes it to the gate. *)
RunGate(t) ==
    /\ At(t, "issued")
    /\ Begin(t, Presented(serving[t].env))
    /\ GoTo(t, "gate")
    /\ historyUnchanged
    /\ UNCHANGED <<issued, known, log, file, lock>>

GateStep(t) ==
    /\ At(t, "gate")
    /\ Validate(t)
    /\ IF caller'[t] = Idle THEN Answer(t) ELSE UNCHANGED serving
    /\ historyUnchanged
    /\ UNCHANGED <<issued, known, log, file, lock>>

(* A consumed capability is the answer of /verify; /run goes on. *)
GateConsumes(t) ==
    /\ At(t, "gate")
    /\ ConsumeOnce(t)
    /\ IF uses' # uses /\ serving[t].op = "run" THEN GoTo(t, "lock") ELSE Answer(t)
    /\ historyUnchanged
    /\ UNCHANGED <<issued, known, log, file, lock>>

GateStoreFails(t) ==
    /\ At(t, "gate")
    /\ StoreFails(t)
    /\ Answer(t)
    /\ historyUnchanged
    /\ UNCHANGED <<issued, known, log, file, lock>>

(* POST /receipt: a gate made for this request, with an empty store of its *)
(* own, runs all the checks on the capability and consumes nothing else.   *)
ReceiptRequest(t) ==
    /\ serving[t] = None
    /\ \E e \in known :
          /\ Passes([pres |-> Presented(e), current |-> now])
          /\ serving' = [serving EXCEPT ![t] = [op |-> "receipt", stage |-> "lock",
                                                env |-> e, draft |-> NoDraft]]
    /\ gateUnchanged /\ historyUnchanged
    /\ UNCHANGED <<issued, known, log, file, lock>>

-----------------------------------------------------------------------------
(* The receipt log. *)

HasReceipt(receipts, id) == \E k \in DOMAIN receipts : receipts[k].cap = id

StillActive(e) == Payload[e].notBefore <= now /\ now < Payload[e].expires

PrepareUnlocked(t) ==
    /\ At(t, "lock")
    /\ StillActive(serving[t].env)
    /\ ~HasReceipt(log, Payload[serving[t].env].id)
    /\ lock' = t
    /\ serving' = [serving EXCEPT ![t].stage = "append",
                                  ![t].draft = [cap |-> Payload[serving[t].env].id,
                                                prev |-> Len(log)]]
    /\ gateUnchanged /\ historyUnchanged
    /\ UNCHANGED <<issued, known, log, file>>

(* Under _receipt_lock: ReceiptLog.append, up to the signature. *)
Prepare(t) ==
    /\ At(t, "lock")
    /\ lock = Free
    /\ StillActive(serving[t].env)
    /\ ~HasReceipt(log, Payload[serving[t].env].id)
    /\ lock' = t
    /\ serving' = [serving EXCEPT ![t].stage = "append",
                                  ![t].draft = [cap |-> Payload[serving[t].env].id,
                                                prev |-> Len(log)]]
    /\ gateUnchanged /\ historyUnchanged
    /\ UNCHANGED <<issued, known, log, file>>

(* append raises: the capability has a receipt, or has expired, or the     *)
(* caller's result or evidence hash is malformed; the lock is released.    *)
Refuse(t) ==
    /\ At(t, "lock")
    /\ lock = Free
    /\ Answer(t)
    /\ LET id == Payload[serving[t].env].id IN
       duplicate' = IF HasReceipt(log, id) THEN duplicate \cup {id} ELSE duplicate
    /\ gateUnchanged
    /\ UNCHANGED <<issued, known, log, file, lock, acked, unsaved, unread>>

AppendReleasing(t) ==
    /\ At(t, "append")
    /\ log' = Append(log, serving[t].draft)
    /\ GoTo(t, "persist")
    /\ lock' = Free
    /\ gateUnchanged /\ historyUnchanged
    /\ UNCHANGED <<issued, known, file>>

AppendReceipt(t) ==
    /\ At(t, "append")
    /\ log' = Append(log, serving[t].draft)
    /\ GoTo(t, "persist")
    /\ gateUnchanged /\ historyUnchanged
    /\ UNCHANGED <<issued, known, file, lock>>

PersistAnyway(t) ==
    /\ At(t, "persist")
    /\ lock' = Free
    /\ Answer(t)
    /\ \/ file' = log /\ UNCHANGED unsaved
       \/ unsaved' = TRUE /\ UNCHANGED file
    /\ acked' = acked \cup {Payload[serving[t].env].id}
    /\ known' = known \cup {serving[t].env}
    /\ gateUnchanged
    /\ UNCHANGED <<issued, log, duplicate, unread>>

(* _persist_receipts: the new file replaces the old one and the request is *)
(* answered; or the write raises OSError and the request ends with 500.    *)
Persist(t) ==
    /\ At(t, "persist")
    /\ lock' = Free
    /\ Answer(t)
    /\ \/ /\ file' = log
          /\ acked' = acked \cup {Payload[serving[t].env].id}
          /\ known' = known \cup {serving[t].env}
          /\ UNCHANGED unsaved
       \/ /\ unsaved' = TRUE
          /\ UNCHANGED <<file, acked, known>>
    /\ gateUnchanged
    /\ UNCHANGED <<issued, log, duplicate, unread>>

(* A new GateService restores the log from the file; a file that cannot be *)
(* read or parsed is passed over in silence and the log starts empty.      *)
ServiceRestart ==
    /\ Restart
    /\ serving' = [t \in Callers |-> None]
    /\ lock' = Free
    /\ \/ log' = file /\ UNCHANGED unread
       \/ log' = <<>> /\ unread' = TRUE
    /\ UNCHANGED <<issued, known, file, acked, duplicate, unsaved>>

ServiceTick ==
    /\ Tick
    /\ UNCHANGED <<issued, known, serving, log, file, lock>>
    /\ historyUnchanged

Serve(t) ==
    \/ VerifyRequest(t) \/ ReceiptRequest(t)
    \/ RunRequest(t) \/ RunGate(t)
    \/ GateStep(t) \/ GateConsumes(t) \/ GateStoreFails(t)
    \/ Prepare(t) \/ Refuse(t) \/ AppendReceipt(t) \/ Persist(t)

ServiceNext ==
    \/ \E e \in Envelopes : AuthorizeRequest(e)
    \/ \E t \in Callers : Serve(t)
    \/ ServiceRestart
    \/ ServiceTick

ServiceSpec == ServiceInit /\ [][ServiceNext]_serviceVars

-----------------------------------------------------------------------------
(* Properties *)

(* verify_receipt_chain: each receipt names the one before it, no          *)
(* capability twice.                                                       *)
ValidChain(receipts) ==
    \A k \in DOMAIN receipts :
        /\ receipts[k].prev = k - 1
        /\ \A i \in 1 .. (k - 1) : receipts[i].cap # receipts[k].cap

(* GET /receipts, which takes no lock, always finds a valid chain, and so  *)
(* does whoever reads the file, before and after any crash.                *)
ChainAlwaysValid == ValidChain(log) /\ ValidChain(file)

(* A receipt the service has answered for is in the file for good, through *)
(* failed writes, crashes and restarts, and the file never holds what the  *)
(* log of the running process has not, so that no write loses receipts, as *)
(* long as every restart could read the file.                              *)
AcknowledgedSurvives ==
    unread \/ (/\ \A id \in acked : HasReceipt(file, id)
               /\ Len(file) <= Len(log)
               /\ \A k \in DOMAIN file : file[k] = log[k])

(* While writes succeed, a receipt refused as a duplicate is one that is   *)
(* on disk: the refusal never rests on an append that a crash can undo.    *)
DuplicateMeansDurable ==
    unsaved \/ unread \/ \A id \in duplicate : HasReceipt(file, id)

(* "receipt input must be a capability consumed by ActionGate": a receipt  *)
(* in the log is of a capability that went through the service's gate.     *)
ReceiptMeansConsumed ==
    \A k \in DOMAIN log : \E i \in DOMAIN uses : uses[i].grant.id = log[k].cap
=============================================================================
