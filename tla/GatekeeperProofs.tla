---------------------------- MODULE GatekeeperProofs ----------------------------
(***************************************************************************)
(* What the whole action boundary guarantees, on top of its gate, for      *)
(* every number of threads and forbidden combinations, whatever the order  *)
(* in which the threads of one gatekeeper come to its gate, its actuator,  *)
(* its unlocked receipt log and its unlocked journal.                      *)
(***************************************************************************)
EXTENDS Gatekeeper, ActionGateProofs

-----------------------------------------------------------------------------
(* The gatekeeper: the inductive invariant. *)

EnvOf(t) == job[t].pres.env

ExpiryOf(t) == Payload[EnvOf(t)].expires

(* Past the gate, and its receipt not in the log yet. *)
InFlight(t) == job[t].stage \in {"actuate", "receipt", "append"}

(* Past the actuator: it has a deed. *)
HasActed(t) == job[t].stage \in {"receipt", "append", "comply", "record"}

Receipted(id) == \E k \in DOMAIN receipts : receipts[k].cap = id

(* The store has the grant, or need not have it any more. *)
Taken(e) == Grant(e) \in store \/ now > Payload[e].expires

(* The gate works for execute: on its presentation, at its time. *)
CallerServesJob(t) ==
    caller[t] # Idle =>
        /\ caller[t].pres = job[t].pres
        /\ caller[t].current <= now
        /\ caller[t].pc = "consume" => Payload[EnvOf(t)].notBefore <= now

(* A call that was barred when it began is at its sequence check, which    *)
(* still denies it: the journal only grows, and the call keeps its time.   *)
BarredIsDenied(t) ==
    job[t] # NoJob /\ job[t].barred =>
        /\ job[t].stage = "sequence"
        /\ SequenceDenies(job[t].pres.req, job[t].current)

(* A call past the gate has a genuine capability that has begun and that   *)
(* the store remembers.                                                    *)
FlightIsTaken(t) ==
    InFlight(t) =>
        /\ Payload[EnvOf(t)].consistent
        /\ Payload[EnvOf(t)].notBefore <= now
        /\ Taken(EnvOf(t))

(* A draft is for its own call's capability, which has no receipt yet.     *)
DraftIsFirst(t) ==
    job[t].stage = "append" =>
        /\ job[t].draft \in Receipt
        /\ job[t].draft.cap = IdOf(t)
        /\ ~Receipted(IdOf(t))

(* If somebody else's receipt is in the log already, the capability was    *)
(* over before this call took it.                                          *)
ReceiptedIsOver(t) ==
    Persistent /\ job[t].stage \in {"actuate", "receipt"} /\ Receipted(IdOf(t)) =>
        now > ExpiryOf(t)

(* A deed belongs to its call until the journal has it. *)
DeedIsOwn(t) ==
    HasActed(t) =>
        /\ job[t].deed \in DOMAIN deeds
        /\ deeds[job[t].deed].pres = job[t].pres
        /\ job[t].stage \in {"comply", "record"} => Receipted(IdOf(t))
        /\ job[t].stage = "record" => deeds[job[t].deed].ok
        /\ \A i \in DOMAIN journal : journal[i].deed # job[t].deed

ThreadFine(t) ==
    /\ CallerServesJob(t) /\ BarredIsDenied(t) /\ FlightIsTaken(t)
    /\ DraftIsFirst(t) /\ ReceiptedIsOver(t) /\ DeedIsOwn(t)

(* Two calls past the gate with one capability: the second passed only     *)
(* because the store had forgotten the first, after the expiry; so the two *)
(* never both have a draft.  No two calls have one deed.                   *)
PairFine(s, t) ==
    /\ InFlight(s) /\ InFlight(t) /\ IdOf(s) = IdOf(t) =>
          /\ now > ExpiryOf(t)
          /\ ~(job[s].stage = "append" /\ job[t].stage = "append")
    /\ HasActed(s) /\ HasActed(t) => job[s].deed # job[t].deed

(* With a durable store, what has a receipt was taken. *)
ReceiptsTaken ==
    Persistent =>
        \A k \in DOMAIN receipts : \E e \in Envelopes :
            Payload[e].consistent /\ Payload[e].id = receipts[k].cap /\ Taken(e)

JournalDeeds == \A i \in DOMAIN journal : journal[i].deed \in DOMAIN deeds

(* What is said of all threads and of all pairs. *)
AllFine ==
    /\ \A s \in Callers : ThreadFine(s)
    /\ \A s, u \in Callers : s # u => PairFine(s, u)

(* What is said of the logs, the four properties included. *)
LogsFine ==
    /\ ReceiptsTaken /\ JournalDeeds
    /\ BarredNeverActuates /\ ReceiptGapExplained
    /\ OneReceiptPerCapability /\ JournalHasReceipts

GKInv == GKTypeOK /\ Inv /\ AllFine /\ LogsFine

-----------------------------------------------------------------------------
(* Facts about jobs and their presentations. *)

Stages == {"sequence", "revocation", "gate", "actuate", "receipt", "append",
           "comply", "record"}

(* A thread without a job is at none of the stages. *)
LEMMA NoJobIsNoStage == NoJob \notin Job /\ \A s \in Stages : NoJob.stage # s
  BY DEF NoJob, Job, Stages

(* A thread at a stage has a job with all its fields. *)
LEMMA JobAtStage ==
    ASSUME GKTypeOK, NEW t \in Callers, job[t].stage \in Stages
    PROVE  /\ job[t] \in Job /\ job[t] # NoJob
           /\ job[t].pres \in Presentations /\ job[t].current \in Nat
           /\ job[t].deed \in Nat /\ job[t].barred \in BOOLEAN
           /\ job[t].draft \in Receipt \cup {NoDraft}
<1>1. job[t] \in Job \cup {NoJob}
  BY DEF GKTypeOK
<1>2. job[t] # NoJob
  BY NoJobIsNoStage
<1> QED
  BY <1>1, <1>2 DEF Job

(* What is presented has an envelope, an id, and a request. *)
LEMMA Presented ==
    ASSUME NEW p \in Presentations
    PROVE  /\ p.env \in Envelopes /\ p.req \in Requests
           /\ Payload[p.env].id \in Ids /\ Payload[p.env].notBefore \in Nat
           /\ Payload[p.env].expires \in Nat
<1>1. p.env \in Envelopes /\ p.req \in Requests
  BY GateAssumption
<1>2. Payload[p.env] \in PayloadType
  BY <1>1, GateAssumption
<1> QED
  BY <1>1, <1>2 DEF PayloadType, Ids

(* A step to another stage changes nothing else of the job. *)
LEMMA GoesTo ==
    ASSUME GKTypeOK, NEW t \in Callers, job[t].stage \in Stages,
           NEW st \in Stages, job' = [job EXCEPT ![t].stage = st]
    PROVE  /\ job' \in [Callers -> Job \cup {NoJob}] /\ job'[t] \in Job
           /\ job'[t].stage = st /\ job'[t].pres = job[t].pres
           /\ job'[t].current = job[t].current /\ job'[t].barred = job[t].barred
           /\ job'[t].deed = job[t].deed /\ job'[t].draft = job[t].draft
           /\ \A s \in Callers : s # t => job'[s] = job[s]
<1>1. job[t] \in Job /\ job \in [Callers -> Job \cup {NoJob}]
  BY JobAtStage DEF GKTypeOK
<1>2. job'[t] = [job[t] EXCEPT !.stage = st]
  BY <1>1
<1>3. [job[t] EXCEPT !.stage = st] \in Job
  BY <1>1 DEF Job, Stages
<1> QED
  BY <1>1, <1>2, <1>3 DEF Job

(* A thread that returns has no job; the others keep theirs. *)
LEMMA Returns ==
    ASSUME GKTypeOK, NEW t \in Callers, Return(t)
    PROVE  /\ job' \in [Callers -> Job \cup {NoJob}]
           /\ job'[t] = NoJob /\ job'[t].stage = "none"
           /\ \A s \in Callers : s # t => job'[s] = job[s]
<1>1. job' \in [Callers -> Job \cup {NoJob}] /\ job'[t] = NoJob
  BY DEF Return, GKTypeOK
<1> QED
  BY <1>1 DEF Return, GKTypeOK, NoJob

(* The gate's variables keep their shape when the gate does not move. *)
LEMMA GateStill == TypeOK /\ gateUnchanged => TypeOK'
  BY DEF gateUnchanged, vars, TypeOK

(* The type invariant, one lemma per kind of step. *)
LEMMA StartTypes ==
    ASSUME GKTypeOK, NEW t \in Callers, NEW p \in Presentations, Start(t, p)
    PROVE  GKTypeOK'
<1> DEFINE j == [stage |-> "sequence", pres |-> p, current |-> now,
                 barred |-> Barred(p.req), deed |-> 0, draft |-> NoDraft]
<1>1. Begin(t, p) /\ job' = [job EXCEPT ![t] = j] /\ UNCHANGED <<journal, receipts, deeds>>
  BY DEF Start
<1>2. TypeOK'
  BY <1>1, TypeStep DEF Next, Authorize, GKTypeOK
<1>3. j \in Job
  BY DEF Job, Barred, GKTypeOK, TypeOK
<1>4. /\ job' \in [Callers -> Job \cup {NoJob}] /\ job'[t].stage = "sequence"
      /\ \A s \in Callers : s # t => job'[s] = job[s]
  BY <1>1, <1>3 DEF GKTypeOK
<1>5. caller'[t] # Idle /\ \A s \in Callers : s # t => caller'[s] = caller[s]
  BY <1>1 DEF Begin, Idle, GKTypeOK, TypeOK
<1> QED
  BY <1>1, <1>2, <1>4, <1>5 DEF GKTypeOK

(* A thread that leaves or passes a check of execute's own. *)
LEMMA CheckTypes ==
    ASSUME GKTypeOK, NEW t \in Callers, CheckSequence(t) \/ CheckRevocation(t)
    PROVE  GKTypeOK'
<1>1. /\ UNCHANGED <<now, boot, store, revoked, uses, journal, receipts, deeds>>
      /\ job[t].stage \in {"sequence", "revocation"}
      /\ \/ Abandon(t)
         \/ GoTo(t, "revocation") /\ UNCHANGED caller
         \/ GoTo(t, "gate") /\ UNCHANGED caller
  BY DEF CheckSequence, CheckRevocation, At
<1>2. CASE Abandon(t)
  <2>1. Return(t) /\ caller' = [caller EXCEPT ![t] = Idle]
    BY <1>2 DEF Abandon
  <2>2. /\ job' \in [Callers -> Job \cup {NoJob}] /\ job'[t].stage = "none"
        /\ \A s \in Callers : s # t => job'[s] = job[s]
    BY <2>1, Returns
  <2>3. caller'[t] = Idle /\ \A s \in Callers : s # t => caller'[s] = caller[s]
    BY <2>1 DEF GKTypeOK, TypeOK
  <2>4. TypeOK'
    BY <1>1, <2>1 DEF GKTypeOK, TypeOK
  <2> QED
    BY <1>1, <2>2, <2>3, <2>4 DEF GKTypeOK
<1>3. ASSUME NEW st \in {"revocation", "gate"}, GoTo(t, st), UNCHANGED caller
      PROVE  GKTypeOK'
  <2>1. /\ job' \in [Callers -> Job \cup {NoJob}] /\ job'[t].stage = st
        /\ \A s \in Callers : s # t => job'[s] = job[s]
    BY <1>1, <1>3, GoesTo DEF GoTo, Stages
  <2>2. TypeOK'
    BY <1>1, <1>3 DEF GKTypeOK, TypeOK
  <2> QED
    BY <1>1, <1>3, <2>1, <2>2 DEF GKTypeOK
<1> QED
  BY <1>1, <1>2, <1>3

(* What the gate's own steps do to the thread they are for. *)
LEMMA GateSteps ==
    ASSUME GKTypeOK, NEW t \in Callers,
           GateValidate(t) \/ GateConsume(t) \/ GateStoreFails(t)
    PROVE  /\ job[t].stage = "gate" /\ caller[t] # Idle
           /\ UNCHANGED <<now, boot, revoked, journal, receipts, deeds>>
           /\ \A s \in Callers : s # t => caller'[s] = caller[s]
           /\ \/ Return(t) /\ caller'[t] = Idle
              \/ /\ Validate(t) /\ Passes(caller[t]) /\ UNCHANGED job
                 /\ caller'[t] # Idle /\ caller' = [caller EXCEPT ![t].pc = "consume"]
              \/ /\ ConsumeOnce(t) /\ uses' # uses /\ caller'[t] = Idle
                 /\ job' = [job EXCEPT ![t].stage = "actuate"]
           /\ TypeOK'
<1>1. caller \in [Callers -> Call \cup {Idle}]
  BY DEF GKTypeOK, TypeOK
<1>2. TypeOK'
  BY TypeStep DEF GateValidate, GateConsume, GateStoreFails, Next, Authorize, GKTypeOK
<1>3. CASE GateValidate(t)
  <2>1. CASE caller' = [caller EXCEPT ![t].pc = "consume"] /\ Passes(caller[t])
    <3>1. caller'[t] = [caller[t] EXCEPT !.pc = "consume"] /\ caller[t] \in Call
      BY <1>1, <1>3, <2>1 DEF GateValidate, Validate
    <3>2. caller'[t] # Idle
      BY <3>1 DEF Call, Idle
    <3>3. UNCHANGED job
      BY <1>3, <3>2 DEF GateValidate
    <3> QED
      BY <1>1, <1>2, <1>3, <2>1, <3>2, <3>3 DEF GateValidate, Validate, At
  <2>2. CASE caller' = [caller EXCEPT ![t] = Idle]
    BY <1>1, <1>2, <1>3, <2>2 DEF GateValidate, Validate, At
  <2> QED
    BY <1>3, <2>1, <2>2 DEF GateValidate, Validate
<1>4. CASE GateConsume(t)
  BY <1>1, <1>2, <1>4 DEF GateConsume, ConsumeOnce, At, GoTo
<1>5. CASE GateStoreFails(t)
  BY <1>1, <1>2, <1>5 DEF GateStoreFails, StoreFails, At
<1> QED
  BY <1>3, <1>4, <1>5

(* The gate's own steps. *)
LEMMA GateTypes ==
    ASSUME GKTypeOK, NEW t \in Callers,
           GateValidate(t) \/ GateConsume(t) \/ GateStoreFails(t)
    PROVE  GKTypeOK'
<1>1. /\ job[t].stage = "gate" /\ TypeOK'
      /\ UNCHANGED <<journal, receipts, deeds>>
      /\ \A s \in Callers : s # t => caller'[s] = caller[s]
  BY GateSteps
<1>2. CASE Return(t) /\ caller'[t] = Idle
  <2>1. /\ job' \in [Callers -> Job \cup {NoJob}] /\ job'[t].stage = "none"
        /\ \A s \in Callers : s # t => job'[s] = job[s]
    BY <1>2, Returns
  <2> QED
    BY <1>1, <1>2, <2>1 DEF GKTypeOK
<1>3. CASE UNCHANGED job /\ caller'[t] # Idle
  BY <1>1, <1>3 DEF GKTypeOK
<1>4. CASE job' = [job EXCEPT ![t].stage = "actuate"] /\ caller'[t] = Idle
  <2>1. /\ job' \in [Callers -> Job \cup {NoJob}] /\ job'[t].stage = "actuate"
        /\ \A s \in Callers : s # t => job'[s] = job[s]
    BY <1>1, <1>4, GoesTo DEF Stages
  <2> QED
    BY <1>1, <1>4, <2>1 DEF GKTypeOK
<1> QED
  BY <1>2, <1>3, <1>4, GateSteps

(* The actuator has run: the thread has a deed. *)
LEMMA ActuateTypes ==
    ASSUME GKTypeOK, NEW t \in Callers, Actuate(t)
    PROVE  /\ GKTypeOK'
           /\ job'[t].stage = "receipt" /\ job'[t].deed = Len(deeds) + 1
           /\ job'[t].pres = job[t].pres /\ job'[t].barred = job[t].barred
           /\ job'[t].current = job[t].current /\ job'[t] # NoJob
           /\ \A s \in Callers : s # t => job'[s] = job[s]
<1>1. job[t] \in Job /\ job[t].stage = "actuate"
  BY JobAtStage DEF Actuate, At, Stages
<1>2. PICK ok \in BOOLEAN :
          deeds' = Append(deeds, [pres |-> job[t].pres, ok |-> ok,
                                  barred |-> job[t].barred, refused |-> Open])
  BY DEF Actuate
<1>3. [pres |-> job[t].pres, ok |-> ok, barred |-> job[t].barred, refused |-> Open] \in Deed
  BY <1>1 DEF Deed, Job
<1>4. deeds' \in Seq(Deed) /\ Len(deeds) \in Nat
  BY <1>2, <1>3 DEF GKTypeOK
<1>5. job' = [job EXCEPT ![t].stage = "receipt", ![t].deed = Len(deeds) + 1]
  BY DEF Actuate
<1>6. job'[t] = [job[t] EXCEPT !.stage = "receipt", !.deed = Len(deeds) + 1]
  BY <1>5 DEF GKTypeOK
<1>7. [job[t] EXCEPT !.stage = "receipt", !.deed = Len(deeds) + 1] \in Job
  <2> DEFINE n == Len(deeds) + 1
  <2>1. n \in Nat
    BY <1>4
  <2> HIDE DEF n
  <2>2. [job[t] EXCEPT !.stage = "receipt", !.deed = n] \in Job
    BY <1>1, <2>1 DEF Job
  <2> QED
    BY <2>2 DEF n
<1>8. /\ job' \in [Callers -> Job \cup {NoJob}]
      /\ \A s \in Callers : s # t => job'[s] = job[s]
  BY <1>5, <1>6, <1>7 DEF GKTypeOK
<1>9. job'[t].stage = "receipt"
  BY <1>1, <1>6 DEF Job
<1>10. TypeOK' /\ UNCHANGED <<caller, journal, receipts>>
  BY GateStill DEF Actuate, GKTypeOK, gateUnchanged, vars
<1>11. GKTypeOK'
  BY <1>1, <1>4, <1>8, <1>9, <1>10 DEF GKTypeOK
<1> QED
  BY <1>1, <1>6, <1>7, <1>8, <1>9, <1>11, NoJobIsNoStage DEF Job

(* The receipt is refused, or drafted. *)
LEMMA RefusalTypes ==
    ASSUME GKTypeOK, NEW t \in Callers, job[t].stage = "receipt",
           NEW why \in Nat \cup {Misreported}, RefuseReceipt(t, why),
           gateUnchanged, UNCHANGED <<journal, receipts>>
    PROVE  /\ GKTypeOK' /\ DOMAIN deeds' = DOMAIN deeds
           /\ \A d \in DOMAIN deeds : /\ deeds'[d].pres = deeds[d].pres
                                      /\ deeds'[d].ok = deeds[d].ok
                                      /\ deeds'[d].barred = deeds[d].barred
                                      /\ deeds'[d].refused =
                                            IF d = job[t].deed THEN why ELSE deeds[d].refused
<1>1. /\ job' \in [Callers -> Job \cup {NoJob}] /\ job'[t].stage = "none"
      /\ \A s \in Callers : s # t => job'[s] = job[s]
  BY Returns DEF RefuseReceipt
<1>2. deeds' = [deeds EXCEPT ![job[t].deed].refused = why] /\ deeds \in Seq(Deed)
  BY DEF RefuseReceipt, GKTypeOK
<1>3. ASSUME NEW d \in DOMAIN deeds
      PROVE  [deeds[d] EXCEPT !.refused = why] \in Deed /\ deeds[d] \in Deed
  <2>1. deeds[d] \in Deed
    BY <1>2
  <2> QED
    BY <2>1 DEF Deed
<1>4. deeds' \in Seq(Deed) /\ DOMAIN deeds' = DOMAIN deeds
  <2>1. /\ DOMAIN deeds = 1 .. Len(deeds) /\ Len(deeds) \in Nat
        /\ DOMAIN deeds' = DOMAIN deeds
    BY <1>2
  <2>2. deeds' = [d \in DOMAIN deeds |-> IF d = job[t].deed
                                         THEN [deeds[d] EXCEPT !.refused = why] ELSE deeds[d]]
    BY <1>2
  <2>3. deeds' \in [1 .. Len(deeds) -> Deed]
    BY <1>3, <2>1, <2>2
  <2> QED
    BY <2>1, <2>3
<1>5. GKTypeOK'
  BY <1>1, <1>4, GateStill DEF GKTypeOK, gateUnchanged, vars
<1>6. ASSUME NEW d \in DOMAIN deeds
      PROVE  /\ deeds'[d].pres = deeds[d].pres /\ deeds'[d].ok = deeds[d].ok
             /\ deeds'[d].barred = deeds[d].barred
             /\ deeds'[d].refused = IF d = job[t].deed THEN why ELSE deeds[d].refused
  BY <1>2, <1>3 DEF Deed
<1> QED
  BY <1>4, <1>5, <1>6

(* What PrepareReceipt does: it refuses, or it makes a draft. *)
Drafts(t) ==
    /\ ~AlreadyReceipted(t) /\ StillActive(EnvOf(t))
    /\ \E result \in Declared \ {Malformed} :
          job' = [job EXCEPT ![t].stage = "append",
                             ![t].draft = [cap |-> IdOf(t), prev |-> Len(receipts),
                                           result |-> IF deeds[job[t].deed].ok THEN result
                                                      ELSE "failed"]]
    /\ UNCHANGED deeds

Refuses(t) ==
    \/ (AlreadyReceipted(t) \/ ~StillActive(EnvOf(t))) /\ RefuseReceipt(t, now)
    \/ RefuseReceipt(t, Misreported)

(* One or the other. *)
LEMMA PrepareSplits ==
    ASSUME NEW t \in Callers, PrepareReceipt(t)
    PROVE  /\ job[t].stage = "receipt" /\ gateUnchanged /\ UNCHANGED <<journal, receipts>>
           /\ Drafts(t) \/ Refuses(t)
  BY DEF PrepareReceipt, Drafts, Refuses, At, EnvOf

(* A draft is a receipt for the call's own capability. *)
LEMMA DraftTypes ==
    ASSUME GKTypeOK, NEW t \in Callers, job[t].stage = "receipt", Drafts(t),
           gateUnchanged, UNCHANGED <<journal, receipts>>
    PROVE  /\ GKTypeOK'
           /\ job'[t].stage = "append" /\ job'[t].deed = job[t].deed
           /\ job'[t].pres = job[t].pres /\ job'[t].barred = job[t].barred
           /\ job'[t].draft \in Receipt /\ job'[t].draft.cap = IdOf(t)
           /\ \A s \in Callers : s # t => job'[s] = job[s]
<1>1. job[t] \in Job /\ job[t].pres \in Presentations
  BY JobAtStage DEF Stages
<1>2. PICK result \in Declared \ {Malformed} :
          job' = [job EXCEPT ![t].stage = "append",
                             ![t].draft = [cap |-> IdOf(t), prev |-> Len(receipts),
                                           result |-> IF deeds[job[t].deed].ok THEN result
                                                      ELSE "failed"]]
  BY DEF Drafts
<1> DEFINE d == [cap |-> IdOf(t), prev |-> Len(receipts),
                 result |-> IF deeds[job[t].deed].ok THEN result ELSE "failed"]
<1>3. d \in Receipt /\ d.cap = IdOf(t)
  <2>1. IdOf(t) \in Ids /\ Len(receipts) \in Nat
    BY <1>1, Presented DEF IdOf, GKTypeOK
  <2>2. result \in {"succeeded", "failed", "aborted"}
    BY GatekeeperAssumption
  <2> QED
    BY <2>1, <2>2 DEF Receipt
<1> HIDE DEF d
<1>4. job' = [job EXCEPT ![t].stage = "append", ![t].draft = d]
  BY <1>2 DEF d
<1>5. job'[t] = [job[t] EXCEPT !.stage = "append", !.draft = d]
  BY <1>4 DEF GKTypeOK
<1>6. [job[t] EXCEPT !.stage = "append", !.draft = d] \in Job
  BY <1>1, <1>3 DEF Job
<1>7. /\ job'[t].stage = "append" /\ job'[t].draft = d
      /\ job'[t].deed = job[t].deed /\ job'[t].pres = job[t].pres
      /\ job'[t].barred = job[t].barred
  BY <1>1, <1>5 DEF Job
<1>8. /\ job' \in [Callers -> Job \cup {NoJob}]
      /\ \A s \in Callers : s # t => job'[s] = job[s]
  BY <1>4, <1>5, <1>6 DEF GKTypeOK
<1>9. TypeOK' /\ UNCHANGED <<caller, deeds>>
  BY GateStill DEF GKTypeOK, gateUnchanged, vars, Drafts
<1>10. GKTypeOK'
  BY <1>7, <1>8, <1>9 DEF GKTypeOK
<1> QED
  BY <1>3, <1>7, <1>8, <1>10

(* The draft, a receipt by then, is appended. *)
LEMMA AppendTypes ==
    ASSUME GKTypeOK, NEW t \in Callers, AppendReceipt(t), job[t].draft \in Receipt
    PROVE  /\ GKTypeOK'
           /\ job'[t].stage = "comply" /\ job'[t].deed = job[t].deed
           /\ job'[t].pres = job[t].pres /\ job'[t].barred = job[t].barred
           /\ \A s \in Callers : s # t => job'[s] = job[s]
<1>1. job[t] \in Job /\ job[t].stage = "append"
  BY JobAtStage DEF AppendReceipt, At, Stages
<1>2. job' = [job EXCEPT ![t].stage = "comply", ![t].draft = NoDraft]
  BY DEF AppendReceipt
<1>3. job'[t] = [job[t] EXCEPT !.stage = "comply", !.draft = NoDraft]
  BY <1>2 DEF GKTypeOK
<1>4. [job[t] EXCEPT !.stage = "comply", !.draft = NoDraft] \in Job
  BY <1>1 DEF Job
<1>5. /\ job'[t].stage = "comply" /\ job'[t].deed = job[t].deed
      /\ job'[t].pres = job[t].pres /\ job'[t].barred = job[t].barred
  BY <1>1, <1>3 DEF Job
<1>6. /\ job' \in [Callers -> Job \cup {NoJob}]
      /\ \A s \in Callers : s # t => job'[s] = job[s]
  BY <1>2, <1>3, <1>4 DEF GKTypeOK
<1>7. receipts' \in Seq(Receipt)
  BY DEF AppendReceipt, GKTypeOK
<1>8. TypeOK' /\ UNCHANGED <<caller, journal, deeds>>
  BY GateStill DEF GKTypeOK, gateUnchanged, vars, AppendReceipt
<1>9. GKTypeOK'
  BY <1>1, <1>5, <1>6, <1>7, <1>8 DEF GKTypeOK
<1> QED
  BY <1>5, <1>6, <1>9

(* The obligation check ends the call or lets it go on to the journal. *)
LEMMA ComplyTypes ==
    ASSUME GKTypeOK, NEW t \in Callers, Comply(t)
    PROVE  /\ GKTypeOK'
           /\ \A s \in Callers : s # t => job'[s] = job[s]
           /\ \/ job'[t].stage = "none"
              \/ /\ job'[t].stage = "record" /\ job'[t].deed = job[t].deed
                 /\ job'[t].pres = job[t].pres /\ job'[t].barred = job[t].barred
                 /\ deeds[job[t].deed].ok
<1>1. job[t].stage = "comply" /\ UNCHANGED <<journal, receipts, deeds>> /\ gateUnchanged
  BY DEF Comply, At
<1>2. TypeOK' /\ UNCHANGED caller
  BY <1>1, GateStill DEF GKTypeOK, gateUnchanged, vars
<1>3. CASE Return(t)
  <2>1. /\ job' \in [Callers -> Job \cup {NoJob}] /\ job'[t].stage = "none"
        /\ \A s \in Callers : s # t => job'[s] = job[s]
    BY <1>3, Returns
  <2> QED
    BY <1>1, <1>2, <2>1 DEF GKTypeOK
<1>4. CASE GoTo(t, "record") /\ deeds[job[t].deed].ok
  <2>1. /\ job' \in [Callers -> Job \cup {NoJob}] /\ job'[t].stage = "record"
        /\ job'[t].deed = job[t].deed /\ job'[t].pres = job[t].pres
        /\ job'[t].barred = job[t].barred
        /\ \A s \in Callers : s # t => job'[s] = job[s]
    BY <1>1, <1>4, GoesTo DEF GoTo, Stages
  <2> QED
    BY <1>1, <1>2, <1>4, <2>1 DEF GKTypeOK
<1> QED
  BY <1>3, <1>4 DEF Comply, Complies

(* The entry in the journal. *)
LEMMA RecordTypes ==
    ASSUME GKTypeOK, NEW t \in Callers, Record(t)
    PROVE  /\ GKTypeOK'
           /\ job'[t].stage = "none"
           /\ \A s \in Callers : s # t => job'[s] = job[s]
           /\ DOMAIN journal' = DOMAIN journal \cup {Len(journal) + 1}
           /\ Len(journal) + 1 \notin DOMAIN journal
           /\ \A i \in DOMAIN journal : journal'[i] = journal[i]
           /\ journal'[Len(journal) + 1].req = job[t].pres.req
           /\ journal'[Len(journal) + 1].deed = job[t].deed
<1>1. job[t] \in Job /\ job[t].stage = "record" /\ job[t].pres \in Presentations
  BY JobAtStage DEF Record, At, Stages
<1> DEFINE entry == [req |-> job[t].pres.req, at |-> job[t].current, deed |-> job[t].deed]
<1>2. entry \in [req : Requests, at : Nat, deed : Nat]
  BY <1>1, Presented DEF Job
<1>3. entry.req = job[t].pres.req /\ entry.deed = job[t].deed
  OBVIOUS
<1> HIDE DEF entry
<1>4. journal' = Append(journal, entry)
  BY DEF Record, entry
<1>5. journal' \in Seq([req : Requests, at : Nat, deed : Nat])
  BY <1>2, <1>4 DEF GKTypeOK
<1>6. /\ DOMAIN journal' = DOMAIN journal \cup {Len(journal) + 1}
      /\ Len(journal) + 1 \notin DOMAIN journal
      /\ \A i \in DOMAIN journal : journal'[i] = journal[i]
      /\ journal'[Len(journal) + 1] = entry
  BY <1>4 DEF GKTypeOK
<1>7. /\ job' \in [Callers -> Job \cup {NoJob}] /\ job'[t].stage = "none"
      /\ \A s \in Callers : s # t => job'[s] = job[s]
  BY Returns DEF Record
<1>8. TypeOK' /\ UNCHANGED <<caller, receipts, deeds>>
  BY GateStill DEF GKTypeOK, gateUnchanged, vars, Record
<1>9. GKTypeOK'
  BY <1>1, <1>5, <1>7, <1>8 DEF GKTypeOK
<1> QED
  BY <1>3, <1>6, <1>7, <1>9

(* A restart ends every call. *)
LEMMA GKRestartTypes ==
    ASSUME GKTypeOK, GKRestart
    PROVE  GKTypeOK' /\ \A t \in Callers : job'[t] = NoJob /\ job'[t].stage = "none"
<1>1. \A t \in Callers : job'[t] = NoJob /\ job'[t].stage = "none" /\ caller'[t] = Idle
  BY DEF GKRestart, Restart, NoJob
<1>2. TypeOK'
  BY TypeStep DEF GKRestart, Next, GKTypeOK
<1>3. job' \in [Callers -> Job \cup {NoJob}]
  BY DEF GKRestart
<1>4. /\ journal' \in Seq([req : Requests, at : Nat, deed : Nat])
      /\ receipts' \in Seq(Receipt) /\ deeds' \in Seq(Deed)
  <2>1. journal' = <<>> /\ deeds' = <<>> /\ (receipts' = receipts \/ receipts' = <<>>)
    BY DEF GKRestart
  <2>2. \A S : <<>> \in Seq(S)
    OBVIOUS
  <2> QED
    BY <2>1, <2>2 DEF GKTypeOK
<1> QED
  BY <1>1, <1>2, <1>3, <1>4 DEF GKTypeOK

(* Every step of the gatekeeper keeps the shapes of its variables, given   *)
(* that drafts are receipts.                                               *)
LEMMA GKTypeStep ==
    ASSUME GKTypeOK, [GKNext]_gkVars,
           \A t \in Callers : job[t].stage = "append" => job[t].draft \in Receipt
    PROVE  GKTypeOK'
<1>1. ASSUME NEW t \in Callers, Execute(t)
      PROVE  GKTypeOK'
  <2>1. CASE \E p \in Presentations : Start(t, p)
    BY <2>1, StartTypes
  <2>2. CASE CheckSequence(t) \/ CheckRevocation(t)
    BY <2>2, CheckTypes
  <2>3. CASE GateValidate(t) \/ GateConsume(t) \/ GateStoreFails(t)
    BY <2>3, GateTypes
  <2>4. CASE Actuate(t)
    BY <2>4, ActuateTypes
  <2>5. CASE PrepareReceipt(t)
    <3>1. now \in Nat
      BY DEF GKTypeOK, TypeOK
    <3> QED
      BY <2>5, <3>1, PrepareSplits, DraftTypes, RefusalTypes DEF Refuses
  <2>6. CASE AppendReceipt(t)
    BY <2>6, AppendTypes DEF AppendReceipt, At
  <2>7. CASE Comply(t)
    BY <2>7, ComplyTypes
  <2>8. CASE Record(t)
    BY <2>8, RecordTypes
  <2> QED
    BY <1>1, <2>1, <2>2, <2>3, <2>4, <2>5, <2>6, <2>7, <2>8 DEF Execute
<1>2. CASE GKTick \/ \E c \in Ids : GKRevoke(c)
  <2>1. TypeOK'
    BY <1>2, TypeStep DEF GKTick, GKRevoke, Next, GKTypeOK
  <2>2. UNCHANGED <<caller, job, journal, receipts, deeds>>
    BY <1>2 DEF GKTick, GKRevoke, Tick, Revoke
  <2> QED
    BY <2>1, <2>2 DEF GKTypeOK
<1>3. CASE GKRestart
  BY <1>3, GKRestartTypes
<1>4. CASE UNCHANGED gkVars
  BY <1>4 DEF gkVars, GKTypeOK, TypeOK
<1> QED
  BY <1>1, <1>2, <1>3, <1>4 DEF GKNext

-----------------------------------------------------------------------------
(* The gate's own invariant under the gatekeeper. *)

(* Every step is a step of the gate, leaves the gate alone, or takes a     *)
(* thread out of it before it has asked for anything.                      *)
LEMMA GateSeesSteps ==
    ASSUME GKTypeOK, [GKNext]_gkVars
    PROVE  \/ [Next]_vars
           \/ /\ UNCHANGED <<now, boot, store, revoked, uses>>
              /\ \A s \in Callers : caller'[s] = caller[s] \/ caller'[s] = Idle
<1>1. ASSUME NEW t \in Callers, CheckSequence(t) \/ CheckRevocation(t)
      PROVE  /\ UNCHANGED <<now, boot, store, revoked, uses>>
             /\ \A s \in Callers : caller'[s] = caller[s] \/ caller'[s] = Idle
  BY <1>1 DEF CheckSequence, CheckRevocation, Abandon, GKTypeOK, TypeOK
<1>2. ASSUME NEW t \in Callers,
             \/ \E p \in Presentations : Start(t, p)
             \/ GateValidate(t) \/ GateConsume(t) \/ GateStoreFails(t)
      PROVE  Next
  BY <1>2 DEF Start, GateValidate, GateConsume, GateStoreFails, Next, Authorize
<1>3. ASSUME NEW t \in Callers,
             Actuate(t) \/ PrepareReceipt(t) \/ AppendReceipt(t) \/ Comply(t) \/ Record(t)
      PROVE  UNCHANGED vars
  BY <1>3 DEF Actuate, PrepareReceipt, AppendReceipt, Comply, Record, gateUnchanged
<1>4. CASE GKTick \/ GKRestart \/ \E c \in Ids : GKRevoke(c)
  BY <1>4 DEF GKTick, GKRestart, GKRevoke, Next
<1>5. CASE UNCHANGED gkVars
  BY <1>5 DEF gkVars, vars
<1> QED
  BY <1>1, <1>2, <1>3, <1>4, <1>5 DEF GKNext, Execute

(* So what holds of every gate holds of the gatekeeper's. *)
LEMMA GateInvHolds ==
    ASSUME GKTypeOK, GKTypeOK', Inv, [GKNext]_gkVars
    PROVE  Inv'
<1>1. CASE [Next]_vars
  BY <1>1, InvStep
<1>2. CASE /\ UNCHANGED <<now, boot, store, revoked, uses>>
           /\ \A s \in Callers : caller'[s] = caller[s] \/ caller'[s] = Idle
  <2>1. TypeOK' /\ now' >= now /\ boot' >= boot
    BY <1>2 DEF GKTypeOK, TypeOK
  <2>2. UsesRemembered' /\ ReuseOnlyAfterExpiry' /\ RevocationHonoured'
    BY <1>2, <2>1, UsesKept
  <2>3. CallersHonest'
    BY <1>2, <2>1, LeavingKeepsHonest
  <2> QED
    BY <2>1, <2>2, <2>3 DEF Inv
<1> QED
  BY <1>1, <1>2, GateSeesSteps

-----------------------------------------------------------------------------
(* What a step leaves as it was. *)

(* Within one life of the process time runs on, what is taken stays taken, *)
(* and the journal, the receipts and the deeds only grow.                  *)
Forward ==
    /\ now' >= now
    /\ \A e \in Envelopes : Taken(e) => Taken(e)'
    /\ \A i \in DOMAIN journal : i \in DOMAIN journal' /\ journal'[i] = journal[i]
    /\ \A k \in DOMAIN receipts : k \in DOMAIN receipts' /\ receipts'[k] = receipts[k]
    /\ \A d \in DOMAIN deeds : /\ d \in DOMAIN deeds'
                               /\ deeds'[d].pres = deeds[d].pres
                               /\ deeds'[d].ok = deeds[d].ok

(* Only thread t has moved. *)
OnlyMoves(t) ==
    \A s \in Callers : s # t => job'[s] = job[s] /\ caller'[s] = caller[s]

(* A thread that has not moved is as fine as it was, unless the step wrote *)
(* a receipt for its capability or a journal entry for its deed.           *)
LEMMA OthersKeep ==
    ASSUME GKTypeOK, GKTypeOK', Forward, NEW s \in Callers, ThreadFine(s),
           job'[s] = job[s], caller'[s] = caller[s],
           HasActed(s) => \A i \in DOMAIN journal' :
               i \in DOMAIN journal \/ journal'[i].deed # job[s].deed,
           InFlight(s) /\ Receipted(IdOf(s))' /\ ~Receipted(IdOf(s)) =>
               job[s].stage # "append" /\ now' > ExpiryOf(s)
    PROVE  ThreadFine(s)'
<1>1. now \in Nat /\ now' \in Nat
  BY DEF GKTypeOK, TypeOK
<1>2. /\ IdOf(s)' = IdOf(s) /\ ExpiryOf(s)' = ExpiryOf(s) /\ EnvOf(s)' = EnvOf(s)
      /\ InFlight(s)' = InFlight(s) /\ HasActed(s)' = HasActed(s)
  BY DEF IdOf, ExpiryOf, EnvOf, InFlight, HasActed
<1>3. job[s].stage \in Stages => /\ EnvOf(s) \in Envelopes /\ ExpiryOf(s) \in Nat
                                 /\ Payload[EnvOf(s)].notBefore \in Nat
  BY JobAtStage, Presented DEF EnvOf, ExpiryOf
<1>4. CallerServesJob(s)'
  <2> SUFFICES ASSUME caller[s] # Idle PROVE CallerServesJob(s)'
    BY DEF CallerServesJob
  <2>1. job[s].stage \in Stages /\ caller[s] \in Call
    BY DEF GKTypeOK, TypeOK, Stages
  <2>2. caller[s].current \in Nat
    BY <2>1 DEF Call
  <2> QED
    BY <1>1, <1>2, <1>3, <2>1, <2>2 DEF Forward, ThreadFine, CallerServesJob
<1>5. BarredIsDenied(s)'
  <2> SUFFICES ASSUME job[s] # NoJob, job[s].barred
               PROVE  job[s].stage = "sequence"
                      /\ SequenceDenies(job[s].pres.req, job[s].current)'
    BY <1>2 DEF BarredIsDenied, SequenceDenies, IsComplete, Matches
  <2>1. job[s].stage = "sequence" /\ SequenceDenies(job[s].pres.req, job[s].current)
    BY DEF ThreadFine, BarredIsDenied
  <2> DEFINE r == job[s].pres.req
             at == job[s].current
  <2>2. SequenceDenies(r, at) /\ r' = r /\ at' = at
    BY <2>1
  <2> HIDE DEF r, at
  <2>3. PICK c \in Combinations : IsComplete(c, at) /\ r \in c.trigger
    BY <2>2 DEF SequenceDenies
  <2>4. \A p \in c.patterns : Matches(p, c.window, at)'
    BY <2>2, <2>3 DEF IsComplete, Matches, Forward
  <2>5. SequenceDenies(r, at)'
    BY <2>2, <2>3, <2>4 DEF IsComplete, SequenceDenies
  <2> QED
    BY <2>1, <2>5 DEF r, at
<1>6. FlightIsTaken(s)'
  <2> SUFFICES ASSUME InFlight(s) PROVE FlightIsTaken(s)'
    BY <1>2 DEF FlightIsTaken
  <2>1. EnvOf(s) \in Envelopes /\ Payload[EnvOf(s)].notBefore \in Nat
    BY <1>3 DEF InFlight, Stages
  <2>2. Taken(EnvOf(s))'
    BY <1>2, <2>1 DEF Forward, ThreadFine, FlightIsTaken, Taken
  <2> QED
    BY <1>1, <1>2, <2>1, <2>2 DEF Forward, ThreadFine, FlightIsTaken
<1>7. DraftIsFirst(s)'
  BY <1>2 DEF ThreadFine, DraftIsFirst, InFlight
<1>8. ReceiptedIsOver(s)'
  <2> SUFFICES ASSUME Persistent, job[s].stage \in {"actuate", "receipt"}, Receipted(IdOf(s))'
               PROVE  now' > ExpiryOf(s)
    BY <1>2 DEF ReceiptedIsOver, Receipted
  <2>1. ExpiryOf(s) \in Nat /\ InFlight(s)
    BY <1>3 DEF Stages, InFlight
  <2>2. CASE Receipted(IdOf(s))
    BY <1>1, <2>1, <2>2 DEF ThreadFine, ReceiptedIsOver, Forward
  <2>3. CASE ~Receipted(IdOf(s))
    BY <2>1, <2>3
  <2> QED
    BY <2>2, <2>3
<1>9. DeedIsOwn(s)'
  <2> SUFFICES ASSUME HasActed(s) PROVE DeedIsOwn(s)'
    BY <1>2 DEF DeedIsOwn
  <2>1. DeedIsOwn(s)
    BY DEF ThreadFine
  <2>2. Receipted(IdOf(s)) => Receipted(IdOf(s))'
    BY <1>2 DEF Receipted, Forward
  <2>3. \A i \in DOMAIN journal' : journal'[i].deed # job[s].deed
    BY <2>1 DEF DeedIsOwn, Forward
  <2> QED
    BY <1>2, <2>1, <2>2, <2>3 DEF DeedIsOwn, Forward
<1> QED
  BY <1>4, <1>5, <1>6, <1>7, <1>8, <1>9 DEF ThreadFine

(* Two threads that have not moved are as they were to each other. *)
LEMMA PairsKeep ==
    ASSUME GKTypeOK, GKTypeOK', NEW s \in Callers, NEW u \in Callers, PairFine(s, u),
           job'[s] = job[s], job'[u] = job[u], now' >= now
    PROVE  PairFine(s, u)'
<1>1. now \in Nat /\ now' \in Nat
  BY DEF GKTypeOK, TypeOK
<1>2. InFlight(u) => ExpiryOf(u) \in Nat
  BY JobAtStage, Presented DEF InFlight, Stages, ExpiryOf, EnvOf
<1> QED
  BY <1>1, <1>2 DEF PairFine, InFlight, HasActed, IdOf, ExpiryOf, EnvOf

(* Genuine capabilities with one id are one grant with one expiry. *)
LEMMA SameIdSameExpiry ==
    ASSUME NEW p \in Presentations, NEW q \in Presentations,
           Payload[p.env].consistent, Payload[q.env].consistent,
           Payload[p.env].id = Payload[q.env].id
    PROVE  Payload[p.env].expires = Payload[q.env].expires /\ Grant(p.env) = Grant(q.env)
<1>1. p.env \in Envelopes /\ q.env \in Envelopes
  BY Presented
<1> QED
  BY <1>1, GateAssumption DEF Grant

(* So it does not matter which of two threads is named first. *)
LEMMA PairsTurn ==
    ASSUME GKTypeOK', NEW s \in Callers, NEW u \in Callers, PairFine(s, u)',
           FlightIsTaken(s)', FlightIsTaken(u)'
    PROVE  PairFine(u, s)'
<1> SUFFICES ASSUME InFlight(s)', InFlight(u)', IdOf(s)' = IdOf(u)'
             PROVE  ExpiryOf(s)' = ExpiryOf(u)'
  BY DEF PairFine
<1>1. job'[s].pres \in Presentations /\ job'[u].pres \in Presentations
  <2>1. job'[s] \in Job /\ job'[u] \in Job
    BY NoJobIsNoStage DEF GKTypeOK, InFlight, Stages
  <2> QED
    BY <2>1 DEF Job
<1> QED
  BY <1>1, SameIdSameExpiry DEF FlightIsTaken, IdOf, EnvOf, ExpiryOf

(* When one thread moves, the rest follows from what it has become itself. *)
LEMMA OneMoves ==
    ASSUME GKTypeOK, GKTypeOK', AllFine, NEW t \in Callers, Forward, OnlyMoves(t),
           ThreadFine(t)', \A s \in Callers : s # t => PairFine(s, t)',
           \A s \in Callers : s # t =>
               /\ HasActed(s) => \A i \in DOMAIN journal' :
                      i \in DOMAIN journal \/ journal'[i].deed # job[s].deed
               /\ InFlight(s) /\ Receipted(IdOf(s))' /\ ~Receipted(IdOf(s)) =>
                      job[s].stage # "append" /\ now' > ExpiryOf(s)
    PROVE  AllFine'
<1>1. ASSUME NEW s \in Callers
      PROVE  ThreadFine(s)'
  <2>1. CASE s = t
    BY <2>1
  <2>2. CASE s # t
    BY <2>2, OthersKeep DEF OnlyMoves, AllFine
  <2> QED
    BY <2>1, <2>2
<1>2. ASSUME NEW s \in Callers, NEW u \in Callers, s # u
      PROVE  PairFine(s, u)'
  <2>1. CASE u = t
    BY <1>2, <2>1
  <2>2. CASE s = t
    <3>1. FlightIsTaken(s)' /\ FlightIsTaken(u)' /\ PairFine(u, s)'
      BY <1>1, <1>2, <2>2 DEF ThreadFine
    <3> QED
      BY <3>1, PairsTurn
  <2>3. CASE s # t /\ u # t
    BY <1>2, <2>3, PairsKeep DEF OnlyMoves, AllFine, Forward
  <2> QED
    BY <2>1, <2>2, <2>3
<1> QED
  BY <1>1, <1>2 DEF AllFine

(* All the more so if the step writes to neither log. *)
LEMMA OneMovesQuietly ==
    ASSUME GKTypeOK, GKTypeOK', AllFine, NEW t \in Callers, Forward, OnlyMoves(t),
           ThreadFine(t)', \A s \in Callers : s # t => PairFine(s, t)',
           UNCHANGED <<journal, receipts>>
    PROVE  AllFine'
<1>1. ASSUME NEW s \in Callers, s # t
      PROVE  Receipted(IdOf(s))' <=> Receipted(IdOf(s))
  BY <1>1 DEF Receipted, IdOf, OnlyMoves
<1> QED
  BY <1>1, OneMoves

-----------------------------------------------------------------------------
(* What keeps what is said of the logs. *)

(* The journal's deeds and receipts are still there. *)
LEMMA JournalKeeps ==
    ASSUME JournalDeeds, JournalHasReceipts, Forward, journal' = journal
    PROVE  JournalDeeds' /\ JournalHasReceipts'
<1>1. JournalDeeds'
  BY DEF JournalDeeds, Forward
<1>2. ASSUME NEW i \in DOMAIN journal
      PROVE  /\ deeds'[journal[i].deed].ok
             /\ deeds'[journal[i].deed].pres.req = journal[i].req
             /\ \E k \in DOMAIN receipts' :
                   receipts'[k].cap = Payload[deeds'[journal[i].deed].pres.env].id
  <2>1. /\ deeds'[journal[i].deed].pres = deeds[journal[i].deed].pres
        /\ deeds'[journal[i].deed].ok = deeds[journal[i].deed].ok
    BY DEF JournalDeeds, Forward
  <2> QED
    BY <2>1 DEF JournalHasReceipts, Forward
<1> QED
  BY <1>1, <1>2 DEF JournalHasReceipts

(* What was taken stays taken. *)
LEMMA ReceiptsKeep ==
    ASSUME ReceiptsTaken, OneReceiptPerCapability, Forward, receipts' = receipts
    PROVE  ReceiptsTaken' /\ OneReceiptPerCapability'
<1>1. OneReceiptPerCapability'
  BY DEF OneReceiptPerCapability
<1>2. ReceiptsTaken'
  <2> SUFFICES ASSUME Persistent, NEW k \in DOMAIN receipts
               PROVE  \E e \in Envelopes :
                          /\ Payload[e].consistent /\ Payload[e].id = receipts[k].cap
                          /\ Taken(e)'
    BY DEF ReceiptsTaken, Taken
  <2> QED
    BY DEF ReceiptsTaken, Forward
<1> QED
  BY <1>1, <1>2

LEMMA DeedsKeep ==
    ASSUME BarredNeverActuates, ReceiptGapExplained, deeds' = deeds
    PROVE  BarredNeverActuates' /\ ReceiptGapExplained'
  BY DEF BarredNeverActuates, ReceiptGapExplained

(* A step that writes none of them. *)
LEMMA LogsKeep ==
    ASSUME LogsFine, Forward, UNCHANGED <<journal, receipts, deeds>>
    PROVE  LogsFine'
  BY JournalKeeps, ReceiptsKeep, DeedsKeep DEF LogsFine

-----------------------------------------------------------------------------
(* The invariant is inductive, one lemma per kind of step. *)

(* Neither the gate's state nor a log changes. *)
LEMMA NothingWritten ==
    ASSUME GKTypeOK, GKTypeOK', now' >= now, store' = store,
           UNCHANGED <<journal, receipts, deeds>>
    PROVE  Forward
<1>1. \A e \in Envelopes : Payload[e].expires \in Nat
  BY GateAssumption DEF PayloadType
<1>2. now \in Nat /\ now' \in Nat
  BY DEF GKTypeOK, TypeOK
<1>3. \A e \in Envelopes : Taken(e) => Taken(e)'
  BY <1>1, <1>2 DEF Taken
<1> QED
  BY <1>3 DEF Forward

(* A thread without a job, and one that is still before the gate's end,    *)
(* owns nothing.                                                           *)
LEMMA LeftFine ==
    ASSUME GKTypeOK', NEW t \in Callers, job'[t].stage = "none"
    PROVE  ThreadFine(t)' /\ \A s \in Callers : PairFine(s, t)'
<1>1. job'[t] = NoJob /\ caller'[t] = Idle
  BY DEF GKTypeOK, Job
<1> QED
  BY <1>1 DEF ThreadFine, PairFine, CallerServesJob, BarredIsDenied, FlightIsTaken,
              DraftIsFirst, ReceiptedIsOver, DeedIsOwn, InFlight, HasActed

LEMMA EarlyFine ==
    ASSUME NEW t \in Callers, job'[t].stage \in {"sequence", "revocation", "gate"},
           CallerServesJob(t)', BarredIsDenied(t)'
    PROVE  ThreadFine(t)' /\ \A s \in Callers : PairFine(s, t)'
  BY DEF ThreadFine, PairFine, FlightIsTaken, DraftIsFirst, ReceiptedIsOver, DeedIsOwn,
         InFlight, HasActed

(* What was complete by this instant's clock is complete for the call that *)
(* keeps this instant as its time.                                         *)
LEMMA BarredDenies ==
    ASSUME GKTypeOK, NEW r, Barred(r)
    PROVE  SequenceDenies(r, now)
<1>1. PICK c \in Combinations :
          /\ r \in c.trigger
          /\ \A p \in c.patterns :
                {i \in DOMAIN journal : /\ journal[i].req \in p
                                        /\ (c.window = NoWindow
                                            \/ now <= journal[i].at + c.window)} # {}
  BY DEF Barred
<1>2. c.window \in Nat /\ now \in Nat
  BY GatekeeperAssumption DEF GKTypeOK, TypeOK
<1>3. ASSUME NEW p \in c.patterns
      PROVE  Matches(p, c.window, now)
  <2>1. PICK i \in DOMAIN journal :
            journal[i].req \in p /\ (c.window = NoWindow \/ now <= journal[i].at + c.window)
    BY <1>1
  <2>2. journal[i].at \in Nat
    <3> DEFINE Entry == [req : Requests, at : Nat, deed : Nat]
    <3>1. journal \in Seq(Entry)
      BY DEF GKTypeOK
    <3> HIDE DEF Entry
    <3>2. journal[i] \in Entry
      BY <2>1, <3>1
    <3> QED
      BY <3>2 DEF Entry
  <2> QED
    BY <1>2, <2>1, <2>2 DEF Matches
<1> QED
  BY <1>1, <1>3 DEF SequenceDenies, IsComplete

(* A call that begins knows whether it is barred, and is denied if it is.  *)
LEMMA StartKeeps ==
    ASSUME GKInv, GKTypeOK', NEW t \in Callers, NEW p \in Presentations, Start(t, p)
    PROVE  AllFine' /\ LogsFine'
<1> USE DEF GKInv
<1>1. /\ UNCHANGED <<now, boot, store, revoked, uses, journal, receipts, deeds>>
      /\ caller' = [caller EXCEPT ![t] = [pc |-> "validate", pres |-> p, current |-> now,
                                          forewarned |-> OnList(p.env)]]
      /\ job' = [job EXCEPT ![t] = [stage |-> "sequence", pres |-> p, current |-> now,
                                    barred |-> Barred(p.req), deed |-> 0,
                                    draft |-> NoDraft]]
  BY DEF Start, Begin
<1>2. now \in Nat /\ Forward /\ OnlyMoves(t)
  BY <1>1, NothingWritten DEF OnlyMoves, GKTypeOK, TypeOK
<1>3. /\ job'[t].stage = "sequence" /\ job'[t].pres = p /\ job'[t].current = now
      /\ job'[t].barred = Barred(p.req)
  <2> HIDE DEF Barred
  <2> QED
    BY <1>1 DEF GKTypeOK
<1>4. caller'[t].pc = "validate" /\ caller'[t].pres = p /\ caller'[t].current = now
  BY <1>1 DEF GKTypeOK, TypeOK
<1>5. CallerServesJob(t)'
  BY <1>1, <1>2, <1>3, <1>4 DEF CallerServesJob
<1>6. BarredIsDenied(t)'
  <2> SUFFICES ASSUME Barred(p.req)
               PROVE  SequenceDenies(job[t].pres.req, job[t].current)'
    BY <1>3 DEF BarredIsDenied
  <2>1. SequenceDenies(p.req, now)
    BY BarredDenies
  <2> QED
    BY <1>1, <1>3, <2>1 DEF SequenceDenies, IsComplete, Matches
<1>7. AllFine'
  BY <1>1, <1>2, <1>3, <1>5, <1>6, EarlyFine, OneMovesQuietly
<1> QED
  BY <1>1, <1>2, <1>7, LogsKeep

(* The sequence check ends every barred call. *)
LEMMA CheckKeeps ==
    ASSUME GKInv, GKTypeOK', NEW t \in Callers, CheckSequence(t) \/ CheckRevocation(t)
    PROVE  AllFine' /\ LogsFine'
<1> USE DEF GKInv
<1>1. /\ UNCHANGED <<now, boot, store, revoked, uses, journal, receipts, deeds>>
      /\ job[t].stage \in {"sequence", "revocation"}
  BY DEF CheckSequence, CheckRevocation, At
<1>2. Forward
  BY <1>1, NothingWritten DEF GKTypeOK, TypeOK
<1>3. CASE Abandon(t)
  <2>1. job'[t].stage = "none" /\ OnlyMoves(t)
    BY <1>3, Returns DEF Abandon, OnlyMoves, GKTypeOK, TypeOK
  <2>2. AllFine'
    BY <1>1, <1>2, <2>1, LeftFine, OneMovesQuietly
  <2> QED
    BY <1>1, <1>2, <2>2, LogsKeep
<1>4. ASSUME NEW st \in {"revocation", "gate"}, GoTo(t, st), UNCHANGED caller,
             job[t].stage = "sequence" => ~SequenceDenies(job[t].pres.req, job[t].current)
      PROVE  AllFine' /\ LogsFine'
  <2>1. /\ job'[t].stage = st /\ job'[t].pres = job[t].pres
        /\ job'[t].barred = job[t].barred /\ OnlyMoves(t)
    BY <1>1, <1>4, GoesTo DEF GoTo, Stages, OnlyMoves
  <2>2. ThreadFine(t)
    BY DEF AllFine
  <2>3. CallerServesJob(t)'
    BY <1>1, <1>4, <2>1, <2>2 DEF ThreadFine, CallerServesJob, EnvOf
  <2>4. job[t] # NoJob /\ ~job[t].barred
    BY <1>1, <1>4, <2>2, JobAtStage DEF ThreadFine, BarredIsDenied, Stages
  <2>5. BarredIsDenied(t)'
    BY <2>1, <2>4 DEF BarredIsDenied
  <2>6. AllFine'
    BY <1>1, <1>2, <2>1, <2>3, <2>5, EarlyFine, OneMovesQuietly
  <2> QED
    BY <1>1, <1>2, <2>6, LogsKeep
<1> QED
  BY <1>3, <1>4 DEF CheckSequence, CheckRevocation, At

(* A consumption makes its thread the only one in flight for a capability  *)
(* within its life: whoever took it before would still be in the store.    *)
LEMMA ConsumeTakes ==
    ASSUME GKInv, GKTypeOK', NEW t \in Callers, GateConsume(t), uses' # uses,
           job' = [job EXCEPT ![t].stage = "actuate"], caller'[t] = Idle
    PROVE  /\ Forward /\ OnlyMoves(t)
           /\ ThreadFine(t)' /\ \A s \in Callers : s # t => PairFine(s, t)'
<1> USE DEF GKInv
<1> DEFINE e == EnvOf(t)
<1>1. /\ job[t].stage = "gate" /\ caller[t] # Idle /\ OnlyMoves(t)
      /\ job'[t].stage = "actuate" /\ job'[t].pres = job[t].pres
      /\ job'[t].barred = job[t].barred
  <2>1. job[t].stage = "gate" /\ caller[t] # Idle
        /\ \A s \in Callers : s # t => caller'[s] = caller[s]
    BY GateSteps
  <2> QED
    BY <2>1, GoesTo DEF OnlyMoves, Stages
<1>2. /\ UNCHANGED <<now, boot, revoked, journal, receipts, deeds>>
      /\ caller[t].pc = "consume" /\ caller[t].pres = job[t].pres
  BY <1>1 DEF GateConsume, ConsumeOnce, AllFine, ThreadFine, CallerServesJob
<1>3. ~Holds(Kept, e) /\ store' = Kept \cup {Grant(e)}
  BY <1>2 DEF GateConsume, ConsumeOnce, EnvOf
<1>4. /\ e \in Envelopes /\ job[t].pres \in Presentations /\ now \in Nat
      /\ \A f \in Envelopes : Payload[f].expires \in Nat
  BY <1>1, JobAtStage, Presented, GateAssumption
     DEF Stages, EnvOf, PayloadType, GKTypeOK, TypeOK
<1>5. Payload[e].consistent /\ Payload[e].notBefore <= now
  <2>1. Honest(caller[t]) /\ CallerServesJob(t)
    BY <1>1 DEF Inv, CallersHonest, AllFine, ThreadFine
  <2> QED
    BY <1>1, <1>2, <2>1 DEF Honest, CallerServesJob, EnvOf
<1>6. ASSUME NEW f \in Envelopes, Taken(f)
      PROVE  Taken(f)'
  BY <1>2, <1>3, <1>4, <1>6 DEF Taken, Kept, Grant
<1>7. Forward
  BY <1>2, <1>4, <1>6 DEF Forward
<1>8. ASSUME NEW f \in Envelopes, Payload[f].consistent, Payload[f].id = Payload[e].id,
             Taken(f)
      PROVE  now > Payload[e].expires
  <2>1. Grant(f) = Grant(e) /\ Payload[f].expires = Payload[e].expires
    BY <1>4, <1>5, <1>8, GateAssumption DEF Grant
  <2>2. Grant(e) \notin Kept
    BY <1>3 DEF Holds, Grant
  <2> QED
    BY <1>4, <1>8, <2>1, <2>2 DEF Taken, Kept, Grant
<1>9. IdOf(t)' = IdOf(t) /\ EnvOf(t)' = e /\ ExpiryOf(t)' = Payload[e].expires
  BY <1>1 DEF IdOf, EnvOf, ExpiryOf
<1>10. FlightIsTaken(t)'
  BY <1>2, <1>3, <1>5, <1>9 DEF FlightIsTaken, Taken
<1>11. ReceiptedIsOver(t)'
  <2> SUFFICES ASSUME Persistent, Receipted(IdOf(t)) PROVE now > Payload[e].expires
    BY <1>2, <1>9 DEF ReceiptedIsOver, Receipted
  <2>1. PICK k \in DOMAIN receipts : receipts[k].cap = Payload[e].id
    BY DEF Receipted, IdOf, EnvOf
  <2>2. PICK f \in Envelopes : Payload[f].consistent /\ Payload[f].id = receipts[k].cap
                               /\ Taken(f)
    BY DEF LogsFine, ReceiptsTaken
  <2> QED
    BY <1>8, <2>1, <2>2
<1>12. ~job[t].barred /\ job[t] # NoJob
  BY <1>1, JobAtStage DEF AllFine, ThreadFine, BarredIsDenied, Stages
<1>13. ThreadFine(t)'
  BY <1>1, <1>10, <1>11, <1>12 DEF ThreadFine, CallerServesJob, BarredIsDenied,
     DraftIsFirst, DeedIsOwn, HasActed
<1>14. ASSUME NEW s \in Callers, s # t
       PROVE  PairFine(s, t)'
  <2>1. job'[s] = job[s]
    BY <1>1, <1>14 DEF OnlyMoves
  <2> SUFFICES ASSUME InFlight(s), IdOf(s) = IdOf(t)
               PROVE  now > Payload[e].expires
    BY <1>1, <1>2, <1>9, <2>1 DEF PairFine, InFlight, HasActed, IdOf
  <2>2. EnvOf(s) \in Envelopes
    BY JobAtStage, Presented DEF InFlight, Stages, EnvOf
  <2>3. Payload[EnvOf(s)].consistent /\ Taken(EnvOf(s))
    BY DEF AllFine, ThreadFine, FlightIsTaken
  <2> QED
    BY <1>8, <2>2, <2>3 DEF IdOf, EnvOf
<1> QED
  BY <1>1, <1>7, <1>13, <1>14

(* The gate's own steps. *)
LEMMA GateKeeps ==
    ASSUME GKInv, GKTypeOK', NEW t \in Callers,
           GateValidate(t) \/ GateConsume(t) \/ GateStoreFails(t)
    PROVE  AllFine' /\ LogsFine'
<1> USE DEF GKInv
<1>1. /\ job[t].stage = "gate" /\ caller[t] # Idle
      /\ UNCHANGED <<now, boot, revoked, journal, receipts, deeds>>
      /\ \A s \in Callers : s # t => caller'[s] = caller[s]
  BY GateSteps
<1>2. \A e \in Envelopes : Payload[e].expires \in Nat
  BY GateAssumption DEF PayloadType
<1>3. now \in Nat
  BY DEF GKTypeOK, TypeOK
<1>4. Forward
  <2>1. store' = store \/ Kept \subseteq store'
    BY DEF GateValidate, Validate, GateConsume, ConsumeOnce, GateStoreFails, StoreFails
  <2>2. \A e \in Envelopes : Taken(e) => Taken(e)'
    BY <1>1, <1>2, <1>3, <2>1 DEF Taken, Kept, Grant
  <2> QED
    BY <1>1, <1>3, <2>2 DEF Forward
<1>5. CASE Return(t) /\ caller'[t] = Idle
  <2>1. job'[t].stage = "none" /\ OnlyMoves(t)
    BY <1>1, <1>5, Returns DEF OnlyMoves
  <2>2. AllFine'
    BY <1>1, <1>4, <2>1, LeftFine, OneMovesQuietly
  <2> QED
    BY <1>1, <1>4, <2>2, LogsKeep
<1>6. CASE Passes(caller[t]) /\ UNCHANGED job /\ caller' = [caller EXCEPT ![t].pc = "consume"]
  <2>1. ThreadFine(t) /\ caller[t] \in Call
    BY <1>1 DEF AllFine, GKTypeOK, TypeOK
  <2>2. caller'[t].pres = caller[t].pres /\ caller'[t].current = caller[t].current
    <3>1. caller'[t] = [caller[t] EXCEPT !.pc = "consume"]
      BY <1>6 DEF GKTypeOK, TypeOK
    <3> QED
      BY <2>1, <3>1 DEF Call
  <2>3. caller[t].pres = job[t].pres /\ caller[t].current <= now /\ caller[t].current \in Nat
    BY <1>1, <2>1 DEF ThreadFine, CallerServesJob, Call
  <2>4. Payload[EnvOf(t)].notBefore <= caller[t].current
    BY <1>6, <2>3 DEF Passes, WindowAccepted, EnvOf
  <2>5. Payload[EnvOf(t)].notBefore \in Nat
    BY <1>1, JobAtStage, Presented DEF Stages, EnvOf
  <2>6. CallerServesJob(t)'
    BY <1>1, <1>3, <1>6, <2>2, <2>3, <2>4, <2>5 DEF CallerServesJob, EnvOf
  <2>7. BarredIsDenied(t)'
    BY <1>1, <1>6, <2>1 DEF ThreadFine, BarredIsDenied
  <2>8. OnlyMoves(t)
    BY <1>1, <1>6 DEF OnlyMoves
  <2>9. AllFine'
    BY <1>1, <1>4, <1>6, <2>6, <2>7, <2>8, EarlyFine, OneMovesQuietly
  <2> QED
    BY <1>1, <1>4, <2>9, LogsKeep
<1>7. CASE /\ ConsumeOnce(t) /\ uses' # uses /\ caller'[t] = Idle
           /\ job' = [job EXCEPT ![t].stage = "actuate"]
  <2>1. GateConsume(t)
    BY <1>1, <1>7 DEF GateConsume, At, GoTo, NoJob
  <2>2. AllFine'
    BY <1>1, <1>7, <2>1, ConsumeTakes, OneMovesQuietly
  <2> QED
    BY <1>1, <1>4, <2>2, LogsKeep
<1> QED
  BY <1>5, <1>6, <1>7, GateSteps

(* The deed is new: no other call has it, and no journal entry names it.   *)
LEMMA ActuateKeeps ==
    ASSUME GKInv, GKTypeOK', NEW t \in Callers, Actuate(t)
    PROVE  AllFine' /\ LogsFine'
<1> USE DEF GKInv
<1> DEFINE n == Len(deeds) + 1
<1>1. /\ UNCHANGED <<now, boot, store, revoked, caller, uses, journal, receipts>>
      /\ job[t].stage = "actuate"
  BY DEF Actuate, At, gateUnchanged, vars
<1>2. /\ job'[t].stage = "receipt" /\ job'[t].deed = n
      /\ job'[t].pres = job[t].pres /\ job'[t].barred = job[t].barred
      /\ job'[t] # NoJob /\ OnlyMoves(t)
  BY <1>1, ActuateTypes DEF OnlyMoves
<1>3. /\ DOMAIN deeds' = DOMAIN deeds \cup {n} /\ n \notin DOMAIN deeds
      /\ \A d \in DOMAIN deeds : deeds'[d] = deeds[d]
      /\ deeds'[n].pres = job[t].pres /\ deeds'[n].barred = job[t].barred
      /\ deeds'[n].refused = Open
  <2>1. PICK ok \in BOOLEAN :
            deeds' = Append(deeds, [pres |-> job[t].pres, ok |-> ok,
                                    barred |-> job[t].barred, refused |-> Open])
    BY DEF Actuate
  <2> DEFINE d == [pres |-> job[t].pres, ok |-> ok, barred |-> job[t].barred, refused |-> Open]
  <2>2. d.pres = job[t].pres /\ d.barred = job[t].barred /\ d.refused = Open
    OBVIOUS
  <2>3. deeds' = Append(deeds, d)
    BY <2>1
  <2> HIDE DEF d
  <2> QED
    BY <2>2, <2>3 DEF GKTypeOK
<1>4. Forward
  <2>1. now \in Nat /\ \A e \in Envelopes : Taken(e) => Taken(e)'
    BY <1>1 DEF Taken, GKTypeOK, TypeOK
  <2> QED
    BY <1>1, <1>3, <2>1 DEF Forward
<1>5. ThreadFine(t)
  BY DEF AllFine
<1>6. ~job[t].barred
  BY <1>1, <1>5, JobAtStage DEF ThreadFine, BarredIsDenied, Stages
<1> HIDE DEF n
<1>7. ThreadFine(t)'
  <2>1. caller'[t] = Idle
    BY <1>1 DEF GKTypeOK
  <2>2. FlightIsTaken(t)' /\ ReceiptedIsOver(t)'
    BY <1>1, <1>2, <1>5 DEF ThreadFine, FlightIsTaken, ReceiptedIsOver, InFlight, EnvOf,
       ExpiryOf, IdOf, Taken, Receipted
  <2>3. \A i \in DOMAIN journal : journal[i].deed # n
    BY <1>3 DEF LogsFine, JournalDeeds
  <2>4. DeedIsOwn(t)'
    BY <1>1, <1>2, <1>3, <2>3 DEF DeedIsOwn
  <2> QED
    BY <1>2, <1>6, <2>1, <2>2, <2>4
       DEF ThreadFine, CallerServesJob, BarredIsDenied, DraftIsFirst
<1>8. ASSUME NEW s \in Callers, s # t
      PROVE  PairFine(s, t)'
  <2>1. job'[s] = job[s] /\ PairFine(s, t) /\ ThreadFine(s)
    BY <1>2, <1>8 DEF OnlyMoves, AllFine
  <2>2. HasActed(s) => job[s].deed # n
    BY <1>3, <2>1 DEF ThreadFine, DeedIsOwn
  <2> QED
    BY <1>1, <1>2, <2>1, <2>2 DEF PairFine, InFlight, HasActed, IdOf, ExpiryOf, EnvOf
<1>9. AllFine'
  BY <1>1, <1>2, <1>4, <1>7, <1>8, OneMovesQuietly
<1>10. BarredNeverActuates'
  BY <1>3, <1>6 DEF LogsFine, BarredNeverActuates
<1>11. ReceiptGapExplained'
  BY <1>3 DEF LogsFine, ReceiptGapExplained
<1> QED
  BY <1>1, <1>4, <1>9, <1>10, <1>11, JournalKeeps, ReceiptsKeep DEF LogsFine

(* A receipt is refused for the arguments, or because the capability is    *)
(* over: it has begun, and if another call's receipt is in the log, then   *)
(* this call took it after the expiry.                                     *)
LEMMA RefuseKeeps ==
    ASSUME GKInv, GKTypeOK', NEW t \in Callers, job[t].stage = "receipt",
           NEW why \in Nat \cup {Misreported}, RefuseReceipt(t, why),
           gateUnchanged, UNCHANGED <<journal, receipts>>,
           Persistent /\ why # Misreported => why >= ExpiryOf(t)
    PROVE  AllFine' /\ LogsFine'
<1> USE DEF GKInv
<1>1. /\ DOMAIN deeds' = DOMAIN deeds
      /\ \A d \in DOMAIN deeds : /\ deeds'[d].pres = deeds[d].pres
                                 /\ deeds'[d].ok = deeds[d].ok
                                 /\ deeds'[d].barred = deeds[d].barred
                                 /\ deeds'[d].refused =
                                       IF d = job[t].deed THEN why ELSE deeds[d].refused
  BY RefusalTypes
<1>2. UNCHANGED <<now, store, caller>>
  BY DEF gateUnchanged, vars
<1>3. job'[t].stage = "none" /\ OnlyMoves(t)
  BY <1>2, Returns DEF OnlyMoves, RefuseReceipt
<1>4. Forward
  <2>1. now \in Nat /\ \A e \in Envelopes : Taken(e) => Taken(e)'
    BY <1>2 DEF Taken, GKTypeOK, TypeOK
  <2> QED
    BY <1>1, <1>2, <2>1 DEF Forward
<1>5. AllFine'
  BY <1>3, <1>4, LeftFine, OneMovesQuietly
<1>6. BarredNeverActuates'
  BY <1>1 DEF LogsFine, BarredNeverActuates
<1>7. ReceiptGapExplained'
  <2> SUFFICES ASSUME Persistent, NEW d \in DOMAIN deeds
               PROVE  \/ deeds'[d].refused \in {Open, Misreported}
                      \/ deeds'[d].refused >= Payload[deeds[d].pres.env].expires
    BY <1>1 DEF ReceiptGapExplained
  <2>1. CASE d = job[t].deed
    <3>1. deeds[d].pres = job[t].pres
      BY <2>1 DEF AllFine, ThreadFine, DeedIsOwn, HasActed
    <3> QED
      BY <1>1, <2>1, <3>1 DEF ExpiryOf, EnvOf
  <2>2. CASE d # job[t].deed
    BY <1>1, <2>2 DEF LogsFine, ReceiptGapExplained
  <2> QED
    BY <2>1, <2>2
<1> QED
  BY <1>4, <1>5, <1>6, <1>7, JournalKeeps, ReceiptsKeep DEF LogsFine

(* A draft is made within the capability's life, so it is the only one.    *)
LEMMA DraftKeeps ==
    ASSUME GKInv, GKTypeOK', NEW t \in Callers, job[t].stage = "receipt", Drafts(t),
           gateUnchanged, UNCHANGED <<journal, receipts>>
    PROVE  AllFine' /\ LogsFine'
<1> USE DEF GKInv
<1>1. UNCHANGED <<now, store, caller, journal, receipts, deeds>>
  BY DEF gateUnchanged, vars, Drafts
<1>2. /\ job'[t].stage = "append" /\ job'[t].deed = job[t].deed
      /\ job'[t].pres = job[t].pres /\ job'[t].barred = job[t].barred
      /\ job'[t].draft \in Receipt /\ job'[t].draft.cap = IdOf(t) /\ OnlyMoves(t)
  BY <1>1, DraftTypes DEF OnlyMoves
<1>3. Forward
  BY <1>1, NothingWritten DEF GKTypeOK, TypeOK
<1>4. ThreadFine(t)
  BY DEF AllFine
<1>5. ~job[t].barred
  BY <1>4, JobAtStage DEF ThreadFine, BarredIsDenied, Stages
<1>6. ThreadFine(t)'
  <2>1. caller'[t] = Idle
    BY <1>1 DEF GKTypeOK
  <2>2. FlightIsTaken(t)' /\ ReceiptedIsOver(t)'
    BY <1>1, <1>2, <1>4 DEF ThreadFine, FlightIsTaken, ReceiptedIsOver, InFlight, EnvOf,
       ExpiryOf, IdOf, Taken, Receipted
  <2>3. DraftIsFirst(t)'
    BY <1>1, <1>2 DEF DraftIsFirst, Drafts, AlreadyReceipted, Receipted, IdOf
  <2>4. DeedIsOwn(t)'
    BY <1>1, <1>2, <1>4 DEF ThreadFine, DeedIsOwn, HasActed
  <2> QED
    BY <1>2, <1>5, <2>1, <2>2, <2>3, <2>4
       DEF ThreadFine, CallerServesJob, BarredIsDenied
<1>7. ASSUME NEW s \in Callers, s # t
      PROVE  PairFine(s, t)'
  <2>1. job'[s] = job[s] /\ PairFine(s, t)
    BY <1>2, <1>7 DEF OnlyMoves, AllFine
  <2>2. now < ExpiryOf(t) /\ now \in Nat /\ ExpiryOf(t) \in Nat
    BY JobAtStage, Presented DEF Drafts, StillActive, ExpiryOf, EnvOf, Stages, GKTypeOK, TypeOK
  <2>3. ~(InFlight(s) /\ IdOf(s) = IdOf(t))
    BY <2>1, <2>2 DEF PairFine, InFlight
  <2>4. IdOf(t)' = IdOf(t) /\ IdOf(s)' = IdOf(s) /\ InFlight(s)' = InFlight(s)
        /\ HasActed(s)' = HasActed(s)
    BY <1>2, <2>1 DEF IdOf, InFlight, HasActed
  <2> QED
    BY <1>2, <2>1, <2>3, <2>4 DEF PairFine, HasActed
<1>8. AllFine'
  BY <1>1, <1>2, <1>3, <1>6, <1>7, OneMovesQuietly
<1> QED
  BY <1>1, <1>3, <1>8, LogsKeep

(* Both together. *)
LEMMA PrepareKeeps ==
    ASSUME GKInv, GKTypeOK', NEW t \in Callers, PrepareReceipt(t)
    PROVE  AllFine' /\ LogsFine'
<1>1. /\ job[t].stage = "receipt" /\ gateUnchanged /\ UNCHANGED <<journal, receipts>>
      /\ Drafts(t) \/ Refuses(t)
  BY PrepareSplits
<1>2. CASE Drafts(t)
  BY <1>1, <1>2, DraftKeeps
<1>3. CASE RefuseReceipt(t, Misreported)
  BY <1>1, <1>3, RefuseKeeps
<1>4. CASE (AlreadyReceipted(t) \/ ~StillActive(EnvOf(t))) /\ RefuseReceipt(t, now)
  <2>1. now \in Nat /\ EnvOf(t) \in Envelopes /\ ExpiryOf(t) \in Nat
        /\ Payload[EnvOf(t)].notBefore \in Nat
    BY <1>1, JobAtStage, Presented DEF GKInv, GKTypeOK, TypeOK, Stages, EnvOf, ExpiryOf
  <2>2. ThreadFine(t)
    BY DEF GKInv, AllFine
  <2>3. Payload[EnvOf(t)].notBefore <= now
    BY <1>1, <2>2 DEF ThreadFine, FlightIsTaken, InFlight
  <2>4. Persistent => now >= ExpiryOf(t)
    <3>1. CASE AlreadyReceipted(t)
      BY <1>1, <2>1, <2>2, <3>1 DEF ThreadFine, ReceiptedIsOver, AlreadyReceipted, Receipted
    <3>2. CASE ~StillActive(EnvOf(t))
      BY <2>1, <2>3, <3>2 DEF StillActive, ExpiryOf
    <3> QED
      BY <1>4, <3>1, <3>2
  <2>5. now \in Nat \cup {Misreported}
    BY <2>1
  <2> QED
    BY <1>1, <1>4, <2>4, <2>5, RefuseKeeps
<1> QED
  BY <1>1, <1>2, <1>3, <1>4 DEF Refuses

(* The receipt is the first of its capability: since the check for an      *)
(* earlier one, no other call has had a draft for it.                      *)
LEMMA AppendKeeps ==
    ASSUME GKInv, GKTypeOK', NEW t \in Callers, AppendReceipt(t)
    PROVE  AllFine' /\ LogsFine'
<1> USE DEF GKInv
<1> DEFINE n == Len(receipts) + 1
<1>1. /\ UNCHANGED <<now, boot, store, revoked, caller, uses, journal, deeds>>
      /\ job[t].stage = "append" /\ receipts' = Append(receipts, job[t].draft)
  BY DEF AppendReceipt, At, gateUnchanged, vars
<1>2. ThreadFine(t)
  BY DEF AllFine
<1>3. job[t].draft \in Receipt /\ job[t].draft.cap = IdOf(t) /\ ~Receipted(IdOf(t))
  BY <1>1, <1>2 DEF ThreadFine, DraftIsFirst
<1>4. /\ job'[t].stage = "comply" /\ job'[t].deed = job[t].deed
      /\ job'[t].pres = job[t].pres /\ job'[t].barred = job[t].barred /\ OnlyMoves(t)
  BY <1>1, <1>3, AppendTypes DEF OnlyMoves
<1>5. /\ DOMAIN receipts' = DOMAIN receipts \cup {n} /\ n \notin DOMAIN receipts
      /\ \A k \in DOMAIN receipts : receipts'[k] = receipts[k]
      /\ receipts'[n].cap = IdOf(t)
  BY <1>1, <1>3 DEF GKTypeOK
<1> HIDE DEF n
<1>6. Forward
  <2>1. now \in Nat /\ \A e \in Envelopes : Taken(e) => Taken(e)'
    BY <1>1 DEF Taken, GKTypeOK, TypeOK
  <2> QED
    BY <1>1, <1>5, <2>1 DEF Forward
<1>7. ~job[t].barred
  BY <1>1, <1>2, JobAtStage DEF ThreadFine, BarredIsDenied, Stages
<1>8. ThreadFine(t)'
  <2>1. caller'[t] = Idle
    BY <1>1 DEF GKTypeOK
  <2>2. IdOf(t)' = IdOf(t)
    BY <1>4 DEF IdOf
  <2>3. Receipted(IdOf(t))'
    BY <1>5, <2>2 DEF Receipted
  <2>4. DeedIsOwn(t)'
    BY <1>1, <1>2, <1>4, <2>3 DEF ThreadFine, DeedIsOwn, HasActed
  <2> QED
    BY <1>4, <1>7, <2>1, <2>4 DEF ThreadFine, CallerServesJob, BarredIsDenied,
       FlightIsTaken, DraftIsFirst, ReceiptedIsOver, InFlight
<1>9. ASSUME NEW s \in Callers, s # t
      PROVE  PairFine(s, t)'
  <2>1. job'[s] = job[s] /\ PairFine(s, t)
    BY <1>4, <1>9 DEF OnlyMoves, AllFine
  <2> QED
    BY <1>1, <1>4, <2>1 DEF PairFine, InFlight, HasActed
<1>10. ASSUME NEW s \in Callers, s # t, InFlight(s), Receipted(IdOf(s))', ~Receipted(IdOf(s))
       PROVE  job[s].stage # "append" /\ now' > ExpiryOf(s)
  <2>1. job'[s] = job[s] /\ PairFine(t, s)
    BY <1>4, <1>10 DEF OnlyMoves, AllFine
  <2>2. IdOf(s)' = IdOf(s)
    BY <2>1 DEF IdOf
  <2>3. IdOf(s) = IdOf(t)
    BY <1>5, <1>10, <2>2 DEF Receipted
  <2> QED
    BY <1>1, <1>10, <2>1, <2>3 DEF PairFine, InFlight
<1>11. AllFine'
  <2>1. \A s \in Callers : s # t =>
            /\ HasActed(s) => \A i \in DOMAIN journal' :
                   i \in DOMAIN journal \/ journal'[i].deed # job[s].deed
            /\ InFlight(s) /\ Receipted(IdOf(s))' /\ ~Receipted(IdOf(s)) =>
                   job[s].stage # "append" /\ now' > ExpiryOf(s)
    BY <1>1, <1>10
  <2> QED
    BY <1>4, <1>6, <1>8, <1>9, <2>1, OneMoves
<1>12. OneReceiptPerCapability'
  BY <1>3, <1>5 DEF LogsFine, OneReceiptPerCapability, Receipted
<1>13. ReceiptsTaken'
  <2> SUFFICES ASSUME Persistent, NEW k \in DOMAIN receipts'
               PROVE  \E e \in Envelopes :
                          /\ Payload[e].consistent /\ Payload[e].id = receipts'[k].cap
                          /\ Taken(e)'
    BY DEF ReceiptsTaken, Taken
  <2>1. CASE k \in DOMAIN receipts
    BY <1>5, <1>6, <2>1 DEF LogsFine, ReceiptsTaken, Forward
  <2>2. CASE k = n
    <3>1. EnvOf(t) \in Envelopes
      BY <1>1, JobAtStage, Presented DEF Stages, EnvOf
    <3>2. Payload[EnvOf(t)].consistent /\ Taken(EnvOf(t))
      BY <1>1, <1>2 DEF ThreadFine, FlightIsTaken, InFlight
    <3>3. Payload[EnvOf(t)].id = receipts'[k].cap
      BY <1>5, <2>2 DEF IdOf, EnvOf
    <3> QED
      BY <1>6, <3>1, <3>2, <3>3 DEF Forward
  <2> QED
    BY <1>5, <2>1, <2>2
<1> QED
  BY <1>1, <1>6, <1>11, <1>12, <1>13, JournalKeeps, DeedsKeep DEF LogsFine

(* A call that goes on to the journal has a deed that ended well.          *)
LEMMA ComplyKeeps ==
    ASSUME GKInv, GKTypeOK', NEW t \in Callers, Comply(t)
    PROVE  AllFine' /\ LogsFine'
<1> USE DEF GKInv
<1>1. /\ UNCHANGED <<now, boot, store, revoked, caller, uses, journal, receipts, deeds>>
      /\ job[t].stage = "comply"
  BY DEF Comply, At, gateUnchanged, vars
<1>2. OnlyMoves(t) /\ Forward /\ ThreadFine(t)
  BY <1>1, ComplyTypes, NothingWritten DEF OnlyMoves, GKTypeOK, TypeOK, AllFine
<1>3. CASE job'[t].stage = "none"
  <2>1. AllFine'
    BY <1>1, <1>2, <1>3, LeftFine, OneMovesQuietly
  <2> QED
    BY <1>1, <1>2, <2>1, LogsKeep
<1>4. CASE /\ job'[t].stage = "record" /\ job'[t].deed = job[t].deed
           /\ job'[t].pres = job[t].pres /\ job'[t].barred = job[t].barred
           /\ deeds[job[t].deed].ok
  <2>1. ~job[t].barred
    BY <1>1, <1>2, JobAtStage DEF ThreadFine, BarredIsDenied, Stages
  <2>2. caller'[t] = Idle
    BY <1>1 DEF GKTypeOK
  <2>3. DeedIsOwn(t)'
    BY <1>1, <1>2, <1>4 DEF ThreadFine, DeedIsOwn, HasActed, Receipted, IdOf
  <2>4. ThreadFine(t)'
    BY <1>4, <2>1, <2>2, <2>3 DEF ThreadFine, CallerServesJob, BarredIsDenied,
       FlightIsTaken, DraftIsFirst, ReceiptedIsOver, InFlight
  <2>5. ASSUME NEW s \in Callers, s # t
        PROVE  PairFine(s, t)'
    <3>1. job'[s] = job[s] /\ PairFine(s, t)
      BY <1>2, <2>5 DEF OnlyMoves, AllFine
    <3> QED
      BY <1>1, <1>4, <3>1 DEF PairFine, InFlight, HasActed
  <2>6. AllFine'
    BY <1>1, <1>2, <2>4, <2>5, OneMovesQuietly
  <2> QED
    BY <1>1, <1>2, <2>6, LogsKeep
<1> QED
  BY <1>3, <1>4, ComplyTypes

(* The entry names a deed that no other entry and no other call has.       *)
LEMMA RecordKeeps ==
    ASSUME GKInv, GKTypeOK', NEW t \in Callers, Record(t)
    PROVE  AllFine' /\ LogsFine'
<1> USE DEF GKInv
<1> DEFINE n == Len(journal) + 1
<1>1. /\ UNCHANGED <<now, boot, store, revoked, caller, uses, receipts, deeds>>
      /\ job[t].stage = "record"
  BY DEF Record, At, gateUnchanged, vars
<1>2. /\ job'[t].stage = "none" /\ OnlyMoves(t)
      /\ DOMAIN journal' = DOMAIN journal \cup {n} /\ n \notin DOMAIN journal
      /\ \A i \in DOMAIN journal : journal'[i] = journal[i]
      /\ journal'[n].req = job[t].pres.req /\ journal'[n].deed = job[t].deed
  BY <1>1, RecordTypes DEF OnlyMoves
<1> HIDE DEF n
<1>3. DeedIsOwn(t) /\ HasActed(t)
  BY <1>1 DEF AllFine, ThreadFine, HasActed
<1>4. Forward
  <2>1. now \in Nat /\ \A e \in Envelopes : Taken(e) => Taken(e)'
    BY <1>1 DEF Taken, GKTypeOK, TypeOK
  <2> QED
    BY <1>1, <1>2, <2>1 DEF Forward
<1>5. AllFine'
  <2>1. ASSUME NEW s \in Callers, s # t
        PROVE  /\ HasActed(s) => \A i \in DOMAIN journal' :
                      i \in DOMAIN journal \/ journal'[i].deed # job[s].deed
               /\ Receipted(IdOf(s))' => Receipted(IdOf(s))
    <3>1. job'[s] = job[s] /\ PairFine(s, t)
      BY <1>2, <2>1 DEF OnlyMoves, AllFine
    <3>2. HasActed(s) => job[s].deed # job[t].deed
      BY <1>3, <3>1 DEF PairFine
    <3> QED
      BY <1>1, <1>2, <3>1, <3>2 DEF Receipted, IdOf
  <2> QED
    BY <1>2, <1>4, <2>1, LeftFine, OneMoves
<1>6. JournalDeeds'
  BY <1>1, <1>2, <1>3 DEF LogsFine, JournalDeeds, DeedIsOwn
<1>7. JournalHasReceipts'
  <2>1. ASSUME NEW i \in DOMAIN journal'
        PROVE  /\ deeds[journal'[i].deed].ok
               /\ deeds[journal'[i].deed].pres.req = journal'[i].req
               /\ \E k \in DOMAIN receipts :
                     receipts[k].cap = Payload[deeds[journal'[i].deed].pres.env].id
    <3>1. CASE i \in DOMAIN journal
      BY <1>2, <3>1 DEF LogsFine, JournalHasReceipts
    <3>2. CASE i = n
      BY <1>1, <1>2, <1>3, <3>2 DEF DeedIsOwn, Receipted, IdOf
    <3> QED
      BY <1>2, <3>1, <3>2
  <2>2. ASSUME NEW i \in DOMAIN journal', NEW k \in DOMAIN journal',
               journal'[i].deed = journal'[k].deed
        PROVE  i = k
    <3>1. \A j \in DOMAIN journal : journal[j].deed # journal'[n].deed
      BY <1>2, <1>3 DEF DeedIsOwn
    <3> QED
      BY <1>2, <2>2, <3>1 DEF LogsFine, JournalHasReceipts
  <2> QED
    BY <1>1, <2>1, <2>2 DEF JournalHasReceipts
<1> QED
  BY <1>1, <1>4, <1>5, <1>6, <1>7, ReceiptsKeep, DeedsKeep DEF LogsFine

(* Time, the operator and a pause touch no call. *)
LEMMA QuietKeeps ==
    ASSUME GKInv, GKTypeOK',
           now' >= now, UNCHANGED <<store, caller, job, journal, receipts, deeds>>
    PROVE  AllFine' /\ LogsFine'
<1> USE DEF GKInv
<1>1. Forward
  BY NothingWritten
<1>2. ASSUME NEW s \in Callers
      PROVE  ThreadFine(s)'
  <2>1. Receipted(IdOf(s))' <=> Receipted(IdOf(s))
    BY DEF Receipted, IdOf
  <2> QED
    BY <1>1, <2>1, OthersKeep DEF AllFine
<1>3. ASSUME NEW s \in Callers, NEW u \in Callers, s # u
      PROVE  PairFine(s, u)'
  BY <1>3, PairsKeep DEF AllFine
<1> QED
  BY <1>1, <1>2, <1>3, LogsKeep DEF AllFine

(* A restart ends the calls and forgets deeds and journal; a durable store *)
(* remembers what was taken, whatever is left of the receipts.             *)
LEMMA GKRestartKeeps ==
    ASSUME GKInv, GKTypeOK', GKRestart
    PROVE  AllFine' /\ LogsFine'
<1> USE DEF GKInv
<1>1. \A t \in Callers : job'[t].stage = "none"
  BY GKRestartTypes
<1>2. AllFine'
  BY <1>1, LeftFine DEF AllFine
<1>3. /\ journal' = <<>> /\ deeds' = <<>> /\ now' = now
      /\ Persistent => store' = store
      /\ receipts' = receipts \/ receipts' = <<>>
  BY DEF GKRestart, Restart
<1>4. JournalDeeds' /\ JournalHasReceipts' /\ BarredNeverActuates' /\ ReceiptGapExplained'
  BY <1>3 DEF JournalDeeds, JournalHasReceipts, BarredNeverActuates, ReceiptGapExplained
<1>5. OneReceiptPerCapability'
  BY <1>3 DEF LogsFine, OneReceiptPerCapability
<1>6. ReceiptsTaken'
  <2> SUFFICES ASSUME Persistent, NEW k \in DOMAIN receipts'
               PROVE  \E e \in Envelopes :
                          /\ Payload[e].consistent /\ Payload[e].id = receipts'[k].cap
                          /\ Taken(e)'
    BY DEF ReceiptsTaken, Taken
  <2>1. receipts' = receipts
    BY <1>3
  <2>2. \A e \in Envelopes : Taken(e) => Taken(e)'
    BY <1>3 DEF Taken
  <2> QED
    BY <2>1, <2>2 DEF LogsFine, ReceiptsTaken
<1> QED
  BY <1>2, <1>4, <1>5, <1>6 DEF LogsFine

LEMMA GKInvInit == GKInit => GKInv
<1> SUFFICES ASSUME GKInit PROVE GKInv
  OBVIOUS
<1>1. Inv /\ TypeOK
  BY InvInit DEF GKInit, Inv
<1>2. /\ job = [t \in Callers |-> NoJob] /\ caller = [t \in Callers |-> Idle]
      /\ journal = <<>> /\ receipts = <<>> /\ deeds = <<>>
  BY DEF GKInit, Init
<1>3. \A t \in Callers : job[t] = NoJob /\ job[t].stage = "none" /\ caller[t] = Idle
  BY <1>2 DEF NoJob
<1>4. GKTypeOK
  <2>1. job \in [Callers -> Job \cup {NoJob}]
    BY <1>2
  <2>2. \A S : <<>> \in Seq(S)
    OBVIOUS
  <2> QED
    BY <1>1, <1>2, <1>3, <2>1, <2>2 DEF GKTypeOK
<1>5. AllFine
  BY <1>3 DEF AllFine, ThreadFine, PairFine, CallerServesJob, BarredIsDenied,
     FlightIsTaken, DraftIsFirst, ReceiptedIsOver, DeedIsOwn, InFlight, HasActed
<1>6. LogsFine
  BY <1>2 DEF LogsFine, ReceiptsTaken, JournalDeeds, JournalHasReceipts,
     BarredNeverActuates, ReceiptGapExplained, OneReceiptPerCapability
<1> QED
  BY <1>1, <1>4, <1>5, <1>6 DEF GKInv

(* Every step of every thread, of the operator, of the clock and of a      *)
(* restart keeps the invariant.                                            *)
LEMMA GKInvStep == GKInv /\ [GKNext]_gkVars => GKInv'
<1> SUFFICES ASSUME GKInv, [GKNext]_gkVars PROVE GKInv'
  OBVIOUS
<1>1. GKTypeOK'
  BY GKTypeStep DEF GKInv, AllFine, ThreadFine, DraftIsFirst
<1>2. Inv'
  BY <1>1, GateInvHolds DEF GKInv
<1>3. ASSUME NEW t \in Callers, Execute(t)
      PROVE  AllFine' /\ LogsFine'
  <2>1. CASE \E p \in Presentations : Start(t, p)
    BY <1>1, <2>1, StartKeeps
  <2>2. CASE CheckSequence(t) \/ CheckRevocation(t)
    BY <1>1, <2>2, CheckKeeps
  <2>3. CASE GateValidate(t) \/ GateConsume(t) \/ GateStoreFails(t)
    BY <1>1, <2>3, GateKeeps
  <2>4. CASE Actuate(t)
    BY <1>1, <2>4, ActuateKeeps
  <2>5. CASE PrepareReceipt(t)
    BY <1>1, <2>5, PrepareKeeps
  <2>6. CASE AppendReceipt(t)
    BY <1>1, <2>6, AppendKeeps
  <2>7. CASE Comply(t)
    BY <1>1, <2>7, ComplyKeeps
  <2>8. CASE Record(t)
    BY <1>1, <2>8, RecordKeeps
  <2> QED
    BY <1>3, <2>1, <2>2, <2>3, <2>4, <2>5, <2>6, <2>7, <2>8 DEF Execute
<1>4. CASE GKTick \/ (\E c \in Ids : GKRevoke(c)) \/ UNCHANGED gkVars
  <2>1. now' >= now /\ UNCHANGED <<store, caller, job, journal, receipts, deeds>>
    BY <1>4 DEF GKTick, GKRevoke, Tick, Revoke, gkVars, GKInv, GKTypeOK, TypeOK
  <2> QED
    BY <1>1, <1>2, <2>1, QuietKeeps DEF GKInv
<1>5. CASE GKRestart
  BY <1>1, <1>2, <1>5, GKRestartKeeps DEF GKInv
<1> QED
  BY <1>1, <1>2, <1>3, <1>4, <1>5 DEF GKNext, GKInv

-----------------------------------------------------------------------------
(* The deeds: what the invariant above says of calls in flight, carried to *)
(* the actions they end in.                                                *)

(* Every action's capability is genuine and was taken in this process.     *)
DeedsTaken ==
    \A d \in DOMAIN deeds :
        Payload[deeds[d].pres.env].consistent /\ Taken(deeds[d].pres.env)

(* If the actuator has run for its capability already, the capability was  *)
(* over before this call took it.                                          *)
ActedIsOver(t) ==
    job[t].stage = "actuate" =>
        \A d \in DOMAIN deeds :
            Payload[deeds[d].pres.env].id = IdOf(t) => now > ExpiryOf(t)

DeedInv ==
    /\ DeedsTaken /\ OneActionPerLiveCapability
    /\ \A t \in Callers : ActedIsOver(t)

(* A deed has a presentation. *)
LEMMA DeedPresented ==
    ASSUME GKTypeOK, NEW d \in DOMAIN deeds
    PROVE  deeds[d].pres \in Presentations
<1>1. deeds[d] \in Deed
  BY DEF GKTypeOK
<1> QED
  BY <1>1 DEF Deed

(* Whatever happens before the next restart, time runs on and what was     *)
(* taken stays taken.                                                      *)
LEMMA TakenStays ==
    ASSUME GKTypeOK, GKTypeOK', [GKNext]_gkVars, ~GKRestart
    PROVE  now' >= now /\ \A e \in Envelopes : Taken(e) => Taken(e)'
<1>1. now \in Nat /\ now' \in Nat /\ \A e \in Envelopes : Payload[e].expires \in Nat
  BY GateAssumption DEF PayloadType, GKTypeOK, TypeOK
<1>2. now' >= now /\ (store' = store \/ (now' = now /\ Kept \subseteq store'))
  <2>1. ASSUME NEW t \in Callers, Execute(t)
        PROVE  now' = now /\ (store' = store \/ Kept \subseteq store')
    BY <2>1 DEF Execute, Start, Begin, CheckSequence, CheckRevocation, GateValidate, Validate,
       GateConsume, ConsumeOnce, GateStoreFails, StoreFails, Actuate, PrepareReceipt,
       AppendReceipt, Comply, Record, gateUnchanged, vars
  <2>2. CASE GKTick \/ (\E c \in Ids : GKRevoke(c)) \/ UNCHANGED gkVars
    BY <1>1, <2>2 DEF GKTick, GKRevoke, Tick, Revoke, gkVars
  <2> QED
    BY <1>1, <2>1, <2>2 DEF GKNext
<1> QED
  BY <1>1, <1>2 DEF Taken, Kept, Grant

(* The actuator runs in Actuate only, and a call comes to it by consuming. *)
LEMMA ActingSteps ==
    ASSUME GKTypeOK, GKTypeOK', [GKNext]_gkVars, ~GKRestart,
           \A t \in Callers : ~Actuate(t)
    PROVE  /\ DOMAIN deeds' = DOMAIN deeds
           /\ \A d \in DOMAIN deeds : deeds'[d].pres = deeds[d].pres
           /\ \A t \in Callers :
                 job'[t].stage = "actuate" =>
                     \/ job'[t] = job[t]
                     \/ /\ GateConsume(t) /\ uses' # uses /\ caller'[t] = Idle
                        /\ job' = [job EXCEPT ![t].stage = "actuate"]
<1>1. ASSUME NEW t \in Callers, Execute(t)
      PROVE  /\ DOMAIN deeds' = DOMAIN deeds
             /\ \A d \in DOMAIN deeds : deeds'[d].pres = deeds[d].pres
             /\ \A s \in Callers : s # t => job'[s] = job[s]
             /\ \/ job'[t].stage # "actuate"
                \/ job'[t] = job[t]
                \/ /\ GateConsume(t) /\ uses' # uses /\ caller'[t] = Idle
                   /\ job' = [job EXCEPT ![t].stage = "actuate"]
  <2>1. CASE \E p \in Presentations : Start(t, p)
    <3>1. PICK p \in Presentations : Start(t, p)
      BY <2>1
    <3> DEFINE j == [stage |-> "sequence", pres |-> p, current |-> now,
                     barred |-> Barred(p.req), deed |-> 0, draft |-> NoDraft]
    <3>2. job' = [job EXCEPT ![t] = j] /\ UNCHANGED deeds
      BY <3>1 DEF Start
    <3>3. j.stage # "actuate"
      OBVIOUS
    <3> HIDE DEF j
    <3> QED
      BY <3>2, <3>3 DEF GKTypeOK
  <2>2. CASE CheckSequence(t) \/ CheckRevocation(t)
    <3>1. /\ UNCHANGED deeds /\ job[t].stage \in Stages
          /\ Abandon(t) \/ GoTo(t, "revocation") \/ GoTo(t, "gate")
      BY <2>2 DEF CheckSequence, CheckRevocation, At, Stages
    <3>2. CASE Abandon(t)
      BY <3>1, <3>2, Returns DEF Abandon
    <3>3. ASSUME NEW st \in {"revocation", "gate"}, GoTo(t, st)
          PROVE  job'[t].stage = st /\ \A s \in Callers : s # t => job'[s] = job[s]
      BY <3>1, <3>3, GoesTo DEF GoTo, Stages
    <3> QED
      BY <3>1, <3>2, <3>3
  <2>3. CASE GateValidate(t) \/ GateConsume(t) \/ GateStoreFails(t)
    <3>1. /\ job[t].stage = "gate" /\ UNCHANGED deeds
          /\ \/ Return(t)
             \/ UNCHANGED job
             \/ /\ ConsumeOnce(t) /\ uses' # uses /\ caller'[t] = Idle
                /\ job' = [job EXCEPT ![t].stage = "actuate"]
      BY <2>3, GateSteps
    <3>2. CASE Return(t)
      BY <3>1, <3>2, Returns
    <3>3. CASE UNCHANGED job
      BY <3>1, <3>3
    <3>4. CASE /\ ConsumeOnce(t) /\ uses' # uses /\ caller'[t] = Idle
               /\ job' = [job EXCEPT ![t].stage = "actuate"]
      <4>1. GateConsume(t)
        BY <3>1, <3>4, <2>3, GateSteps DEF GateConsume, At, GoTo, NoJob
      <4> QED
        BY <3>1, <3>4, <4>1 DEF GKTypeOK
    <3> QED
      BY <3>1, <3>2, <3>3, <3>4
  <2>4. CASE PrepareReceipt(t)
    <3>1. /\ job[t].stage = "receipt" /\ gateUnchanged /\ UNCHANGED <<journal, receipts>>
          /\ Drafts(t) \/ Refuses(t)
      BY <2>4, PrepareSplits
    <3>2. CASE Drafts(t)
      <4>1. UNCHANGED deeds
        BY <3>2 DEF Drafts
      <4>2. job'[t].stage = "append" /\ \A s \in Callers : s # t => job'[s] = job[s]
        BY <3>1, <3>2, DraftTypes
      <4> QED
        BY <4>1, <4>2
    <3>3. CASE Refuses(t)
      <4>1. PICK why \in Nat \cup {Misreported} : RefuseReceipt(t, why)
        BY <3>3 DEF Refuses, GKTypeOK, TypeOK
      <4> QED
        BY <3>1, <4>1, RefusalTypes, Returns DEF RefuseReceipt
    <3> QED
      BY <3>1, <3>2, <3>3
  <2>5. CASE AppendReceipt(t)
    <3>1. job[t].stage = "append" /\ UNCHANGED deeds
          /\ job' = [job EXCEPT ![t].stage = "comply", ![t].draft = NoDraft]
      BY <2>5 DEF AppendReceipt, At
    <3>2. job[t] \in Job
      BY <3>1, JobAtStage DEF Stages
    <3>3. job'[t] = [job[t] EXCEPT !.stage = "comply", !.draft = NoDraft]
      BY <3>1 DEF GKTypeOK
    <3>4. job'[t].stage = "comply"
      BY <3>2, <3>3 DEF Job
    <3> QED
      BY <3>1, <3>4 DEF GKTypeOK
  <2>6. CASE Comply(t)
    BY <2>6, ComplyTypes DEF Comply
  <2>7. CASE Record(t)
    BY <2>7, RecordTypes DEF Record
  <2> QED
    BY <1>1, <2>1, <2>2, <2>3, <2>4, <2>5, <2>6, <2>7 DEF Execute
<1>2. CASE GKTick \/ (\E c \in Ids : GKRevoke(c)) \/ UNCHANGED gkVars
  BY <1>2 DEF GKTick, GKRevoke, gkVars
<1> QED
  BY <1>1, <1>2 DEF GKNext

(* Among the deeds so far there is nothing new. *)
LEMMA DeedsStay ==
    ASSUME GKInv, GKInv', DeedInv, [GKNext]_gkVars, ~GKRestart,
           \A d \in DOMAIN deeds : deeds'[d].pres = deeds[d].pres
    PROVE  \A i, k \in DOMAIN deeds :
               /\ Payload[deeds'[i].pres.env].consistent /\ Taken(deeds[i].pres.env)'
               /\ i # k /\ Payload[deeds[i].pres.env].id = Payload[deeds[k].pres.env].id =>
                     now' > Payload[deeds[k].pres.env].expires
<1> USE DEF GKInv
<1>1. now \in Nat /\ now' \in Nat /\ now' >= now
  BY TakenStays DEF GKTypeOK, TypeOK
<1>2. ASSUME NEW i \in DOMAIN deeds
      PROVE  /\ deeds[i].pres.env \in Envelopes
             /\ Payload[deeds[i].pres.env].expires \in Nat
  BY DeedPresented, Presented
<1>3. ASSUME NEW i \in DOMAIN deeds
      PROVE  Payload[deeds'[i].pres.env].consistent /\ Taken(deeds[i].pres.env)'
  <2>1. /\ Payload[deeds[i].pres.env].consistent /\ Taken(deeds[i].pres.env)
        /\ deeds[i].pres.env \in Envelopes /\ deeds'[i].pres = deeds[i].pres
    BY <1>2 DEF DeedInv, DeedsTaken
  <2>2. \A e \in Envelopes : Taken(e) => Grant(e) \in store' \/ now' > Payload[e].expires
    BY TakenStays DEF Taken
  <2> QED
    BY <2>1, <2>2 DEF Taken
<1> QED
  BY <1>1, <1>2, <1>3 DEF DeedInv, OneActionPerLiveCapability

(* Two envelopes of one genuine capability expire together. *)
LEMMA SameIdExpiresTogether ==
    ASSUME GKTypeOK, NEW d \in DOMAIN deeds, NEW p \in Presentations,
           Payload[deeds[d].pres.env].consistent, Payload[p.env].consistent,
           Payload[deeds[d].pres.env].id = Payload[p.env].id
    PROVE  Payload[deeds[d].pres.env].expires = Payload[p.env].expires
  BY DeedPresented, SameIdSameExpiry

(* The actuator runs: an earlier deed of its capability means that this    *)
(* call, and every other one that waits to act for it, took it too late.   *)
LEMMA ActuateDeeds ==
    ASSUME GKInv, GKInv', DeedInv, [GKNext]_gkVars, ~GKRestart,
           NEW t \in Callers, Actuate(t)
    PROVE  DeedInv'
<1> USE DEF GKInv
<1> DEFINE n == Len(deeds) + 1
           e == EnvOf(t)
<1>1. now' = now /\ job[t].stage = "actuate" /\ store' = store
  BY DEF Actuate, At, gateUnchanged, vars
<1>2. /\ DOMAIN deeds' = DOMAIN deeds \cup {n} /\ n \notin DOMAIN deeds
      /\ \A d \in DOMAIN deeds : deeds'[d] = deeds[d]
      /\ deeds'[n].pres = job[t].pres
  <2>1. PICK ok \in BOOLEAN :
            deeds' = Append(deeds, [pres |-> job[t].pres, ok |-> ok,
                                    barred |-> job[t].barred, refused |-> Open])
    BY DEF Actuate
  <2> DEFINE d == [pres |-> job[t].pres, ok |-> ok, barred |-> job[t].barred, refused |-> Open]
  <2>2. d.pres = job[t].pres
    OBVIOUS
  <2>3. deeds' = Append(deeds, d)
    BY <2>1
  <2> HIDE DEF d
  <2> QED
    BY <2>2, <2>3 DEF GKTypeOK
<1> HIDE DEF n
<1>3. job[t].pres \in Presentations /\ e \in Envelopes /\ Payload[e].expires \in Nat
  BY <1>1, JobAtStage, Presented DEF Stages, EnvOf
<1>4. Payload[e].consistent /\ Taken(e)
  BY <1>1 DEF AllFine, ThreadFine, FlightIsTaken, InFlight
<1>5. Grant(e) \in store' \/ now' > Payload[e].expires
  BY <1>1, <1>4 DEF Taken
<1>6. \A d \in DOMAIN deeds :
          Payload[deeds[d].pres.env].id = Payload[e].id =>
              now > Payload[e].expires /\ Payload[deeds[d].pres.env].expires = Payload[e].expires
  <2> SUFFICES ASSUME NEW d \in DOMAIN deeds, Payload[deeds[d].pres.env].id = Payload[e].id
               PROVE  /\ now > Payload[e].expires
                      /\ Payload[deeds[d].pres.env].expires = Payload[e].expires
    OBVIOUS
  <2>1. now > Payload[e].expires
    BY <1>1 DEF DeedInv, ActedIsOver, IdOf, ExpiryOf, EnvOf
  <2>2. Payload[deeds[d].pres.env].consistent
    BY DEF DeedInv, DeedsTaken
  <2> QED
    BY <1>3, <1>4, <2>1, <2>2, SameIdExpiresTogether DEF EnvOf
<1>7. DeedsTaken'
  <2>1. ASSUME NEW d \in DOMAIN deeds
        PROVE  Payload[deeds'[d].pres.env].consistent /\ Taken(deeds[d].pres.env)'
    BY <1>2, DeedsStay
  <2> QED
    BY <1>1, <1>2, <1>4, <1>5, <2>1 DEF DeedsTaken, Taken, EnvOf
<1>8. OneActionPerLiveCapability'
  <2> SUFFICES ASSUME NEW i \in DOMAIN deeds', NEW k \in DOMAIN deeds', i # k,
                      Payload[deeds'[i].pres.env].id = Payload[deeds'[k].pres.env].id
               PROVE  now > Payload[deeds'[k].pres.env].expires
    BY <1>1 DEF OneActionPerLiveCapability
  <2>1. CASE i \in DOMAIN deeds /\ k \in DOMAIN deeds
    BY <1>1, <1>2, <2>1, DeedsStay
  <2>2. CASE i = n \/ k = n
    BY <1>2, <1>6, <2>2 DEF EnvOf
  <2> QED
    BY <1>2, <2>1, <2>2
<1>9. ASSUME NEW s \in Callers
      PROVE  ActedIsOver(s)'
  <2> SUFFICES ASSUME job'[s].stage = "actuate", NEW d \in DOMAIN deeds',
                      Payload[deeds'[d].pres.env].id = IdOf(s)'
               PROVE  now > ExpiryOf(s)'
    BY <1>1 DEF ActedIsOver
  <2>1. s # t /\ job'[s] = job[s]
    BY ActuateTypes
  <2>2. IdOf(s)' = IdOf(s) /\ ExpiryOf(s)' = ExpiryOf(s)
    BY <2>1 DEF IdOf, ExpiryOf, EnvOf
  <2>3. CASE d \in DOMAIN deeds
    BY <1>2, <2>1, <2>2, <2>3 DEF DeedInv, ActedIsOver
  <2>4. CASE d = n
    <3>1. PairFine(t, s)
      BY <2>1 DEF AllFine
    <3> QED
      BY <1>1, <1>2, <2>1, <2>2, <2>4, <3>1 DEF PairFine, InFlight, IdOf
  <2> QED
    BY <1>2, <2>3, <2>4
<1> QED
  BY <1>7, <1>8, <1>9 DEF DeedInv

(* The consumption that lets a call on to the actuator found the store     *)
(* without the capability: every deed under it is older than its expiry.   *)
LEMMA ConsumeLate ==
    ASSUME GKInv, GKInv', DeedInv, [GKNext]_gkVars, ~GKRestart,
           NEW t \in Callers, GateConsume(t), uses' # uses,
           job' = [job EXCEPT ![t].stage = "actuate"], caller'[t] = Idle,
           NEW d \in DOMAIN deeds, Payload[deeds[d].pres.env].id = IdOf(t)
    PROVE  now > ExpiryOf(t)
<1> USE DEF GKInv
<1> DEFINE e == EnvOf(t)
           f == deeds[d].pres.env
<1>1. job[t].stage = "gate" /\ caller[t] # Idle
  BY GateSteps
<1>2. caller[t].pc = "consume" /\ caller[t].pres = job[t].pres
  BY <1>1 DEF GateConsume, ConsumeOnce, AllFine, ThreadFine, CallerServesJob
<1>3. ~Holds(Kept, e)
  BY <1>2 DEF GateConsume, ConsumeOnce, EnvOf
<1>4. /\ e \in Envelopes /\ job[t].pres \in Presentations /\ now \in Nat
      /\ Payload[e].expires \in Nat
  BY <1>1, JobAtStage, Presented DEF Stages, EnvOf, GKTypeOK, TypeOK
<1>5. Payload[e].consistent
  <2>1. Honest(caller[t])
    BY <1>1 DEF Inv, CallersHonest
  <2> QED
    BY <1>1, <1>2, <2>1 DEF Honest, EnvOf
<1>6. Payload[f].consistent /\ Taken(f) /\ deeds[d].pres \in Presentations
  BY DeedPresented DEF DeedInv, DeedsTaken
<1>7. Payload[f].expires = Payload[e].expires /\ Grant(f) = Grant(e)
  BY <1>4, <1>5, <1>6, SameIdSameExpiry DEF IdOf, EnvOf
<1>8. Grant(e) \notin Kept
  BY <1>3 DEF Holds, Grant
<1> QED
  BY <1>4, <1>6, <1>7, <1>8 DEF Taken, Kept, Grant, ExpiryOf

(* Every step keeps what is said of the deeds. *)
LEMMA DeedInvStep == GKInv /\ GKInv' /\ DeedInv /\ [GKNext]_gkVars => DeedInv'
<1> SUFFICES ASSUME GKInv, GKInv', DeedInv, [GKNext]_gkVars PROVE DeedInv'
  OBVIOUS
<1>1. CASE GKRestart
  <2>1. deeds' = <<>> /\ \A t \in Callers : job'[t].stage = "none"
    BY <1>1, GKRestartTypes DEF GKInv, GKRestart
  <2> QED
    BY <2>1 DEF DeedInv, DeedsTaken, OneActionPerLiveCapability, ActedIsOver
<1>2. CASE ~GKRestart /\ \E t \in Callers : Actuate(t)
  BY <1>2, ActuateDeeds
<1>3. CASE ~GKRestart /\ \A t \in Callers : ~Actuate(t)
  <2>1. /\ DOMAIN deeds' = DOMAIN deeds
        /\ \A d \in DOMAIN deeds : deeds'[d].pres = deeds[d].pres
    BY <1>3, ActingSteps DEF GKInv
  <2>2. DeedsTaken'
    <3>1. ASSUME NEW d \in DOMAIN deeds
          PROVE  Payload[deeds'[d].pres.env].consistent /\ Taken(deeds[d].pres.env)'
      BY <1>3, <2>1, DeedsStay
    <3> QED
      BY <2>1, <3>1 DEF DeedsTaken, Taken
  <2>3. OneActionPerLiveCapability'
    BY <1>3, <2>1, DeedsStay DEF OneActionPerLiveCapability
  <2>4. ASSUME NEW t \in Callers
        PROVE  ActedIsOver(t)'
    <3> SUFFICES ASSUME job'[t].stage = "actuate", NEW d \in DOMAIN deeds,
                        Payload[deeds[d].pres.env].id = IdOf(t)'
                 PROVE  now' > ExpiryOf(t)'
      BY <2>1 DEF ActedIsOver
    <3>1. now \in Nat /\ now' \in Nat /\ now' >= now
      BY <1>3, TakenStays DEF GKInv, GKTypeOK, TypeOK
    <3>2. CASE job'[t] = job[t]
      <4>1. IdOf(t)' = IdOf(t) /\ ExpiryOf(t)' = ExpiryOf(t)
        BY <3>2 DEF IdOf, ExpiryOf, EnvOf
      <4>2. ExpiryOf(t) \in Nat
        BY <3>2, JobAtStage, Presented DEF GKInv, Stages, ExpiryOf, EnvOf
      <4>3. now > ExpiryOf(t)
        BY <3>2, <4>1 DEF DeedInv, ActedIsOver
      <4> QED
        BY <3>1, <4>1, <4>2, <4>3
    <3>3. CASE /\ GateConsume(t) /\ uses' # uses /\ caller'[t] = Idle
               /\ job' = [job EXCEPT ![t].stage = "actuate"]
      <4>1. job[t].stage = "gate"
        BY <3>3 DEF GateConsume, At
      <4>2. job'[t].pres = job[t].pres
        BY <3>3, <4>1, GoesTo DEF GKInv, Stages
      <4>3. IdOf(t)' = IdOf(t) /\ ExpiryOf(t)' = ExpiryOf(t)
        BY <4>2 DEF IdOf, ExpiryOf, EnvOf
      <4>4. ExpiryOf(t) \in Nat
        BY <4>1, JobAtStage, Presented DEF GKInv, Stages, ExpiryOf, EnvOf
      <4>5. now > ExpiryOf(t)
        BY <1>3, <3>3, <4>3, ConsumeLate
      <4> QED
        BY <3>1, <4>3, <4>4, <4>5
    <3> QED
      BY <1>3, <3>2, <3>3, ActingSteps DEF GKInv
  <2> QED
    BY <2>2, <2>3, <2>4 DEF DeedInv
<1> QED
  BY <1>1, <1>2, <1>3

-----------------------------------------------------------------------------
(* The results. *)

(* Every reachable state of the gatekeeper is well typed, and a thread     *)
(* waits in the gate only while execute waits for it.                      *)
THEOREM GatekeeperTypeCorrect == GKSpec => []GKTypeOK
<1>1. GKInv => GKTypeOK
  BY DEF GKInv
<1> QED
  BY <1>1, GKInvInit, GKInvStep, PTL DEF GKSpec

(* A call that a complete forbidden combination bars when it begins never  *)
(* reaches the actuator.                                                   *)
THEOREM BarredIsStopped == GKSpec => []BarredNeverActuates
<1>1. GKInv => BarredNeverActuates
  BY DEF GKInv, LogsFine
<1> QED
  BY <1>1, GKInvInit, GKInvStep, PTL DEF GKSpec

(* However many threads replay a capability and whatever becomes of the    *)
(* action, the actuator runs a second time under it only after its expiry. *)
THEOREM LiveCapabilityActsOnce == GKSpec => []OneActionPerLiveCapability
<1>1. GKInit => DeedInv
  BY DEF GKInit, DeedInv, DeedsTaken, OneActionPerLiveCapability, ActedIsOver, NoJob
<1>2. DeedInv => OneActionPerLiveCapability
  BY DEF DeedInv
<1> QED
  BY <1>1, <1>2, GKInvInit, GKInvStep, DeedInvStep, PTL DEF GKSpec

(* With a durable store, the receipt of an action is refused only for      *)
(* malformed arguments or after the capability's expiry: no race of the    *)
(* threads for the log costs an action its receipt.                        *)
THEOREM GapsExplained == GKSpec => []ReceiptGapExplained
<1>1. GKInv => ReceiptGapExplained
  BY DEF GKInv, LogsFine
<1> QED
  BY <1>1, GKInvInit, GKInvStep, PTL DEF GKSpec

(* The log never holds two receipts of one capability, although nothing    *)
(* locks it between the check for the earlier one and the append.          *)
THEOREM OneReceiptEach == GKSpec => []OneReceiptPerCapability
<1>1. GKInv => OneReceiptPerCapability
  BY DEF GKInv, LogsFine
<1> QED
  BY <1>1, GKInvInit, GKInvStep, PTL DEF GKSpec

(* Each journal entry is for a deed of its own that ended well and has its *)
(* receipt, whatever ran between the deed, the receipt and the entry.      *)
THEOREM JournalIsReceipted == GKSpec => []JournalHasReceipts
<1>1. GKInv => JournalHasReceipts
  BY DEF GKInv, LogsFine
<1> QED
  BY <1>1, GKInvInit, GKInvStep, PTL DEF GKSpec

(* What the gate promises alone it still promises inside execute: live     *)
(* capabilities are consumed once, and revocations are honoured.           *)
THEOREM GateInsideGatekeeper == GKSpec => [](ReuseOnlyAfterExpiry /\ RevocationHonoured)
<1>1. GKInv => ReuseOnlyAfterExpiry /\ RevocationHonoured
  BY DEF GKInv, Inv
<1> QED
  BY <1>1, GKInvInit, GKInvStep, PTL DEF GKSpec

(* A step inside execute is a step of the gate, or none, or gives a call   *)
(* up and so neither spends a capability nor moves the clock.              *)
LEMMA GatekeeperStepsGate ==
    [GKNext]_gkVars => [Next]_vars \/ UNCHANGED <<now, uses>>
<1> SUFFICES ASSUME [GKNext]_gkVars PROVE [Next]_vars \/ UNCHANGED <<now, uses>>
  OBVIOUS
<1>1. ASSUME NEW t \in Callers, NEW p \in Presentations, Start(t, p) PROVE Next
  BY <1>1 DEF Start, Next, Authorize
<1>2. ASSUME NEW t \in Callers, CheckSequence(t) \/ CheckRevocation(t)
      PROVE  UNCHANGED <<now, uses>>
  BY <1>2 DEF CheckSequence, CheckRevocation
<1>3. ASSUME NEW t \in Callers, GateValidate(t) \/ GateConsume(t) \/ GateStoreFails(t)
      PROVE  Next
  BY <1>3 DEF GateValidate, GateConsume, GateStoreFails, Next, Authorize
<1>4. ASSUME NEW t \in Callers, Actuate(t) \/ PrepareReceipt(t) \/ AppendReceipt(t)
                                \/ Comply(t) \/ Record(t)
      PROVE  UNCHANGED vars
  BY <1>4 DEF Actuate, PrepareReceipt, AppendReceipt, Comply, Record, gateUnchanged
<1>5. ASSUME NEW c \in Ids, GKRevoke(c) PROVE Next
  BY <1>5 DEF GKRevoke, Next
<1>6. CASE GKTick \/ GKRestart
  BY <1>6 DEF GKTick, GKRestart, Next
<1>7. CASE UNCHANGED gkVars
  BY <1>7 DEF gkVars, vars
<1> QED
  BY <1>1, <1>2, <1>3, <1>4, <1>5, <1>6, <1>7 DEF GKNext, Execute

(* With a durable store the action boundary too spends capabilities as the *)
(* one-time ledger does: the calls that execute gives up between its       *)
(* checks and its gate, and its restarts, spend nothing and forget nothing.*)
THEOREM GatekeeperIsLedger ==
    ASSUME Persistent
    PROVE  GKSpec => ImplementsLedger
<1>1. GKInit => Ledger!LedgerInit
  BY DEF GKInit, Init, Ledger!LedgerInit
<1>2. Inv /\ Inv' /\ [GKNext]_gkVars => [Ledger!LedgerNext]_(Ledger!ledgerVars)
  <2> SUFFICES ASSUME Inv, Inv', [GKNext]_gkVars
               PROVE  [Ledger!LedgerNext]_(Ledger!ledgerVars)
    OBVIOUS
  <2>1. CASE [Next]_vars
    BY <2>1, LedgerStep
  <2>2. CASE UNCHANGED <<now, uses>>
    BY <2>2 DEF Ledger!ledgerVars
  <2> QED
    BY <2>1, <2>2, GatekeeperStepsGate
<1>3. GKInv => Inv
  BY DEF GKInv
<1> QED
  BY <1>1, <1>2, <1>3, GKInvInit, GKInvStep, PTL
     DEF GKSpec, ImplementsLedger, Ledger!LedgerSpec
=============================================================================
