---------------------------- MODULE GateServiceProofs ----------------------------
(***************************************************************************)
(* The receipt log of the HTTP service, for any number of threads,         *)
(* capabilities, failing writes and restarts: the chain is valid at every  *)
(* instant, in memory and on disk; an answered receipt is on disk for      *)
(* good; and a receipt refused as a duplicate is on disk already.          *)
(*                                                                         *)
(* What the gate does is of no importance here: its steps leave the log,   *)
(* the file and the lock alone.  The argument is the lock's: only its      *)
(* holder has a draft, so the draft still names the last receipt and a     *)
(* capability without one; and while nobody holds the lock and no write    *)
(* has failed, the file is the log.                                        *)
(***************************************************************************)
EXTENDS GateService, ActionGateProofs

Busy(t) == serving[t] # None /\ serving[t].stage \in {"append", "persist"}

IdOf(t) == Payload[serving[t].env].id

LogShape ==
    /\ issued \subseteq Envelopes /\ known \subseteq Envelopes
    /\ serving \in [Callers -> Serving \cup {None}]
    /\ log \in Seq(Receipt) /\ file \in Seq(Receipt)

LockHeld == \A t \in Callers : Busy(t) <=> lock = t

Drafts ==
    \A t \in Callers :
        /\ At(t, "append") =>
              /\ serving[t].draft \in Receipt /\ serving[t].draft.cap = IdOf(t)
              /\ serving[t].draft.prev = Len(log) /\ ~HasReceipt(log, IdOf(t))
        /\ At(t, "persist") => HasReceipt(log, IdOf(t))

Saved == unsaved \/ unread \/ (lock = Free => file = log)

Mechanics == LogShape /\ LockHeld /\ Drafts

ServiceInv ==
    /\ Mechanics
    /\ ChainAlwaysValid /\ AcknowledgedSurvives
    /\ Saved /\ DuplicateMeansDurable

-----------------------------------------------------------------------------

LEMMA ServingShape ==
    ASSUME LogShape, NEW t \in Callers
    PROVE  \/ serving[t] = None
           \/ serving[t] # None /\ serving[t] \in Serving /\ serving[t].env \in Envelopes
<1>1. serving[t] \in Serving \cup {None} /\ None \notin Serving
  BY DEF LogShape, None, Serving
<1> QED
  BY <1>1 DEF Serving

LEMMA IdsOfEnvelopes == \A e \in Envelopes : Payload[e].id \in Ids
  BY DEF Ids

LEMMA ServiceInvInit == ServiceInit => ServiceInv
<1> SUFFICES ASSUME ServiceInit PROVE ServiceInv
  OBVIOUS
<1>1. /\ \A t \in Callers : serving[t] = None
      /\ serving \in [Callers -> Serving \cup {None}]
      /\ log = <<>> /\ file = <<>> /\ lock = Free
      /\ issued = {} /\ known = {} /\ acked = {} /\ duplicate = {}
  BY DEF ServiceInit
<1>2. Mechanics
  BY <1>1, ServiceAssumption DEF Mechanics, LogShape, LockHeld, Drafts, Busy, At
<1>3. ChainAlwaysValid
  BY <1>1 DEF ChainAlwaysValid, ValidChain
<1>4. AcknowledgedSurvives /\ Saved /\ DuplicateMeansDurable
  BY <1>1 DEF AcknowledgedSurvives, Saved, DuplicateMeansDurable
<1> QED
  BY <1>2, <1>3, <1>4 DEF ServiceInv

-----------------------------------------------------------------------------
(* The steps away from the log: whoever moves has nothing to do with the   *)
(* lock, before and after.                                                 *)
Aside ==
    /\ UNCHANGED <<log, file, lock, acked, unsaved, unread>>
    /\ issued' \subseteq Envelopes /\ known' \subseteq Envelopes
    /\ serving' \in [Callers -> Serving \cup {None}]
    /\ \A t \in Callers : serving'[t] = serving[t] \/ (~Busy(t) /\ ~Busy(t)')

LEMMA AsideKeepsMechanics == ASSUME Mechanics, Aside PROVE Mechanics'
<1>1. LogShape'
  BY DEF Mechanics, LogShape, Aside
<1>2. LockHeld'
  BY DEF Mechanics, LockHeld, Aside, Busy
<1>3. Drafts'
  <2> SUFFICES ASSUME NEW t \in Callers
               PROVE  /\ At(t, "append")' =>
                            /\ serving'[t].draft \in Receipt /\ serving'[t].draft.cap = IdOf(t)'
                            /\ serving'[t].draft.prev = Len(log') /\ ~HasReceipt(log', IdOf(t)')
                      /\ At(t, "persist")' => HasReceipt(log', IdOf(t)')
    BY DEF Drafts, HasReceipt
  <2>1. CASE serving'[t] = serving[t]
    BY <2>1 DEF Mechanics, Drafts, Aside, At, IdOf, HasReceipt
  <2>2. CASE ~Busy(t)'
    BY <2>2 DEF Busy, At
  <2> QED
    BY <2>1, <2>2 DEF Aside
<1> QED
  BY <1>1, <1>2, <1>3 DEF Mechanics

(* A request is at, or moves to, a position that is not the lock's. *)
LEMMA MovesAside ==
    ASSUME LogShape, NEW t \in Callers, ~Busy(t),
           NEW op \in {"verify", "run", "receipt"}, NEW stage \in {"issued", "gate", "lock"},
           NEW e \in Envelopes,
           serving' = [serving EXCEPT ![t] = Request(op, stage, e)]
    PROVE  /\ serving' \in [Callers -> Serving \cup {None}]
           /\ \A s \in Callers : serving'[s] = serving[s] \/ (~Busy(s) /\ ~Busy(s)')
<1>1. Request(op, stage, e) \in Serving /\ Request(op, stage, e).stage = stage
  BY DEF Request, Serving
<1>2. serving' \in [Callers -> Serving \cup {None}]
  BY <1>1 DEF LogShape
<1>3. \A s \in Callers : s # t => serving'[s] = serving[s]
  BY DEF LogShape
<1>4. ~Busy(t)'
  BY <1>1 DEF LogShape, Busy
<1> QED
  BY <1>2, <1>3, <1>4

LEMMA AnswersAside ==
    ASSUME LogShape, NEW t \in Callers, ~Busy(t), Answer(t)
    PROVE  /\ serving' \in [Callers -> Serving \cup {None}]
           /\ \A s \in Callers : serving'[s] = serving[s] \/ (~Busy(s) /\ ~Busy(s)')
  BY DEF LogShape, Answer, Busy

LEMMA GoesAside ==
    ASSUME LogShape, NEW t \in Callers, ~Busy(t), serving[t] # None,
           NEW stage \in {"issued", "gate", "lock"}, GoTo(t, stage)
    PROVE  /\ serving' \in [Callers -> Serving \cup {None}]
           /\ \A s \in Callers : serving'[s] = serving[s] \/ (~Busy(s) /\ ~Busy(s)')
<1>1. serving[t] \in Serving
  BY ServingShape
<1> DEFINE next == [serving[t] EXCEPT !.stage = stage]
<1>2. next \in Serving /\ next.stage = stage
  BY <1>1 DEF Serving
<1>3. serving' = [serving EXCEPT ![t] = next]
  BY DEF GoTo
<1> HIDE DEF next
<1>4. serving' \in [Callers -> Serving \cup {None}] /\ serving'[t] = next
      /\ \A s \in Callers : s # t => serving'[s] = serving[s]
  BY <1>2, <1>3 DEF LogShape
<1> QED
  BY <1>2, <1>4 DEF Busy

AsideStep ==
    \/ \E e \in Envelopes : AuthorizeRequest(e)
    \/ \E t \in Callers : \/ VerifyRequest(t) \/ ReceiptRequest(t) \/ RunRequest(t)
                          \/ RunGate(t) \/ GateStep(t) \/ GateConsumes(t)
                          \/ GateStoreFails(t)
    \/ ServiceTick
    \/ UNCHANGED serviceVars

LEMMA StepsAside == ASSUME Mechanics, AsideStep PROVE Aside /\ UNCHANGED duplicate
<1>0. LogShape
  BY DEF Mechanics
<1> DEFINE Stays == /\ serving' \in [Callers -> Serving \cup {None}]
                    /\ \A s \in Callers :
                          serving'[s] = serving[s] \/ (~Busy(s) /\ ~Busy(s)')
           Quiet == UNCHANGED <<log, file, lock, acked, unsaved, unread, duplicate>>
<1>1. UNCHANGED serving => Stays
  BY <1>0 DEF LogShape
<1>2. \A t \in Callers : serving[t] = None => ~Busy(t)
  BY DEF Busy
<1>3. ASSUME NEW e \in Envelopes, AuthorizeRequest(e) PROVE Aside /\ UNCHANGED duplicate
  <2>1. Quiet /\ UNCHANGED serving
    BY <1>3 DEF AuthorizeRequest, historyUnchanged
  <2>2. issued' \subseteq Envelopes /\ known' \subseteq Envelopes
    BY <1>0, <1>3 DEF AuthorizeRequest, Issue, LogShape
  <2> QED
    BY <1>1, <2>1, <2>2 DEF Aside
<1>4. ASSUME NEW t \in Callers, VerifyRequest(t) PROVE Aside /\ UNCHANGED duplicate
  <2>1. Quiet /\ UNCHANGED <<issued, known>> /\ serving[t] = None
    BY <1>4 DEF VerifyRequest, historyUnchanged
  <2>2. PICK e \in Envelopes :
           serving' = [serving EXCEPT ![t] = Request("verify", "gate", e)]
    BY <1>0, <1>4 DEF VerifyRequest, LogShape
  <2>3. Stays
    BY <1>0, <1>2, <2>1, <2>2, MovesAside
  <2> QED
    BY <1>0, <2>1, <2>3 DEF Aside, LogShape
<1>5. ASSUME NEW t \in Callers, ReceiptRequest(t) PROVE Aside /\ UNCHANGED duplicate
  <2>1. Quiet /\ UNCHANGED <<issued, known>> /\ serving[t] = None
    BY <1>5 DEF ReceiptRequest, historyUnchanged
  <2>2. PICK e \in Envelopes :
           serving' = [serving EXCEPT ![t] = Request("receipt", "lock", e)]
    BY <1>0, <1>5 DEF ReceiptRequest, LogShape, Request
  <2>3. Stays
    BY <1>0, <1>2, <2>1, <2>2, MovesAside
  <2> QED
    BY <1>0, <2>1, <2>3 DEF Aside, LogShape
<1>6. ASSUME NEW t \in Callers, RunRequest(t) PROVE Aside /\ UNCHANGED duplicate
  <2>1. Quiet /\ UNCHANGED known /\ serving[t] = None
    BY <1>6 DEF RunRequest, historyUnchanged
  <2>2. PICK e \in Envelopes :
           /\ Issue(e)
           /\ serving' = [serving EXCEPT ![t] = Request("run", "issued", e)]
    BY <1>6 DEF RunRequest
  <2>3. Stays
    BY <1>0, <1>2, <2>1, <2>2, MovesAside
  <2>4. issued' \subseteq Envelopes
    BY <1>0, <2>2 DEF Issue, LogShape
  <2> QED
    BY <1>0, <2>1, <2>3, <2>4 DEF Aside, LogShape
<1>7. ASSUME NEW t \in Callers, RunGate(t) PROVE Aside /\ UNCHANGED duplicate
  <2>1. Quiet /\ UNCHANGED <<issued, known>>
    BY <1>7 DEF RunGate, historyUnchanged
  <2>2. serving[t] # None /\ ~Busy(t) /\ GoTo(t, "gate")
    BY <1>7 DEF RunGate, At, Busy
  <2>3. Stays
    BY <1>0, <2>2, GoesAside
  <2> QED
    BY <1>0, <2>1, <2>3 DEF Aside, LogShape
<1>8. ASSUME NEW t \in Callers, GateStep(t) \/ GateConsumes(t) \/ GateStoreFails(t)
      PROVE  Aside /\ UNCHANGED duplicate
  <2>1. Quiet /\ UNCHANGED <<issued, known>>
    BY <1>8 DEF GateStep, GateConsumes, GateStoreFails, historyUnchanged
  <2>2. serving[t] # None /\ ~Busy(t)
    BY <1>8 DEF GateStep, GateConsumes, GateStoreFails, At, Busy
  <2>3. UNCHANGED serving \/ Answer(t) \/ GoTo(t, "lock")
    BY <1>8 DEF GateStep, GateConsumes, GateStoreFails
  <2>4. Stays
    BY <1>0, <1>1, <2>2, <2>3, AnswersAside, GoesAside
  <2> QED
    BY <1>0, <2>1, <2>4 DEF Aside, LogShape
<1>9. CASE ServiceTick \/ UNCHANGED serviceVars
  <2>1. Quiet /\ UNCHANGED <<issued, known, serving>>
    BY <1>9 DEF ServiceTick, serviceVars, historyUnchanged
  <2> QED
    BY <1>0, <1>1, <2>1 DEF Aside, LogShape
<1> QED
  BY <1>3, <1>4, <1>5, <1>6, <1>7, <1>8, <1>9 DEF AsideStep

LEMMA AsideKeeps == ASSUME ServiceInv, AsideStep PROVE ServiceInv'
<1>1. Aside /\ UNCHANGED duplicate
  BY StepsAside DEF ServiceInv
<1>2. Mechanics'
  BY <1>1, AsideKeepsMechanics DEF ServiceInv
<1>3. UNCHANGED <<log, file, lock, acked, unsaved, unread, duplicate>>
  BY <1>1 DEF Aside
<1>4. ChainAlwaysValid' /\ AcknowledgedSurvives'
  BY <1>3 DEF ServiceInv, ChainAlwaysValid, ValidChain, AcknowledgedSurvives, HasReceipt
<1>5. Saved' /\ DuplicateMeansDurable'
  BY <1>3 DEF ServiceInv, Saved, DuplicateMeansDurable, HasReceipt
<1> QED
  BY <1>2, <1>4, <1>5 DEF ServiceInv

-----------------------------------------------------------------------------
(* The steps under the lock. *)

LEMMA PrepareKeeps == ASSUME ServiceInv, NEW t \in Callers, Prepare(t) PROVE ServiceInv'
<1> DEFINE draft == [cap |-> IdOf(t), prev |-> Len(log)]
           next == [op |-> serving[t].op, stage |-> "append", env |-> serving[t].env,
                    draft |-> draft]
<1>1. /\ LogShape /\ LockHeld /\ Drafts /\ serving[t] # None /\ serving[t] \in Serving
      /\ serving[t].env \in Envelopes /\ lock = Free /\ lock' = t
      /\ ~HasReceipt(log, IdOf(t))
      /\ UNCHANGED <<issued, known, log, file, acked, duplicate, unsaved, unread>>
  BY ServingShape DEF Prepare, At, ServiceInv, Mechanics, historyUnchanged, IdOf
<1>2. draft \in Receipt /\ draft.cap = IdOf(t) /\ draft.prev = Len(log)
  BY <1>1, IdsOfEnvelopes DEF Receipt, IdOf, LogShape
<1>3. /\ serving' \in [Callers -> Serving \cup {None}]
      /\ serving'[t].env = serving[t].env /\ serving'[t].stage = "append"
      /\ serving'[t].draft = draft /\ serving'[t] # None
      /\ \A s \in Callers : s # t => serving'[s] = serving[s]
  <2>1. serving[t] \in Serving /\ DOMAIN serving = Callers
    BY <1>1 DEF LogShape
  <2>2. next \in Serving
    <3> HIDE DEF draft
    <3> QED
      BY <1>2, <2>1 DEF Serving
  <2>3. serving'[t] = next /\ serving' = [s \in Callers |-> serving'[s]]
        /\ \A s \in Callers : s # t => serving'[s] = serving[s]
    <3>1. serving' = [serving EXCEPT ![t].stage = "append", ![t].draft = draft]
      BY DEF Prepare, IdOf
    <3> HIDE DEF draft
    <3>2. serving'[t] = [[serving[t] EXCEPT !.stage = "append"] EXCEPT !.draft = draft]
          /\ serving' = [s \in Callers |-> serving'[s]]
          /\ \A s \in Callers : s # t => serving'[s] = serving[s]
      BY <2>1, <3>1
    <3> DEFINE appending == [serving[t] EXCEPT !.stage = "append"]
    <3>3. appending \in Serving /\ appending.op = serving[t].op
          /\ appending.env = serving[t].env /\ appending.stage = "append"
      BY <2>1 DEF Serving
    <3>4. serving'[t] = [appending EXCEPT !.draft = draft]
      BY <3>2
    <3> HIDE DEF appending
    <3>5. [appending EXCEPT !.draft = draft] = next
      BY <3>3 DEF Serving
    <3> QED
      BY <3>2, <3>4, <3>5
  <2>4. next.env = serving[t].env /\ next.stage = "append" /\ next.draft = draft
    OBVIOUS
  <2>5. next # None
    BY <2>2 DEF None, Serving
  <2> HIDE DEF next
  <2>6. serving' \in [Callers -> Serving \cup {None}]
    BY <1>1, <2>2, <2>3 DEF LogShape
  <2> QED
    BY <2>3, <2>4, <2>5, <2>6
<1> HIDE DEF draft, next
<1>4. LogShape'
  BY <1>1, <1>3 DEF LogShape
<1>5. LockHeld'
  BY <1>1, <1>3, ServiceAssumption DEF LockHeld, Busy
<1>6. Drafts'
  <2> SUFFICES ASSUME NEW s \in Callers
               PROVE  /\ At(s, "append")' =>
                            /\ serving'[s].draft \in Receipt /\ serving'[s].draft.cap = IdOf(s)'
                            /\ serving'[s].draft.prev = Len(log') /\ ~HasReceipt(log', IdOf(s)')
                      /\ At(s, "persist")' => HasReceipt(log', IdOf(s)')
    BY DEF Drafts, HasReceipt
  <2>1. CASE s = t
    BY <1>1, <1>2, <1>3, <2>1 DEF At, IdOf, HasReceipt
  <2>2. CASE s # t
    BY <1>1, <1>3, <2>2 DEF Drafts, At, IdOf, HasReceipt
  <2> QED
    BY <2>1, <2>2
<1>7. ChainAlwaysValid' /\ AcknowledgedSurvives' /\ DuplicateMeansDurable'
  BY <1>1 DEF ServiceInv, ChainAlwaysValid, ValidChain, AcknowledgedSurvives,
              DuplicateMeansDurable, HasReceipt
<1>8. Saved'
  BY <1>1, ServiceAssumption DEF Saved
<1> QED
  BY <1>4, <1>5, <1>6, <1>7, <1>8 DEF ServiceInv, Mechanics

(* A refusal keeps what it found: the log, which nobody is writing. *)
LEMMA RefuseKeeps == ASSUME ServiceInv, NEW t \in Callers, Refuse(t) PROVE ServiceInv'
<1>1. /\ Mechanics /\ ~Busy(t) /\ Answer(t) /\ lock = Free
      /\ UNCHANGED <<issued, known, log, file, lock, acked, unsaved, unread>>
  BY DEF ServiceInv, Refuse, At, Busy
<1>2. Aside
  BY <1>1, AnswersAside DEF Mechanics, LogShape, Aside
<1>3. Mechanics'
  BY <1>1, <1>2, AsideKeepsMechanics
<1>4. ChainAlwaysValid' /\ AcknowledgedSurvives' /\ Saved'
  BY <1>1 DEF ServiceInv, ChainAlwaysValid, ValidChain, AcknowledgedSurvives, HasReceipt, Saved
<1>5. DuplicateMeansDurable'
  <2> SUFFICES ASSUME ~unsaved, ~unread, NEW id \in duplicate'
               PROVE  HasReceipt(file, id)
    BY <1>1 DEF DuplicateMeansDurable, HasReceipt
  <2>1. file = log
    BY <1>1 DEF ServiceInv, Saved
  <2>2. \A d \in duplicate : HasReceipt(file, d)
    BY DEF ServiceInv, DuplicateMeansDurable
  <2>3. id \in duplicate \/ HasReceipt(log, id)
    BY DEF Refuse
  <2> QED
    BY <2>1, <2>2, <2>3
<1> QED
  BY <1>3, <1>4, <1>5 DEF ServiceInv

LEMMA AppendKeepsChain ==
    ASSUME log \in Seq(Receipt), ValidChain(log), NEW r \in Receipt,
           r.prev = Len(log), ~HasReceipt(log, r.cap), log' = Append(log, r)
    PROVE  /\ log' \in Seq(Receipt) /\ ValidChain(log') /\ HasReceipt(log', r.cap)
           /\ Len(log') = Len(log) + 1 /\ \A k \in DOMAIN log : log'[k] = log[k]
<1>1. /\ log' \in Seq(Receipt) /\ Len(log') = Len(log) + 1 /\ Len(log) \in Nat
      /\ log'[Len(log) + 1] = r /\ \A k \in 1 .. Len(log) : log'[k] = log[k]
      /\ DOMAIN log' = 1 .. Len(log) + 1 /\ DOMAIN log = 1 .. Len(log)
  OBVIOUS
<1>2. ASSUME NEW k \in DOMAIN log'
      PROVE  /\ log'[k].prev = k - 1
             /\ \A i \in 1 .. (k - 1) : log'[i].cap # log'[k].cap
  <2>1. CASE k \in 1 .. Len(log)
    BY <1>1, <2>1 DEF ValidChain
  <2>2. CASE k = Len(log) + 1
    BY <1>1, <2>2 DEF HasReceipt
  <2> QED
    BY <1>1, <1>2, <2>1, <2>2
<1>3. ValidChain(log')
  BY <1>2 DEF ValidChain
<1>4. HasReceipt(log', r.cap)
  BY <1>1 DEF HasReceipt
<1> QED
  BY <1>1, <1>3, <1>4

LEMMA AppendKeeps == ASSUME ServiceInv, NEW t \in Callers, AppendReceipt(t) PROVE ServiceInv'
<1> DEFINE r == serving[t].draft
<1>1. /\ LogShape /\ LockHeld /\ Drafts /\ Busy(t) /\ lock = t /\ At(t, "append")
      /\ log' = Append(log, r) /\ GoTo(t, "persist")
      /\ serving[t] \in Serving /\ serving[t] # None
      /\ UNCHANGED <<issued, known, file, lock, acked, duplicate, unsaved, unread>>
  BY ServingShape
     DEF ServiceInv, Mechanics, AppendReceipt, At, Busy, LockHeld, historyUnchanged
<1>2. /\ r \in Receipt /\ r.cap = IdOf(t) /\ r.prev = Len(log) /\ ~HasReceipt(log, r.cap)
  BY <1>1 DEF Drafts
<1>3. /\ log' \in Seq(Receipt) /\ ValidChain(log') /\ HasReceipt(log', IdOf(t))
      /\ Len(log') = Len(log) + 1 /\ \A k \in DOMAIN log : log'[k] = log[k]
  <2>1. log \in Seq(Receipt) /\ ValidChain(log)
    BY <1>1 DEF LogShape, ServiceInv, ChainAlwaysValid
  <2> HIDE DEF r
  <2> QED
    BY <1>1, <1>2, <2>1, AppendKeepsChain
<1> DEFINE next == [serving[t] EXCEPT !.stage = "persist"]
<1>4. /\ serving' \in [Callers -> Serving \cup {None}]
      /\ serving'[t].env = serving[t].env /\ serving'[t].stage = "persist"
      /\ serving'[t] # None
      /\ \A s \in Callers : s # t => serving'[s] = serving[s]
  <2>1. next \in Serving /\ next.stage = "persist" /\ next.env = serving[t].env
    BY <1>1 DEF Serving
  <2>2. serving' = [serving EXCEPT ![t] = next]
    BY <1>1 DEF GoTo
  <2>3. next # None
    BY <2>1 DEF None, Serving
  <2> HIDE DEF next
  <2> QED
    BY <1>1, <2>1, <2>2, <2>3 DEF LogShape
<1>5. LogShape'
  BY <1>1, <1>3, <1>4 DEF LogShape
<1>6. LockHeld'
  BY <1>1, <1>4 DEF LockHeld, Busy
<1>7. Drafts'
  <2> SUFFICES ASSUME NEW s \in Callers
               PROVE  /\ At(s, "append")' =>
                            /\ serving'[s].draft \in Receipt /\ serving'[s].draft.cap = IdOf(s)'
                            /\ serving'[s].draft.prev = Len(log') /\ ~HasReceipt(log', IdOf(s)')
                      /\ At(s, "persist")' => HasReceipt(log', IdOf(s)')
    BY DEF Drafts, HasReceipt
  <2>1. CASE s = t
    BY <1>3, <1>4, <2>1 DEF At, IdOf
  <2>2. CASE s # t
    BY <1>1, <1>4, <2>2 DEF LockHeld, Busy, At
  <2> QED
    BY <2>1, <2>2
<1>8. ChainAlwaysValid'
  BY <1>1, <1>3 DEF ServiceInv, ChainAlwaysValid, ValidChain
<1>9. AcknowledgedSurvives'
  <2> SUFFICES ASSUME ~unread
               PROVE  /\ \A id \in acked : HasReceipt(file, id)
                      /\ Len(file) <= Len(log')
                      /\ \A k \in DOMAIN file : file[k] = log'[k]
    BY <1>1 DEF AcknowledgedSurvives, HasReceipt
  <2>1. /\ \A id \in acked : HasReceipt(file, id)
        /\ Len(file) <= Len(log) /\ \A k \in DOMAIN file : file[k] = log[k]
    BY DEF ServiceInv, AcknowledgedSurvives
  <2>2. log \in Seq(Receipt) /\ file \in Seq(Receipt)
    BY <1>1 DEF LogShape
  <2>3. \A k \in DOMAIN file : k \in DOMAIN log
    BY <2>1, <2>2
  <2>4. Len(file) <= Len(log')
    BY <1>3, <2>1, <2>2
  <2> QED
    BY <1>3, <2>1, <2>3, <2>4
<1>10. Saved' /\ DuplicateMeansDurable'
  BY <1>1, ServiceAssumption DEF ServiceInv, Saved, DuplicateMeansDurable, HasReceipt
<1> QED
  BY <1>5, <1>6, <1>7, <1>8, <1>9, <1>10 DEF ServiceInv, Mechanics

(* The file becomes the log, and what is answered is in it; or the write   *)
(* fails, and the file stays the beginning of the log that it was.         *)
LEMMA PersistKeeps == ASSUME ServiceInv, NEW t \in Callers, Persist(t) PROVE ServiceInv'
<1>1. /\ LogShape /\ LockHeld /\ Drafts /\ Busy(t) /\ lock = t /\ lock' = Free
      /\ Answer(t) /\ At(t, "persist") /\ serving[t].env \in Envelopes
      /\ UNCHANGED <<issued, log, duplicate, unread>>
  BY ServingShape DEF ServiceInv, Mechanics, Persist, At, Busy, LockHeld
<1>2. \/ file' = log /\ acked' = acked \cup {IdOf(t)} /\ UNCHANGED unsaved
      \/ unsaved' = TRUE /\ UNCHANGED <<file, acked>>
  BY DEF Persist, IdOf
<1>3. HasReceipt(log, IdOf(t))
  BY <1>1 DEF Drafts
<1>4. /\ serving' \in [Callers -> Serving \cup {None}] /\ serving'[t] = None
      /\ \A s \in Callers : s # t => serving'[s] = serving[s]
  BY <1>1 DEF Answer, LogShape
<1>5. LogShape'
  BY <1>1, <1>4 DEF LogShape, Persist
<1>6. LockHeld'
  BY <1>1, <1>4, ServiceAssumption DEF LockHeld, Busy
<1>7. Drafts'
  <2>1. \A s \in Callers : ~At(s, "append")' /\ ~At(s, "persist")'
    BY <1>1, <1>4 DEF LockHeld, Busy, At
  <2> QED
    BY <2>1 DEF Drafts, At
<1>8. ChainAlwaysValid'
  BY <1>1, <1>2 DEF ServiceInv, ChainAlwaysValid, ValidChain
<1>9. AcknowledgedSurvives' /\ DuplicateMeansDurable'
  <2>0. \/ unread
        \/ /\ \A id \in acked : HasReceipt(file, id)
           /\ Len(file) <= Len(log) /\ \A k \in DOMAIN file : file[k] = log[k]
    BY DEF ServiceInv, AcknowledgedSurvives
  <2>1. CASE unread
    BY <1>1, <2>1 DEF AcknowledgedSurvives, DuplicateMeansDurable
  <2>2. CASE ~unread /\ file' = log /\ acked' = acked \cup {IdOf(t)} /\ UNCHANGED unsaved
    <3>1. log \in Seq(Receipt) /\ file \in Seq(Receipt)
      BY <1>1 DEF LogShape
    <3>2. \A id : HasReceipt(file, id) => HasReceipt(log, id)
      BY <2>0, <2>2, <3>1 DEF HasReceipt
    <3>3. \A id \in acked' : HasReceipt(log, id)
      BY <1>3, <2>0, <2>2, <3>2
    <3>4. AcknowledgedSurvives'
      BY <1>1, <2>2, <3>1, <3>3 DEF AcknowledgedSurvives, HasReceipt
    <3>5. ~unsaved => \A id \in duplicate : HasReceipt(log, id)
      BY <2>2, <3>2 DEF ServiceInv, DuplicateMeansDurable
    <3>6. DuplicateMeansDurable'
      BY <1>1, <2>2, <3>5 DEF DuplicateMeansDurable, HasReceipt
    <3> QED
      BY <3>4, <3>6
  <2>3. CASE unsaved' = TRUE /\ UNCHANGED <<file, acked>>
    BY <1>1, <2>0, <2>3 DEF AcknowledgedSurvives, DuplicateMeansDurable, HasReceipt
  <2> QED
    BY <1>2, <2>1, <2>2, <2>3
<1>10. Saved'
  BY <1>1, <1>2 DEF Saved
<1> QED
  BY <1>5, <1>6, <1>7, <1>8, <1>9, <1>10 DEF ServiceInv, Mechanics

LEMMA ServiceRestartKeeps == ASSUME ServiceInv, ServiceRestart PROVE ServiceInv'
<1>1. /\ LogShape /\ \A t \in Callers : serving'[t] = None
      /\ serving' \in [Callers -> Serving \cup {None}]
      /\ lock' = Free /\ UNCHANGED <<issued, known, file, acked, duplicate, unsaved>>
  BY DEF ServiceInv, Mechanics, ServiceRestart
<1>2. \/ log' = file /\ UNCHANGED unread
      \/ log' = <<>> /\ unread' = TRUE
  BY DEF ServiceRestart
<1>3. LogShape'
  <2>1. log \in Seq(Receipt) /\ file \in Seq(Receipt) /\ <<>> \in Seq(Receipt)
    BY <1>1 DEF LogShape
  <2>2. log' \in Seq(Receipt) /\ file' \in Seq(Receipt)
    BY <1>1, <1>2, <2>1
  <2>3. issued' \subseteq Envelopes /\ known' \subseteq Envelopes
    BY <1>1 DEF LogShape
  <2> QED
    BY <1>1, <2>2, <2>3 DEF LogShape
<1>4. LockHeld' /\ Drafts'
  BY <1>1, ServiceAssumption DEF LockHeld, Drafts, Busy, At
<1>5. ChainAlwaysValid'
  BY <1>1, <1>2 DEF ServiceInv, ChainAlwaysValid, ValidChain
<1>6. AcknowledgedSurvives'
  <2>1. CASE log' = file /\ UNCHANGED unread
    <3>1. Len(file) <= Len(file)
      BY <1>1 DEF LogShape
    <3> QED
      BY <1>1, <2>1, <3>1 DEF ServiceInv, AcknowledgedSurvives, HasReceipt
  <2>2. CASE unread' = TRUE
    BY <2>2 DEF AcknowledgedSurvives
  <2> QED
    BY <1>2, <2>1, <2>2
<1>7. Saved' /\ DuplicateMeansDurable'
  <2>1. CASE log' = file /\ UNCHANGED unread
    BY <1>1, <2>1 DEF ServiceInv, Saved, DuplicateMeansDurable, HasReceipt
  <2>2. CASE unread' = TRUE
    BY <2>2 DEF Saved, DuplicateMeansDurable
  <2> QED
    BY <1>2, <2>1, <2>2
<1> QED
  BY <1>3, <1>4, <1>5, <1>6, <1>7 DEF ServiceInv, Mechanics

LEMMA ServiceInvStep == ServiceInv /\ [ServiceNext]_serviceVars => ServiceInv'
<1> SUFFICES ASSUME ServiceInv, [ServiceNext]_serviceVars PROVE ServiceInv'
  OBVIOUS
<1>1. ASSUME NEW t \in Callers,
             Prepare(t) \/ Refuse(t) \/ AppendReceipt(t) \/ Persist(t)
      PROVE  ServiceInv'
  BY <1>1, PrepareKeeps, RefuseKeeps, AppendKeeps, PersistKeeps
<1>2. CASE ServiceRestart
  BY <1>2, ServiceRestartKeeps
<1>3. CASE AsideStep
  BY <1>3, AsideKeeps
<1> QED
  BY <1>1, <1>2, <1>3 DEF ServiceNext, Serve, AsideStep

LEMMA ServiceInvHolds == ServiceSpec => []ServiceInv
  BY ServiceInvInit, ServiceInvStep, PTL DEF ServiceSpec

(* GET /receipts, which takes no lock, always finds a valid chain, and so  *)
(* does whoever reads receipt-log.json, through crashes and failed writes. *)
THEOREM ChainHolds == ServiceSpec => []ChainAlwaysValid
<1>1. ServiceInv => ChainAlwaysValid
  BY DEF ServiceInv
<1> QED
  BY <1>1, ServiceInvHolds, PTL

(* A receipt that POST /receipt or /run has answered is in the file for    *)
(* good, as long as every restart could read the file.                     *)
THEOREM AnsweredReceiptsSurvive == ServiceSpec => []AcknowledgedSurvives
<1>1. ServiceInv => AcknowledgedSurvives
  BY DEF ServiceInv
<1> QED
  BY <1>1, ServiceInvHolds, PTL

(* While writes succeed, a receipt refused as a duplicate is on disk.      *)
THEOREM DuplicatesAreDurable == ServiceSpec => []DuplicateMeansDurable
<1>1. ServiceInv => DuplicateMeansDurable
  BY DEF ServiceInv
<1> QED
  BY <1>1, ServiceInvHolds, PTL

-----------------------------------------------------------------------------
(* The gate in the service. *)

(* A step of the service takes one step of its gate, or none.              *)
LEMMA ServiceStepsGate ==
    ASSUME LogShape, [ServiceNext]_serviceVars
    PROVE  [Next]_vars
<1>1. ASSUME NEW t \in Callers, VerifyRequest(t) PROVE Next
  <2>1. PICK e \in known \cup {f \in Envelopes : ~Payload[f].signed} : Begin(t, Presented(e))
    BY <1>1 DEF VerifyRequest
  <2>2. Presented(e) \in Presentations
    BY ServiceAssumption DEF LogShape
  <2> QED
    BY <2>1, <2>2 DEF Next, Authorize
<1>2. ASSUME NEW t \in Callers, RunGate(t) PROVE Next
  <2>1. At(t, "issued") /\ Begin(t, Presented(serving[t].env))
    BY <1>2 DEF RunGate
  <2>2. serving[t].env \in Envelopes
    BY <2>1, ServingShape DEF At
  <2>3. Presented(serving[t].env) \in Presentations
    BY <2>2, ServiceAssumption
  <2> QED
    BY <2>1, <2>3 DEF Next, Authorize
<1>3. ASSUME NEW t \in Callers, GateStep(t) \/ GateConsumes(t) \/ GateStoreFails(t)
      PROVE  Next
  BY <1>3 DEF GateStep, GateConsumes, GateStoreFails, Next, Authorize
<1>4. ASSUME NEW t \in Callers, ReceiptRequest(t) \/ RunRequest(t) \/ Prepare(t) \/ Refuse(t)
                                \/ AppendReceipt(t) \/ Persist(t)
      PROVE  UNCHANGED vars
  BY <1>4 DEF ReceiptRequest, RunRequest, Prepare, Refuse, AppendReceipt, Persist, gateUnchanged
<1>5. ASSUME NEW e \in Envelopes, AuthorizeRequest(e) PROVE UNCHANGED vars
  BY <1>5 DEF AuthorizeRequest, gateUnchanged
<1>6. CASE ServiceRestart \/ ServiceTick
  BY <1>6 DEF ServiceRestart, ServiceTick, Next
<1>7. CASE UNCHANGED serviceVars
  BY <1>7 DEF serviceVars, vars
<1> QED
  BY <1>1, <1>2, <1>3, <1>4, <1>5, <1>6, <1>7 DEF ServiceNext, Serve

(* What the HTTP service does with its gate is what the gate may do: every *)
(* behaviour of the service, with its requests, failing writes and         *)
(* restarts, is a behaviour of ActionGate.                                 *)
THEOREM ServiceRunsTheGate == ServiceSpec => Spec
<1>1. ServiceInit => Init
  BY DEF ServiceInit
<1>2. ServiceInv /\ [ServiceNext]_serviceVars => [Next]_vars
  BY ServiceStepsGate DEF ServiceInv, Mechanics
<1> QED
  BY <1>1, <1>2, ServiceInvHolds, PTL DEF ServiceSpec, Spec

(* So no capability that lives is consumed twice by /verify and /run       *)
(* together, whatever their threads do to each other and whatever writes   *)
(* fail (with an in-memory store, until a restart).                        *)
THEOREM ServiceConsumesOnce == ServiceSpec => []ReuseOnlyAfterExpiry
  BY ServiceRunsTheGate, LiveCapabilityIsOneTime

(* With a durable store the service spends capabilities as the one-time    *)
(* ledger does, across its restarts.                                       *)
THEOREM ServiceIsLedger ==
    ASSUME Persistent
    PROVE  ServiceSpec => ImplementsLedger
  BY ServiceRunsTheGate, DurableGateIsLedger
=============================================================================
