----------------------------- MODULE ReceiptEvidence -----------------------------
(***************************************************************************)
(* Receipts as evidence: the logs of several executors (receipt.py), each  *)
(* appended to by threads without a lock and restored after a restart, and *)
(* what an auditor may conclude from any receipts it is handed, in any     *)
(* order and with any missing or repeated (audit.py, compliance.py), with  *)
(* the help of a notary's checkpoints (checkpoint.py).                     *)
(*                                                                         *)
(* A receipt holds the receipt before it in place of that one's digest, so *)
(* that equal digests are equal receipts; nobody signs for another.        *)
(***************************************************************************)
EXTENDS Integers, Sequences, FiniteSets

CONSTANTS
    Writers,        \* threads
    Executors,      \* keys, one log each
    Uses,           \* capabilities that were consumed
    Obligations,    \* capability -> its obligations
    Deeds,          \* capability -> the agent, target, action and purpose it is for
    Filters,        \* what an auditor asks: the fields it wants, and since or until
    Commitments,    \* obligations that a plain receipt does not fulfil
    AuditorTrusts,  \* sets of executors that an auditor may be given
    MaxSigned,      \* bound on the receipts signed
    MaxCheckpoints, \* bound on the checkpoints
    MaxRestores     \* bound on the restarts

ASSUME EvidenceAssumption ==
    /\ MaxSigned \in Nat /\ MaxCheckpoints \in Nat /\ MaxRestores \in Nat
    /\ DOMAIN Deeds = Uses
    /\ \A filter \in Filters : \A name \in DOMAIN filter \cap {"since", "until"} :
          filter[name] \in Int
    /\ Obligations \in [Uses -> SUBSET UNION {Obligations[u] : u \in Uses}]

VARIABLES
    logs,        \* executor -> ReceiptLog._entries
    append,      \* each thread's append
    history,     \* history: every receipt ever signed
    notarized,   \* the chains of which a checkpoint was signed
    restores,
    forked       \* history: executors whose log lost or forked its order

evidenceVars == <<logs, append, history, notarized, restores, forked>>

NoAppend == [stage |-> "none"]
NoHash == <<>>
Plain01 == {"plain"}  \* version 0.1: no obligation results

(* What the executor reports of the obligations: those satisfied, or       *)
(* nothing; a list of results may not be empty.                            *)
Reports(use) ==
    {Plain01} \cup IF Obligations[use] = {} THEN {} ELSE SUBSET Obligations[use]

(* Every variable keeps its shape, every receipt in a log was signed by    *)
(* its executor, and a checkpoint is of receipts of one executor.          *)
EvidenceTypeOK ==
    /\ DOMAIN logs = Executors
    /\ \A e \in Executors : \A i \in DOMAIN logs[e] :
          logs[e][i] \in history /\ logs[e][i].executor = e
    /\ \A w \in Writers :
          append[w].stage \in {"none", "checked", "linked"}
    /\ \A r \in history : r.executor \in Executors /\ r.use \in Uses
                          /\ r.satisfied \in Reports(r.use)
    /\ \A chain \in notarized :
          \E e \in Executors : \A i \in DOMAIN chain : chain[i].executor = e
    /\ restores \in 0 .. MaxRestores
    /\ forked \subseteq Executors

EvidenceInit ==
    /\ logs = [e \in Executors |-> <<>>]
    /\ append = [w \in Writers |-> NoAppend]
    /\ history = {}
    /\ notarized = {}
    /\ restores = 0
    /\ forked = {}

-----------------------------------------------------------------------------
(* ReceiptLog.append, in the steps between which another thread may run.   *)

Latest(log) == IF log = <<>> THEN NoHash ELSE log[Len(log)]

(* No receipt yet for this capability. *)
BeginAppend(w) ==
    /\ append[w] = NoAppend
    /\ \E e \in Executors, use \in Uses, satisfied \in UNION {Reports(u) : u \in Uses} :
          /\ satisfied \in Reports(use)
          /\ \A i \in DOMAIN logs[e] : logs[e][i].use # use
          /\ append' = [append EXCEPT ![w] = [stage |-> "checked", executor |-> e,
                                              use |-> use, satisfied |-> satisfied]]
    /\ UNCHANGED <<logs, history, notarized, restores, forked>>

LinkToNothing(w) ==
    /\ append[w].stage = "checked"
    /\ Cardinality(history) < MaxSigned
    /\ LET a == append[w]
           receipt == [executor |-> a.executor, use |-> a.use, satisfied |-> a.satisfied,
                       started |-> Cardinality(history), previous |-> NoHash] IN
       /\ append' = [append EXCEPT ![w] = [stage |-> "linked", receipt |-> receipt,
                                           after |-> Len(logs[a.executor])]]
       /\ history' = history \cup {receipt}
    /\ UNCHANGED <<logs, notarized, restores, forked>>

(* previous_receipt_hash is taken, and the receipt signed. *)
Link(w) ==
    /\ append[w].stage = "checked"
    /\ Cardinality(history) < MaxSigned
    /\ LET a == append[w]
           receipt == [executor |-> a.executor, use |-> a.use, satisfied |-> a.satisfied,
                       started |-> Cardinality(history), previous |-> Latest(logs[a.executor])] IN
       /\ append' = [append EXCEPT ![w] = [stage |-> "linked", receipt |-> receipt,
                                           after |-> Len(logs[a.executor])]]
       /\ history' = history \cup {receipt}
    /\ UNCHANGED <<logs, notarized, restores, forked>>

(* The entry is appended, wherever the log is by now. *)
AppendLinked(w) ==
    /\ append[w].stage = "linked"
    /\ LET receipt == append[w].receipt
           e == receipt.executor
           overtaken == \/ append[w].after # Len(logs[e])
                        \/ \E i \in DOMAIN logs[e] : logs[e][i].use = receipt.use IN
       /\ logs' = [logs EXCEPT ![e] = Append(@, receipt)]
       /\ forked' = IF overtaken THEN forked \cup {e} ELSE forked
    /\ append' = [append EXCEPT ![w] = NoAppend]
    /\ UNCHANGED <<history, notarized, restores>>

(* restore after a restart: the receipts that had been persisted, which    *)
(* may be fewer than were signed, checkpointed or shown.  Appends that     *)
(* were under way are gone.                                                *)
Restore(e) ==
    /\ restores < MaxRestores
    /\ \E n \in 0 .. Len(logs[e]) :
          /\ logs' = [logs EXCEPT ![e] = SubSeq(@, 1, n)]
          /\ forked' = IF \/ n < Len(logs[e])
                          \/ \E w \in Writers : append[w].stage = "linked"
                       THEN forked \cup {e} ELSE forked
    /\ restores' = restores + 1
    /\ append' = [w \in Writers |->
                    IF \/ append[w].stage = "checked" /\ append[w].executor = e
                       \/ append[w].stage = "linked" /\ append[w].receipt.executor = e
                    THEN NoAppend ELSE append[w]]
    /\ UNCHANGED <<history, notarized>>

(* build_receipt_checkpoint over the digest of the log as it is. *)
Checkpoint(e) ==
    /\ logs[e] # <<>>
    /\ Cardinality(notarized) < MaxCheckpoints
    /\ notarized' = notarized \cup {logs[e]}
    /\ UNCHANGED <<logs, append, history, restores, forked>>

EvidenceNext ==
    \/ \E w \in Writers : BeginAppend(w) \/ Link(w) \/ AppendLinked(w)
    \/ \E e \in Executors : Restore(e) \/ Checkpoint(e)

EvidenceSpec == EvidenceInit /\ [][EvidenceNext]_evidenceVars

-----------------------------------------------------------------------------
(* The auditor. *)

(* verify_receipt_chain: each receipt links to the one before it and none  *)
(* is for a capability that had one; without a set of trusted executors    *)
(* any executor will do, and ReceiptAuditor takes an empty set for none.   *)
ChainVerifies(chain, trustedExecutors) ==
    \A i \in DOMAIN chain :
        /\ trustedExecutors # {} => chain[i].executor \in trustedExecutors
        /\ \A j \in 1 .. i - 1 : chain[j].use # chain[i].use
        /\ chain[i].previous = IF i = 1 THEN NoHash ELSE chain[i - 1]

(* The Go verifier's loop; without a trust set it, too, takes any.         *)
GoChainVerifies(chain, trustedExecutors) ==
    /\ \A i \in DOMAIN chain :
          chain[i].previous = IF i = 1 THEN NoHash ELSE chain[i - 1]
    /\ trustedExecutors # {} => {chain[i].executor : i \in DOMAIN chain} \subseteq trustedExecutors
    /\ Cardinality({chain[i].use : i \in DOMAIN chain}) = Len(chain)

(* ReceiptAuditor.query: what a receipt took over from its capability, and *)
(* when the action started.  The receipts found keep their places.         *)
Field(receipt, name) ==
    IF name = "capability_id" THEN receipt.use ELSE Deeds[receipt.use][name]

Meets(receipt, filter) ==
    /\ \A name \in DOMAIN filter \ {"since", "until"} : Field(receipt, name) = filter[name]
    /\ "since" \in DOMAIN filter => receipt.started >= filter["since"]
    /\ "until" \in DOMAIN filter => receipt.started <= filter["until"]

Query(chain, filter) ==
    [i \in {j \in DOMAIN chain : Meets(chain[j], filter)} |-> chain[i]]

(* summary, by_action; export_packet of a strict auditor, who has seen the *)
(* chain verify: the summary is of the whole chain, whatever the packet's  *)
(* receipts were chosen by.                                                *)
Summary(chain) ==
    LET action(i) == Deeds[chain[i].use].action IN
    [total |-> Len(chain),
     byAction |-> [a \in {action(i) : i \in DOMAIN chain} |->
                      Cardinality({i \in DOMAIN chain : action(i) = a})]]

Packet(chain, filter) == [summary |-> Summary(chain), receipts |-> Query(chain, filter)]

Matched(chain, use) ==
    LET found == Query(chain, [f \in {"capability_id"} |-> use]) IN
    {found[i] : i \in DOMAIN found}

(* One obligation, by the receipt of its capability. *)
Fulfilled(obligation, receipt) ==
    IF receipt.satisfied = Plain01 THEN obligation \notin Commitments
                                   ELSE obligation \in receipt.satisfied

(* ObligationCompliance.evaluate; the trusted executors must be given.     *)
Compliant(use, chain, trustedExecutors) ==
    /\ trustedExecutors # {}
    /\ Obligations[use] # {} =>
          /\ Matched(chain, use) # {}
          /\ ChainVerifies(chain, trustedExecutors)
          /\ \A receipt \in Matched(chain, use) :
                \A obligation \in Obligations[use] : Fulfilled(obligation, receipt)

-----------------------------------------------------------------------------
(* Properties *)

(* What an auditor can be handed: receipts that were signed, in any order. *)
Handed == UNION {[1 .. n -> history] : n \in 0 .. MaxSigned}

(* The receipts and the summary of a packet are of one chain.              *)
PacketAddsUp(chain, filter) ==
    LET packet == Packet(chain, filter)
        counts == packet.summary.byAction IN
    /\ \A i, j \in DOMAIN packet.receipts :
          packet.receipts[i].use = packet.receipts[j].use => i = j
    /\ DOMAIN filter = {"action"} =>
          Cardinality(DOMAIN packet.receipts) =
              IF filter["action"] \in DOMAIN counts THEN counts[filter["action"]] ELSE 0
    /\ DOMAIN filter = {"since"} =>
          LET before == [f \in {"until"} |-> filter["since"] - 1] IN
          Cardinality(DOMAIN packet.receipts) + Cardinality(DOMAIN Query(chain, before))
              = packet.summary.total

Prefix(a, b) == Len(a) <= Len(b) /\ \A i \in DOMAIN a : a[i] = b[i]

(* Receipts prove what happened: as long as an executor's log neither lost *)
(* nor forked its order, the log itself verifies; whatever verifies, out   *)
(* of all that was ever signed and without naming an executor to trust, is *)
(* the log up to some receipt; a checkpoint and a longer chain agree; a    *)
(* capability found compliant has a receipt of a trusted executor that     *)
(* meets each obligation; a packet of a strict auditor shows no capability *)
(* twice, and its receipts, its summary and the packets for the time       *)
(* before and after add up; and the Go verifier agrees about every chain.  *)
EvidenceIsHistory ==
    /\ \A e \in Executors \ forked :
          /\ ChainVerifies(logs[e], {e})
          /\ \A chain \in notarized :
                chain # <<>> /\ chain[1].executor = e => Prefix(chain, logs[e])
    /\ \A chain \in Handed :
          /\ \A trust \in AuditorTrusts :
                ChainVerifies(chain, trust) <=> GoChainVerifies(chain, trust)
          /\ ChainVerifies(chain, {}) =>
                /\ chain # <<>> =>
                      LET e == chain[1].executor IN
                      \/ e \in forked
                      \/ Prefix(chain, logs[e])
                      \/ \E w \in Writers : append[w].stage = "linked"
                                            /\ append[w].receipt = chain[Len(chain)]
                /\ \A trust \in AuditorTrusts : \A use \in Uses :
                      Obligations[use] # {} /\ Compliant(use, chain, trust) =>
                          \E r \in history :
                              /\ r.executor \in trust /\ r.use = use
                              /\ \A o \in Obligations[use] : Fulfilled(o, r)
                /\ \A filter \in Filters : PacketAddsUp(chain, filter)
=============================================================================
