----------------------------- MODULE SimulatedDevice -----------------------------
(***************************************************************************)
(* The device proof without hardware (esp32c3.py): objects of the class    *)
(* SimulatedPaperBarrierDevice, in one or several processes, that stand    *)
(* for one device and share its state store, in memory or in SQLite, and   *)
(* an executor's key that signs commands for any challenge ever offered,   *)
(* twice and late: the issuance store, which would keep one capability     *)
(* from two commands, is PaperBarrier's, and the promise does not need it. *)
(*                                                                         *)
(* A challenge's nonce is fresh, and a command's id is a hash of its       *)
(* fields: the command is its own id.  execute holds the object's lock     *)
(* from the challenge it takes to the end of the store's transaction, and  *)
(* signs the acknowledgement after that.                                   *)
(***************************************************************************)
EXTENDS Integers, Sequences, FiniteSets

CONSTANTS
    Objects,       \* device objects
    Grants,        \* verified capabilities
    MaxBoots,      \* bound on the starts
    MaxNonces      \* bound on the challenges

ASSUME SimulatedAssumption == MaxBoots \in Nat /\ MaxNonces \in Nat

VARIABLES
    persistent,    \* the store is SQLiteDeviceStateStore; it never changes
    row,           \* the store: boot_counter, last_sequence, actuator_count
    executed,      \* the store: consumed commands
    object,        \* each device object
    offered,       \* challenges, in the order of their nonces
    ordered,       \* commands the executor signed
    unsigned,      \* commands consumed whose acknowledgement is not yet made
    boots,         \* starts so far
    everExecuted,  \* history: commands that consume_command accepted
    replies        \* history: acknowledgements, in order

outside == <<persistent, offered, ordered, boots>>

simulatedVars == <<persistent, row, executed, object, offered, ordered, unsigned,
                   boots, everExecuted, replies>>

Gone == [stage |-> "gone"]
NoRow == [boot |-> 0, last |-> 0, count |-> 0]
NoNonce == 0

Offer == [boot : 1 .. MaxBoots, nonce : 1 .. MaxNonces, sequence : 1 .. MaxNonces]

Order == [grant : Grants, offer : Offer]

Reply == [object : Objects, order : Order, count : 1 .. MaxNonces]

Object == [stage : {"free"}, boot : 1 .. MaxBoots, active : 0 .. MaxNonces]
          \cup [stage : {"consume"}, boot : 1 .. MaxBoots, order : Order]

(* Every variable keeps its shape, an object has a boot counter that the   *)
(* store gave out, and what waits for its acknowledgement was consumed.    *)
SimulatedTypeOK ==
    /\ persistent \in BOOLEAN
    /\ row \in [boot : 0 .. MaxBoots, last : 0 .. MaxNonces, count : 0 .. MaxNonces]
    /\ executed \subseteq everExecuted
    /\ \A o \in Objects : object[o] \in Object \cup {Gone}
    /\ \A o \in Objects : object[o] # Gone => object[o].boot <= row.boot
    /\ offered \in Seq(Offer) /\ \A n \in DOMAIN offered : offered[n].nonce = n
    /\ ordered \subseteq Order
    /\ unsigned \subseteq Reply /\ {r.order : r \in unsigned} \subseteq everExecuted
    /\ boots \in 0 .. MaxBoots
    /\ replies \in Seq(Reply)

SimulatedInit ==
    /\ persistent \in BOOLEAN
    /\ row = NoRow
    /\ executed = {}
    /\ object = [o \in Objects |-> Gone]
    /\ offered = <<>>
    /\ ordered = {}
    /\ unsigned = {}
    /\ boots = 0
    /\ everExecuted = {}
    /\ replies = <<>>

-----------------------------------------------------------------------------
BeginBootForgets == [boot |-> row.boot + 1, last |-> 0, count |-> 0]

(* begin_boot keeps the actuator's count. *)
BeginBoot == [row EXCEPT !.boot = @ + 1, !.last = 0]

(* A device object is made, beside others that still run or in their place.*)
Start(o) ==
    /\ object[o] = Gone
    /\ boots < MaxBoots
    /\ boots' = boots + 1
    /\ row' = BeginBoot
    /\ object' = [object EXCEPT ![o] = [stage |-> "free", boot |-> row'.boot,
                                        active |-> NoNonce]]
    /\ UNCHANGED <<persistent, offered, ordered>>
    /\ UNCHANGED <<executed, unsigned, everExecuted, replies>>

(* challenge takes the place of the last one; next_sequence raises if the  *)
(* device has been started again elsewhere.                                *)
OfferChallenge(o) ==
    /\ object[o].stage = "free"
    /\ object[o].boot = row.boot
    /\ Len(offered) < MaxNonces
    /\ offered' = Append(offered, [boot |-> row.boot, nonce |-> Len(offered) + 1,
                                   sequence |-> row.last + 1])
    /\ object' = [object EXCEPT ![o].active = Len(offered')]
    /\ UNCHANGED <<persistent, ordered, boots>>
    /\ UNCHANGED <<row, executed, unsigned, everExecuted, replies>>

(* The executor signs a command for a challenge it was shown. *)
SignOrder ==
    /\ \E g \in Grants, n \in DOMAIN offered :
          ordered' = ordered \cup {[grant |-> g, offer |-> offered[n]]}
    /\ UNCHANGED <<persistent, offered, boots>>
    /\ UNCHANGED <<row, executed, object, unsigned, everExecuted, replies>>

(* The command is for the active challenge: its boot, nonce and sequence.  *)
Fits(active, order) == order.offer = offered[active]

(* execute, up to the store: the active challenge is used up by whatever   *)
(* genuine command comes, and it may have expired.                         *)
TakeOrder(o) ==
    /\ object[o].stage = "free"
    /\ object[o].active # NoNonce
    /\ \E order \in ordered :
          object' = [object EXCEPT ![o] =
              IF Fits(object[o].active, order)
              THEN [stage |-> "consume", boot |-> @.boot, order |-> order]
              ELSE [@ EXCEPT !.active = NoNonce]]
    /\ UNCHANGED <<row, executed, unsigned, everExecuted, replies>>
    /\ UNCHANGED outside

Expire(o) ==
    /\ object[o].stage = "free"
    /\ object[o].active # NoNonce
    /\ object' = [object EXCEPT ![o].active = NoNonce]
    /\ UNCHANGED <<row, executed, unsigned, everExecuted, replies>>
    /\ UNCHANGED outside

Freed(o) == [object EXCEPT ![o] = [stage |-> "free", boot |-> @.boot, active |-> NoNonce]]

(* What consume_command asks, of a store that another object may have      *)
(* started again since.                                                    *)
MayConsume(o) ==
    /\ row.boot = object[o].boot
    /\ object[o].order.offer.sequence = row.last + 1
    /\ object[o].order \notin executed

(* consume_command: one transaction, which SQLite may refuse as well.      *)
ConsumeOrder(o) ==
    /\ object[o].stage = "consume"
    /\ LET order == object[o].order IN
       \/ /\ MayConsume(o)
          /\ row' = [row EXCEPT !.last = order.offer.sequence, !.count = @ + 1]
          /\ executed' = executed \cup {order}
          /\ everExecuted' = everExecuted \cup {order}
          /\ unsigned' = unsigned \cup {[object |-> o, order |-> order, count |-> row'.count]}
       \/ /\ ~MayConsume(o) \/ persistent
          /\ UNCHANGED <<row, executed, everExecuted, unsigned>>
    /\ object' = Freed(o)
    /\ UNCHANGED <<outside, replies>>

(* The acknowledgement is signed, outside the lock. *)
SignReply(reply) ==
    /\ reply \in unsigned
    /\ unsigned' = unsigned \ {reply}
    /\ replies' = Append(replies, reply)
    /\ UNCHANGED <<row, executed, object, everExecuted, outside>>

(* The object's process dies: the acknowledgements it had not made are     *)
(* lost, and with an in-memory store the device's state, which the other   *)
(* objects of that process had shared.                                     *)
Die(o) ==
    /\ object[o] # Gone
    /\ IF persistent
       THEN /\ object' = [object EXCEPT ![o] = Gone]
            /\ unsigned' = {r \in unsigned : r.object # o}
            /\ UNCHANGED <<row, executed>>
       ELSE /\ object' = [p \in Objects |-> Gone]
            /\ unsigned' = {}
            /\ row' = NoRow /\ executed' = {}
    /\ UNCHANGED <<everExecuted, replies, outside>>

SimulatedNext ==
    \/ SignOrder
    \/ \E o \in Objects : Start(o) \/ OfferChallenge(o) \/ TakeOrder(o) \/ Expire(o)
                          \/ ConsumeOrder(o) \/ Die(o)
    \/ \E reply \in unsigned : SignReply(reply)

SimulatedSpec == SimulatedInit /\ [][SimulatedNext]_simulatedVars

-----------------------------------------------------------------------------
(* Properties *)

Promise == INSTANCE OneShotCommands WITH
    Commands <- Order, consumed <- everExecuted,
    acted <- [i \in DOMAIN replies |-> replies[i].order]

(* With SQLite the store's count is that of the commands ever consumed,    *)
(* each acknowledgement has a count of its own, and within a boot counts   *)
(* follow the sequence numbers.                                            *)
CountsExact ==
    /\ row.count = Cardinality(everExecuted)
    /\ \A i, j \in DOMAIN replies :
          LET a == replies[i]  b == replies[j] IN
          /\ i # j => a.count # b.count
          /\ a.order.offer.boot = b.order.offer.boot =>
                (a.order.offer.sequence < b.order.offer.sequence <=> a.count < b.count)

(* Simulated devices keep the firmware's promise: over restarts, two       *)
(* objects for one device, late and repeated commands and lost             *)
(* acknowledgements, a command is executed at most once and acknowledged   *)
(* at most once after that; and a persistent store counts exactly.         *)
SimulatedIsOneShot == Promise!OneShotSpec /\ [](persistent => CountsExact)
=============================================================================
