------------------------------ MODULE PaperBarrier ------------------------------
(***************************************************************************)
(* The ESP32-C3 proof: a host that turns a verified capability into one    *)
(* device command (esp32c3.py, DeviceCommandIssuer; esp32c3_serial.py,     *)
(* execute_once), a serial line, and the firmware (kgp_firmware.c), which  *)
(* persists the consumption of a command before it moves the servo.        *)
(*                                                                         *)
(* The line loses and damages frames; a program on the host may send an    *)
(* earlier command frame again (SerialExchange keeps it).  The device      *)
(* loses power at any step, also while it writes to flash, where each      *)
(* value written before the commit may or may not be kept.  Signatures,    *)
(* canonical frames and content ids are what they come to: a command frame *)
(* is a command the executor signed, anything else is Noise.               *)
(***************************************************************************)
EXTENDS Integers, Sequences

CONSTANTS
    Capabilities,     \* verified capabilities for the device
    Expires,          \* Expires[c]: expires_at
    CounterMax,       \* UINT32_MAX
    MaxChallenges,    \* bound on challenges
    MaxTime,          \* bound on the host's clock
    MaxFrames         \* frames the line holds in each direction

ASSUME BarrierAssumption ==
    /\ Expires \in [Capabilities -> Nat]
    /\ CounterMax \in Nat /\ MaxChallenges \in Nat
    /\ MaxTime \in Nat /\ MaxFrames \in Nat

VARIABLES
    now,          \* the host's clock
    spent,        \* the issuer's replay store
    client,       \* execute_once: its position and locals
    toDevice, toHost,   \* frames on the line
    flash,        \* NVS: boot_counter, last_sequence, actuator_count
    device,       \* app_main: its position and device_state_t
    nonces,       \* challenges published so far; the last is the live nonce
    issues,       \* history: commands issued, with the time of their issue
    consumed,     \* history: commands whose consumption was committed
    acts,         \* history: commands that moved the servo, in order
    acks,         \* history: actuator_count of each acknowledgement emitted
    confirmed,    \* history: commands whose exchange execute_once returned
    discarded     \* history: commands whose acknowledgement it refused, undamaged

hostVars == <<now, spent, client, issues, confirmed, discarded>>
deviceVars == <<flash, device, nonces, consumed, acts, acks>>
barrierVars == <<hostVars, toDevice, toHost, deviceVars>>

Counter == 0 .. CounterMax

Challenge == [kind : {"challenge"}, boot : Counter, nonce : 1 .. MaxChallenges,
              sequence : Counter]

(* The command id is a hash of these fields: the command is its own id. *)
Command == [kind : {"command"}, cap : Capabilities, boot : Counter,
            nonce : 1 .. MaxChallenges, sequence : Counter]

Ack == [kind : {"ack"}, command : Command, count : Counter]

Noise == [kind |-> "noise"]

Flash == [boot : Counter, sequence : Counter, count : Counter]

IdleClient == [pc |-> "idle"]

Client == [pc : {"challenge"}, cap : Capabilities]
          \cup [pc : {"issue", "consume"}, cap : Capabilities, challenge : Challenge]
          \cup [pc : {"ack"}, cap : Capabilities, command : Command]

Halted == {[pc |-> "off"], [pc |-> "locked"]}

(* app_main: device_state_t is `memory'; stale is set when the challenge   *)
(* is 10 s old.                                                            *)
Running == [pc : {"challenge"}, memory : Flash]
           \cup [pc : {"read"}, memory : Flash, stale : BOOLEAN]
           \cup [pc : {"persist", "actuate", "ack"}, memory : Flash, command : Command]

(* Every variable keeps its shape, and a device that is up counts what its *)
(* flash holds, unless a commit has failed since its start.                *)
BarrierTypeOK ==
    /\ now \in Nat
    /\ spent \subseteq Capabilities
    /\ client \in Client \cup {IdleClient}
    /\ toDevice \in Seq(Command \cup {Noise})
    /\ toHost \in Seq(Challenge \cup Ack \cup {Noise})
    /\ flash \in Flash
    /\ device \in Running \cup Halted
    /\ nonces \in 0 .. MaxChallenges
    /\ issues \subseteq [command : Command, at : Nat]
    /\ consumed \subseteq Command
    /\ acts \in Seq(Command)
    /\ acks \in Seq(Counter)
    /\ confirmed \subseteq Command /\ discarded \subseteq Command
    /\ device \in Running => /\ device.memory.boot = flash.boot
                             /\ device.memory.count <= flash.count

BarrierInit ==
    /\ now = 0
    /\ spent = {}
    /\ client = IdleClient
    /\ toDevice = <<>> /\ toHost = <<>>
    /\ flash = [boot |-> 0, sequence |-> 0, count |-> 0]
    /\ device = [pc |-> "off"]
    /\ nonces = 0
    /\ issues = {} /\ consumed = {} /\ acts = <<>> /\ acks = <<>>
    /\ confirmed = {} /\ discarded = {}

-----------------------------------------------------------------------------
(* The line delivers a frame, damages it or loses it; a full one loses it. *)
Transmit(line, frame) ==
    {line} \cup IF Len(line) < MaxFrames
                THEN {Append(line, frame), Append(line, Noise)} ELSE {}

Rest(line, k) == SubSeq(line, k + 1, Len(line))

-----------------------------------------------------------------------------
(* The host: PaperBarrierSerialClient.execute_once *)

ClientAt(pc) == client.pc = pc

StartExchange(c) ==
    /\ ClientAt("idle")
    /\ client' = [pc |-> "challenge", cap |-> c]
    /\ UNCHANGED <<now, spent, issues, confirmed, discarded, toDevice, toHost>>
    /\ UNCHANGED deviceVars

(* PySerialTransport empties both buffers when it opens the port. *)
OpenPort ==
    /\ ClientAt("idle")
    /\ toHost' = <<>> /\ toDevice' = <<>>
    /\ UNCHANGED <<hostVars, deviceVars>>

(* One read returns the k frames that have arrived; more than one, or one  *)
(* that is no challenge, ends the exchange.                                *)
ReadChallenge ==
    /\ ClientAt("challenge")
    /\ \E k \in 1 .. Len(toHost) :
          /\ toHost' = Rest(toHost, k)
          /\ client' = IF k = 1 /\ toHost[1].kind = "challenge"
                       THEN [pc |-> "issue", cap |-> client.cap, challenge |-> toHost[1]]
                       ELSE IdleClient
    /\ UNCHANGED <<now, spent, issues, confirmed, discarded, toDevice>>
    /\ UNCHANGED deviceVars

(* issue checks the expiry by a clock reading of its own ... *)
CheckExpiry ==
    /\ ClientAt("issue")
    /\ client' = IF now < Expires[client.cap] THEN [client EXCEPT !.pc = "consume"]
                 ELSE IdleClient
    /\ UNCHANGED <<now, spent, issues, confirmed, discarded, toDevice, toHost>>
    /\ UNCHANGED deviceVars

UnexpiredBefore == {c \in spent : now < Expires[c]}

(* The store forgets an entry only after its capability's last instant. *)
Unexpired == {c \in spent : now <= Expires[c]}

(* ... and consumes the capability in the issuance store, which prunes by  *)
(* another; then the command is signed and written, in full or in part.    *)
IssueCommand ==
    /\ ClientAt("consume")
    /\ LET c == client.cap
           command == [kind |-> "command", cap |-> c, boot |-> client.challenge.boot,
                       nonce |-> client.challenge.nonce,
                       sequence |-> client.challenge.sequence]
       IN
       \/ /\ c \in Unexpired
          /\ spent' = Unexpired
          /\ client' = IdleClient
          /\ UNCHANGED <<issues, toDevice>>
       \/ /\ c \notin Unexpired
          /\ spent' = Unexpired \cup {c}
          /\ issues' = issues \cup {[command |-> command, at |-> now]}
          /\ \/ /\ toDevice' \in Transmit(toDevice, command)
                /\ client' = [pc |-> "ack", cap |-> c, command |-> command]
             \/ /\ toDevice' \in Transmit(toDevice, Noise)
                /\ client' = IdleClient
    /\ UNCHANGED <<now, confirmed, discarded, toHost>>
    /\ UNCHANGED deviceVars

AckOf(frame, command) == frame.kind = "ack" /\ frame.command = command

AckUnbound(frame, command) == frame.kind # "noise"

(* verify_device_ack: the device's signature, and the command it is for. *)
AckAccepted(frame, command) == AckOf(frame, command)

ReadAck ==
    /\ ClientAt("ack")
    /\ \E k \in 1 .. Len(toHost) :
          /\ toHost' = Rest(toHost, k)
          /\ \/ /\ k = 1 /\ AckAccepted(toHost[1], client.command)
                /\ confirmed' = confirmed \cup {client.command}
                /\ UNCHANGED discarded
             \/ /\ ~(k = 1 /\ AckAccepted(toHost[1], client.command))
                /\ discarded' = IF /\ \E i \in 1 .. k : AckOf(toHost[i], client.command)
                                   /\ \A i \in 1 .. k : toHost[i] # Noise
                                THEN discarded \cup {client.command} ELSE discarded
                /\ UNCHANGED confirmed
    /\ client' = IdleClient
    /\ UNCHANGED <<now, spent, issues, toDevice>>
    /\ UNCHANGED deviceVars

(* Three seconds without a frame. *)
TimeOut ==
    /\ ClientAt("challenge") \/ ClientAt("ack")
    /\ client' = IdleClient
    /\ UNCHANGED <<now, spent, issues, confirmed, discarded, toDevice, toHost>>
    /\ UNCHANGED deviceVars

(* The host sends a frame it kept. *)
Resend ==
    /\ \E i \in issues : toDevice' \in Transmit(toDevice, i.command)
    /\ UNCHANGED <<hostVars, toHost>>
    /\ UNCHANGED deviceVars

HostTick ==
    /\ now < MaxTime
    /\ now' = now + 1
    /\ UNCHANGED <<spent, client, issues, confirmed, discarded, toDevice, toHost>>
    /\ UNCHANGED deviceVars

Host ==
    \/ \E c \in Capabilities : StartExchange(c)
    \/ OpenPort \/ ReadChallenge \/ CheckExpiry \/ IssueCommand \/ ReadAck
    \/ TimeOut \/ Resend \/ HostTick

-----------------------------------------------------------------------------
(* The firmware *)

DeviceAt(pc) == device.pc = pc

(* What flash holds when a write of `new' stops half-way. *)
TornFlash(new) ==
    [boot : {flash.boot, new.boot}, sequence : {flash.sequence, new.sequence},
     count : {flash.count, new.count}]

Booted == [boot |-> flash.boot + 1, sequence |-> 0, count |-> flash.count]

(* begin_boot: nothing is published unless the new boot counter is         *)
(* committed; a device that cannot is locked until it is powered again.    *)
Boot ==
    /\ DeviceAt("off")
    /\ \/ /\ flash.boot < CounterMax /\ flash.count < CounterMax
          /\ \/ /\ flash' = Booted
                /\ device' = [pc |-> "challenge", memory |-> Booted]
             \/ /\ flash' \in TornFlash(Booted)
                /\ device' \in Halted
       \/ /\ flash.boot = CounterMax \/ flash.count = CounterMax
          /\ device' = [pc |-> "locked"]
          /\ UNCHANGED flash
    /\ UNCHANGED <<hostVars, toDevice, toHost, nonces, consumed, acts, acks>>

(* new_challenge: a fresh nonce takes the place of the last one. *)
NewChallenge ==
    /\ DeviceAt("challenge")
    /\ LET m == device.memory IN
       \/ /\ m.sequence = CounterMax
          /\ device' = [pc |-> "locked"]
          /\ UNCHANGED <<nonces, toHost>>
       \/ /\ m.sequence < CounterMax
          /\ nonces < MaxChallenges
          /\ nonces' = nonces + 1
          /\ toHost' \in Transmit(toHost, [kind |-> "challenge", boot |-> m.boot,
                                           nonce |-> nonces', sequence |-> m.sequence + 1])
          /\ device' = [pc |-> "read", memory |-> m, stale |-> FALSE]
    /\ UNCHANGED <<hostVars, toDevice, flash, consumed, acts, acks>>

ChallengeAges ==
    /\ DeviceAt("read") /\ ~device.stale
    /\ device' = [device EXCEPT !.stale = TRUE]
    /\ UNCHANGED <<hostVars, toDevice, toHost, flash, nonces, consumed, acts, acks>>

MatchesSequence(frame) ==
    frame.kind = "command" /\ frame.sequence = device.memory.sequence + 1

(* verify_command; the live nonce is the last one published. *)
MatchesChallenge(frame) ==
    /\ frame.kind = "command"
    /\ frame.boot = device.memory.boot
    /\ frame.sequence = device.memory.sequence + 1
    /\ frame.nonce = nonces

(* Every frame, good or bad, uses the challenge up. *)
ReadFrame ==
    /\ DeviceAt("read")
    /\ toDevice # <<>>
    /\ toDevice' = Tail(toDevice)
    /\ device' = IF ~device.stale /\ MatchesChallenge(Head(toDevice))
                 THEN [pc |-> "persist", memory |-> device.memory, command |-> Head(toDevice)]
                 ELSE [pc |-> "challenge", memory |-> device.memory]
    /\ UNCHANGED <<hostVars, toHost, flash, nonces, consumed, acts, acks>>

Consumption ==
    LET m == device.memory IN
    [boot |-> m.boot, sequence |-> device.command.sequence, count |-> m.count + 1]

(* What persist_consumption asks before it writes. *)
MayPersist ==
    /\ device.command.sequence = device.memory.sequence + 1
    /\ device.memory.count < CounterMax

PersistInMemory ==
    /\ DeviceAt("persist")
    /\ LET m == device.memory IN
       /\ MayPersist
       /\ consumed' = consumed \cup {device.command}
       /\ device' = [device EXCEPT !.pc = "actuate", !.memory = Consumption]
    /\ UNCHANGED <<hostVars, toDevice, toHost, flash, nonces, acts, acks>>

PersistMemoryFirst ==
    /\ DeviceAt("persist")
    /\ LET m == device.memory IN
       \/ /\ MayPersist
          /\ flash' = Consumption
          /\ consumed' = consumed \cup {device.command}
          /\ device' = [device EXCEPT !.pc = "actuate", !.memory = Consumption]
       \/ /\ MayPersist
          /\ flash' \in TornFlash(Consumption)
          /\ device' = [pc |-> "challenge", memory |-> Consumption]
          /\ UNCHANGED consumed
    /\ UNCHANGED <<hostVars, toDevice, toHost, nonces, acts, acks>>

(* persist_consumption: the servo moves only after the commit. *)
PersistConsumption ==
    /\ DeviceAt("persist")
    /\ LET m == device.memory IN
       \/ /\ MayPersist
          /\ \/ /\ flash' = Consumption
                /\ consumed' = consumed \cup {device.command}
                /\ device' = [device EXCEPT !.pc = "actuate", !.memory = Consumption]
             \/ /\ flash' \in TornFlash(Consumption)
                /\ device' = [pc |-> "challenge", memory |-> m]
                /\ UNCHANGED consumed
       \/ /\ ~MayPersist
          /\ device' = [pc |-> "challenge", memory |-> m]
          /\ UNCHANGED <<flash, consumed>>
    /\ UNCHANGED <<hostVars, toDevice, toHost, nonces, acts, acks>>

(* The attempt; the acknowledgement says whether the driver failed. *)
Actuate ==
    /\ DeviceAt("actuate")
    /\ acts' = Append(acts, device.command)
    /\ device' = [device EXCEPT !.pc = "ack"]
    /\ UNCHANGED <<hostVars, toDevice, toHost, flash, nonces, consumed, acks>>

(* emit_ack; the next challenge follows at once. *)
EmitAck ==
    /\ DeviceAt("ack")
    /\ toHost' \in Transmit(toHost, [kind |-> "ack", command |-> device.command,
                                     count |-> device.memory.count])
    /\ acks' = Append(acks, device.memory.count)
    /\ device' = [pc |-> "challenge", memory |-> device.memory]
    /\ UNCHANGED <<hostVars, toDevice, flash, nonces, consumed, acts>>

(* Power goes at any step, in the middle of a write as well; what the      *)
(* device had received and not read is lost.                               *)
PowerLoss ==
    /\ ~DeviceAt("off")
    /\ device' = [pc |-> "off"]
    /\ toDevice' = <<>>
    /\ flash' \in IF DeviceAt("persist") /\ MayPersist THEN TornFlash(Consumption)
                 ELSE {flash}
    /\ UNCHANGED <<hostVars, toHost, nonces, consumed, acts, acks>>

Firmware ==
    \/ Boot \/ NewChallenge \/ ChallengeAges \/ ReadFrame
    \/ PersistConsumption \/ Actuate \/ EmitAck \/ PowerLoss

BarrierNext == Host \/ Firmware

BarrierSpec == BarrierInit /\ [][BarrierNext]_barrierVars

-----------------------------------------------------------------------------
(* Properties *)

(* Consume before actuate, over power losses in the middle of a write: the *)
(* count in flash, from which the device restarts, never falls behind what *)
(* the servo has done; and no two acknowledgements carry the same count,   *)
(* later ones carry more, across restarts, so that the executor can order  *)
(* the device's statements.                                                *)
CountCoversActs ==
    /\ Len(acts) <= flash.count
    /\ \A i, j \in DOMAIN acks : i < j => acks[i] < acks[j]

(* The device consumes a command at most once and moves the servo for it   *)
(* at most once and afterwards, whatever is lost, damaged, sent again or   *)
(* interrupted: it implements the one-shot commands.                       *)
OneShot == INSTANCE OneShotCommands WITH Commands <- Command, acted <- acts

ImplementsOneShot == OneShot!OneShotSpec

(* Two moves for one capability need two commands, and the issuance store  *)
(* gives out the second only once the capability has expired.  That it may *)
(* give one out then, to a call that read the clock for the expiry before, *)
(* is not what the device's README and the message of esp32c3.py:327 say,  *)
(* which is at most one command for a capability.                          *)
OneMovePerLiveCapability ==
    \A i, j \in DOMAIN acts :
        (i < j /\ acts[i].cap = acts[j].cap)
        => \A issue \in issues :
              issue.command = acts[j] => issue.at > Expires[acts[j].cap]

(* An exchange that execute_once returns is of a command that moved the    *)
(* servo, stale frames on the line notwithstanding.                        *)
ConfirmedWasActed == \A c \in confirmed : \E i \in DOMAIN acts : acts[i] = c

(* The host adapter and the firmware fit together: an acknowledgement that *)
(* read with nothing damaged around it is the result of its exchange.      *)
AckIsReturned == discarded = {}
=============================================================================
