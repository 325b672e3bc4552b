---------------------------- MODULE PaperBarrierProofs ----------------------------
(***************************************************************************)
(* What the ESP32-C3 proof guarantees for any capabilities, any width of   *)
(* the device's counters and any capacity of the line, whatever is lost,   *)
(* damaged or sent again, and wherever the device loses power.             *)
(*                                                                         *)
(* The argument is an order.  Nonces are published in increasing order;    *)
(* the line keeps the order of the challenges, so the host issues its      *)
(* commands in it, and the device consumes and carries out only commands   *)
(* for the live nonce, in it again.  Of two moves for one capability the   *)
(* later is therefore for the command issued later, which the issuance     *)
(* store gives out only after the expiry.                                  *)
(***************************************************************************)
EXTENDS PaperBarrier, TLAPS

-----------------------------------------------------------------------------
(* The inductive invariant. *)

Issued(command) == \E i \in issues : i.command = command

Acted(command) == \E i \in DOMAIN acts : acts[i] = command

Up == device.pc \in {"challenge", "read", "persist", "actuate", "ack"}

Carries == device.pc \in {"persist", "actuate", "ack"}

(* The count in memory is the flash's or, after a commit that failed, one  *)
(* behind it; it covers what was done, and a new acknowledgement has a     *)
(* count that none before it had.                                          *)
CountsFine ==
    /\ Len(acts) <= flash.count
    /\ \A i \in DOMAIN acks : acks[i] <= flash.count
    /\ \A i, j \in DOMAIN acks : i < j => acks[i] < acks[j]
    /\ Up => /\ flash.count <= device.memory.count + 1
             /\ Len(acts) <= device.memory.count
             /\ \A i \in DOMAIN acks : acks[i] <= device.memory.count
    /\ device.pc = "actuate" => Len(acts) < device.memory.count
    /\ device.pc \in {"actuate", "ack"} => \A i \in DOMAIN acks : acks[i] < device.memory.count

(* Each nonce is good for one command: what is consumed has an older nonce *)
(* than the challenge that waits, or than the command about to be consumed.*)
NoncesFine ==
    /\ \A c \in consumed : c.nonce <= nonces /\ Issued(c)
    /\ device.pc \in {"read", "persist"} => \A c \in consumed : c.nonce < nonces
    /\ Carries => device.command.nonce = nonces /\ Issued(device.command)
    /\ device.pc = "actuate" => device.command \in consumed

(* The servo moves for consumed commands, in the order of their nonces.    *)
ActsFine ==
    /\ \A i \in DOMAIN acts : acts[i] \in consumed
    /\ \A i, j \in DOMAIN acts : i < j => acts[i].nonce < acts[j].nonce
    /\ device.pc = "actuate" => \A i \in DOMAIN acts : acts[i].nonce < nonces
    /\ device.pc = "ack" => Acted(device.command)

(* The line carries only issued commands, challenges in the order in which *)
(* they were published, and acknowledgements of what was done.             *)
LineFine ==
    /\ \A k \in DOMAIN toDevice : toDevice[k].kind = "command" => Issued(toDevice[k])
    /\ \A k \in DOMAIN toHost :
          /\ toHost[k].kind = "challenge" => toHost[k].nonce <= nonces
          /\ toHost[k].kind = "ack" => Acted(toHost[k].command)
    /\ \A k, l \in DOMAIN toHost :
          k < l /\ toHost[k].kind = "challenge" /\ toHost[l].kind = "challenge"
          => toHost[k].nonce < toHost[l].nonce

(* The challenge with nonce n is older than every one still on the line.   *)
Before(n) == \A k \in DOMAIN toHost : toHost[k].kind = "challenge" => n < toHost[k].nonce

HasChallenge == client.pc \in {"issue", "consume"}

(* So commands are issued in the order of their nonces; the store holds    *)
(* the capability of each, or has forgotten it after its expiry.           *)
IssuesFine ==
    /\ \A i \in issues :
          /\ i.command.nonce <= nonces /\ Before(i.command.nonce)
          /\ i.command.cap \in spent \/ now > Expires[i.command.cap]
    /\ HasChallenge =>
          /\ client.challenge.nonce <= nonces /\ Before(client.challenge.nonce)
          /\ \A i \in issues : i.command.nonce < client.challenge.nonce
    /\ \A i, k \in issues :
          i.command.cap = k.command.cap /\ i.command.nonce < k.command.nonce
          => k.at > Expires[k.command.cap]

BarrierInv ==
    /\ BarrierTypeOK /\ CountsFine /\ NoncesFine /\ ActsFine
    /\ LineFine /\ IssuesFine /\ ConfirmedWasActed

-----------------------------------------------------------------------------
(* Shapes. *)

(* The position of an idle client, and of a device without power. *)
LEMMA Plain ==
    /\ IdleClient.pc = "idle" /\ Noise.kind = "noise"
    /\ \A d \in Halted : d.pc \in {"off", "locked"}
    /\ \A d \in Running : d.pc \in {"challenge", "read", "persist", "actuate", "ack"}
  BY DEF IdleClient, Noise, Halted, Running

(* What a client holds at each position. *)
LEMMA ClientShape ==
    ASSUME BarrierTypeOK
    PROVE  /\ client.pc = "challenge" => client.cap \in Capabilities
           /\ client.pc \in {"issue", "consume"} =>
                 /\ client \in [pc : {"issue", "consume"}, cap : Capabilities,
                                challenge : Challenge]
                 /\ client.cap \in Capabilities /\ client.challenge \in Challenge
           /\ client.pc = "ack" => client.command \in Command
<1>1. client \in Client \/ client.pc = "idle"
  BY Plain DEF BarrierTypeOK
<1> QED
  BY <1>1 DEF Client

(* What a device holds at each position. *)
LEMMA DeviceShape ==
    ASSUME BarrierTypeOK
    PROVE  /\ Up <=> device \in Running
           /\ Up => device.memory \in Flash /\ device.memory.boot = flash.boot
                    /\ device.memory.count <= flash.count
           /\ device.pc = "read" => device \in [pc : {"read"}, memory : Flash, stale : BOOLEAN]
           /\ Carries => /\ device \in [pc : {"persist", "actuate", "ack"},
                                        memory : Flash, command : Command]
                         /\ device.command \in Command /\ Up
<1>1. device \in Running \/ (device \in Halted /\ device.pc \in {"off", "locked"})
  BY Plain DEF BarrierTypeOK
<1>2. Up <=> device \in Running
  BY <1>1, Plain DEF Up
<1>3. device \in Running => device.memory \in Flash
  BY DEF Running
<1>4. device \in Running /\ device.pc = "read" =>
          device \in [pc : {"read"}, memory : Flash, stale : BOOLEAN]
  BY DEF Running
<1>5. device \in Running /\ Carries =>
          /\ device \in [pc : {"persist", "actuate", "ack"}, memory : Flash, command : Command]
          /\ device.command \in Command
  BY DEF Running, Carries
<1> QED
  BY <1>2, <1>3, <1>4, <1>5 DEF Up, Carries, BarrierTypeOK

(* The fields of what flash holds, of a command and of a challenge. *)
LEMMA Fields ==
    /\ \A f \in Flash : /\ f.boot \in 0 .. CounterMax /\ f.sequence \in 0 .. CounterMax
                        /\ f.count \in 0 .. CounterMax
    /\ \A c \in Command : /\ c.nonce \in 1 .. MaxChallenges /\ c.cap \in Capabilities
                          /\ c.sequence \in 0 .. CounterMax /\ c.kind = "command"
    /\ \A c \in Challenge : /\ c.nonce \in 1 .. MaxChallenges /\ c.kind = "challenge"
                            /\ c.boot \in 0 .. CounterMax /\ c.sequence \in 0 .. CounterMax
    /\ \A a \in Ack : a.kind = "ack" /\ a.command \in Command
  BY DEF Flash, Command, Challenge, Ack, Counter

(* The frames of the two directions, told apart by their kind. *)
LEMMA Frames ==
    ASSUME BarrierTypeOK
    PROVE  /\ \A k \in DOMAIN toDevice : /\ toDevice[k] \in Command \cup {Noise}
                                         /\ toDevice[k].kind = "command" => toDevice[k] \in Command
           /\ \A k \in DOMAIN toHost :
                 /\ toHost[k] \in Challenge \cup Ack \cup {Noise}
                 /\ toHost[k].kind = "challenge" => toHost[k] \in Challenge
                 /\ toHost[k].kind = "ack" => toHost[k] \in Ack
<1> DEFINE H == Challenge \cup Ack \cup {Noise}
           D == Command \cup {Noise}
<1>1. toHost \in Seq(H) /\ toDevice \in Seq(D)
  BY DEF BarrierTypeOK
<1>2. /\ \A f \in H : /\ f.kind = "challenge" => f \in Challenge
                      /\ f.kind = "ack" => f \in Ack
      /\ \A f \in D : f.kind = "command" => f \in Command
  BY Fields, Plain
<1> HIDE DEF H, D
<1>3. (\A k \in DOMAIN toHost : toHost[k] \in H) /\ (\A k \in DOMAIN toDevice : toDevice[k] \in D)
  BY <1>1
<1> QED
  BY <1>2, <1>3 DEF H, D

-----------------------------------------------------------------------------
(* The line. *)

(* What a line is after a transmission: as it was, or one frame longer. *)
LEMMA Transmitted ==
    ASSUME NEW S, NEW line \in Seq(S), NEW frame \in S, Noise \in S,
           NEW after \in Transmit(line, frame)
    PROVE  /\ after \in Seq(S)
           /\ \A i \in DOMAIN line : i \in DOMAIN after /\ after[i] = line[i]
           /\ \A i \in DOMAIN after :
                 \/ i \in DOMAIN line
                 \/ /\ after[i] \in {frame, Noise}
                    /\ \A j \in DOMAIN after : j # i => j \in DOMAIN line /\ j < i
<1>1. after = line \/ after = Append(line, frame) \/ after = Append(line, Noise)
  BY DEF Transmit
<1>2. ASSUME NEW f \in S, after = Append(line, f)
      PROVE  /\ after \in Seq(S)
             /\ \A i \in DOMAIN line : i \in DOMAIN after /\ after[i] = line[i]
             /\ \A i \in DOMAIN after :
                   \/ i \in DOMAIN line
                   \/ /\ after[i] = f
                      /\ \A j \in DOMAIN after : j # i => j \in DOMAIN line /\ j < i
  BY <1>2
<1> QED
  BY <1>1, <1>2

(* What is left of a line after a read of k frames. *)
LEMMA Left ==
    ASSUME NEW S, NEW line \in Seq(S), NEW k \in 1 .. Len(line)
    PROVE  /\ Rest(line, k) \in Seq(S)
           /\ \A i \in DOMAIN Rest(line, k) :
                 i + k \in DOMAIN line /\ Rest(line, k)[i] = line[i + k]
  BY DEF Rest

-----------------------------------------------------------------------------
(* The type invariant. *)

LEMMA BarrierTypeInit == BarrierInit => BarrierTypeOK
<1> SUFFICES ASSUME BarrierInit PROVE BarrierTypeOK
  OBVIOUS
<1>1. flash \in Flash
  BY BarrierAssumption DEF BarrierInit, Flash, Counter
<1>2. device \in Halted /\ device.pc = "off"
  BY DEF BarrierInit, Halted
<1>3. device \notin Running
  BY <1>2, Plain
<1>4. \A S : <<>> \in Seq(S)
  OBVIOUS
<1> QED
  BY <1>1, <1>2, <1>3, <1>4, BarrierAssumption DEF BarrierInit, BarrierTypeOK

(* A step of the host that leaves the device alone. *)
LEMMA HostTypes ==
    ASSUME BarrierTypeOK, UNCHANGED deviceVars, now' \in Nat, spent' \subseteq Capabilities,
           client' \in Client \cup {IdleClient},
           toDevice' \in Seq(Command \cup {Noise}),
           toHost' \in Seq(Challenge \cup Ack \cup {Noise}),
           issues' \subseteq [command : Command, at : Nat],
           confirmed' \subseteq Command, discarded' \subseteq Command
    PROVE  BarrierTypeOK'
  BY DEF BarrierTypeOK, deviceVars

(* The command that the client's issuer signs. *)
IssuedCommand ==
    [kind |-> "command", cap |-> client.cap, boot |-> client.challenge.boot,
     nonce |-> client.challenge.nonce, sequence |-> client.challenge.sequence]

LEMMA IssuedIsCommand ==
    ASSUME BarrierTypeOK, client.pc = "consume"
    PROVE  /\ IssuedCommand \in Command /\ IssuedCommand.cap = client.cap
           /\ IssuedCommand.nonce = client.challenge.nonce
<1>1. client.cap \in Capabilities /\ client.challenge \in Challenge
  BY ClientShape
<1> QED
  BY <1>1 DEF IssuedCommand, Command, Challenge

(* What a successful or a refused issue does. *)
LEMMA IssueSplits ==
    ASSUME BarrierTypeOK, IssueCommand
    PROVE  /\ client.pc = "consume" /\ UNCHANGED <<now, confirmed, discarded, toHost>>
           /\ UNCHANGED deviceVars
           /\ \/ /\ client.cap \in Unexpired /\ spent' = Unexpired /\ client' = IdleClient
                 /\ UNCHANGED <<issues, toDevice>>
              \/ /\ client.cap \notin Unexpired /\ spent' = Unexpired \cup {client.cap}
                 /\ issues' = issues \cup {[command |-> IssuedCommand, at |-> now]}
                 /\ \/ /\ toDevice' \in Transmit(toDevice, IssuedCommand)
                       /\ client' = [pc |-> "ack", cap |-> client.cap, command |-> IssuedCommand]
                    \/ toDevice' \in Transmit(toDevice, Noise) /\ client' = IdleClient
  BY DEF IssueCommand, ClientAt, IssuedCommand

(* Every step of the host. *)
LEMMA HostTypeStep ==
    ASSUME BarrierTypeOK, Host
    PROVE  BarrierTypeOK'
<1>0. /\ now \in Nat /\ spent \subseteq Capabilities /\ client \in Client \cup {IdleClient}
      /\ toDevice \in Seq(Command \cup {Noise})
      /\ toHost \in Seq(Challenge \cup Ack \cup {Noise})
      /\ issues \subseteq [command : Command, at : Nat]
      /\ confirmed \subseteq Command /\ discarded \subseteq Command
  BY DEF BarrierTypeOK
<1>1. ASSUME NEW c \in Capabilities, StartExchange(c) PROVE BarrierTypeOK'
  <2>1. client' \in Client
    BY <1>1 DEF StartExchange, Client
  <2> QED
    BY <1>0, <1>1, <2>1, HostTypes DEF StartExchange
<1>2. CASE OpenPort
  <2>1. \A S : <<>> \in Seq(S)
    OBVIOUS
  <2> QED
    BY <1>0, <1>2, <2>1, HostTypes DEF OpenPort, hostVars
<1>3. CASE ReadChallenge
  <2>1. PICK k \in 1 .. Len(toHost) :
           /\ toHost' = Rest(toHost, k)
           /\ client' = IF k = 1 /\ toHost[1].kind = "challenge"
                        THEN [pc |-> "issue", cap |-> client.cap, challenge |-> toHost[1]]
                        ELSE IdleClient
    BY <1>3 DEF ReadChallenge
  <2>2. toHost' \in Seq(Challenge \cup Ack \cup {Noise})
    BY <1>0, <2>1, Left
  <2>3. client.cap \in Capabilities
    BY <1>3, ClientShape DEF ReadChallenge, ClientAt
  <2>4. k = 1 /\ toHost[1].kind = "challenge" => toHost[1] \in Challenge
    BY <1>0, Frames
  <2>5. client' \in Client \cup {IdleClient}
    BY <2>1, <2>3, <2>4 DEF Client
  <2> QED
    BY <1>0, <1>3, <2>2, <2>5, HostTypes DEF ReadChallenge
<1>4. CASE CheckExpiry
  <2>1. client \in [pc : {"issue", "consume"}, cap : Capabilities, challenge : Challenge]
    BY <1>4, ClientShape DEF CheckExpiry, ClientAt
  <2>2. [client EXCEPT !.pc = "consume"] \in Client
    BY <2>1 DEF Client
  <2> QED
    BY <1>0, <1>4, <2>2, HostTypes DEF CheckExpiry
<1>5. CASE IssueCommand
  <2>1. client.pc = "consume" /\ client.cap \in Capabilities /\ IssuedCommand \in Command
    BY <1>5, IssueSplits, ClientShape, IssuedIsCommand
  <2>2. spent' \subseteq Capabilities
    BY <1>0, <1>5, <2>1, IssueSplits DEF Unexpired
  <2>3. issues' \subseteq [command : Command, at : Nat]
    BY <1>0, <1>5, <2>1, IssueSplits
  <2>4. toDevice' \in Seq(Command \cup {Noise})
    BY <1>0, <1>5, <2>1, IssueSplits, Transmitted
  <2>5. client' \in Client \cup {IdleClient}
    BY <1>5, <2>1, IssueSplits DEF Client
  <2> QED
    BY <1>0, <1>5, <2>2, <2>3, <2>4, <2>5, IssueSplits, HostTypes
<1>6. CASE ReadAck
  <2>1. client.command \in Command
    BY <1>6, ClientShape DEF ReadAck, ClientAt
  <2>2. toHost' \in Seq(Challenge \cup Ack \cup {Noise})
    BY <1>0, <1>6, Left DEF ReadAck
  <2>3. confirmed' \subseteq Command /\ discarded' \subseteq Command
    BY <1>0, <1>6, <2>1 DEF ReadAck
  <2> QED
    BY <1>0, <1>6, <2>2, <2>3, HostTypes DEF ReadAck
<1>7. CASE TimeOut
  BY <1>0, <1>7, HostTypes DEF TimeOut
<1>8. CASE Resend
  <2>1. PICK i \in issues : toDevice' \in Transmit(toDevice, i.command)
    BY <1>8 DEF Resend
  <2>2. i.command \in Command
    BY <1>0, <2>1
  <2>3. toDevice' \in Seq(Command \cup {Noise})
    BY <1>0, <2>1, <2>2, Transmitted
  <2> QED
    BY <1>0, <1>8, <2>3, HostTypes DEF Resend, hostVars
<1>9. CASE HostTick
  BY <1>0, <1>9, HostTypes DEF HostTick
<1> QED
  BY <1>1, <1>2, <1>3, <1>4, <1>5, <1>6, <1>7, <1>8, <1>9 DEF Host

(* A step of the device that leaves the host alone. *)
LEMMA DeviceTypes ==
    ASSUME BarrierTypeOK, UNCHANGED hostVars,
           toDevice' \in Seq(Command \cup {Noise}),
           toHost' \in Seq(Challenge \cup Ack \cup {Noise}),
           flash' \in Flash, nonces' \in 0 .. MaxChallenges,
           consumed' \subseteq Command, acts' \in Seq(Command), acks' \in Seq(Counter),
           \/ device' \in Halted
           \/ /\ device' \in Running /\ device'.memory.boot = flash'.boot
              /\ device'.memory.count <= flash'.count
    PROVE  BarrierTypeOK'
<1>1. device' \in Halted => device' \notin Running
  BY Plain
<1> QED
  BY <1>1 DEF BarrierTypeOK, hostVars

(* A torn write leaves each value old or new. *)
LEMMA TornIsFlash ==
    ASSUME NEW new \in Flash, flash \in Flash, NEW torn \in TornFlash(new)
    PROVE  /\ torn \in Flash
           /\ torn.boot \in {flash.boot, new.boot} /\ torn.count \in {flash.count, new.count}
<1>1. /\ flash.boot \in Counter /\ flash.sequence \in Counter /\ flash.count \in Counter
      /\ new.boot \in Counter /\ new.sequence \in Counter /\ new.count \in Counter
  BY DEF Flash
<1> QED
  BY <1>1 DEF TornFlash, Flash

(* What flash is to hold after a start, and after a consumption. *)
LEMMA BootedIsFlash ==
    ASSUME flash \in Flash, flash.boot < CounterMax
    PROVE  /\ Booted \in Flash /\ Booted.boot = flash.boot + 1
           /\ Booted.sequence = 0 /\ Booted.count = flash.count
<1>1. flash.boot + 1 \in Counter /\ flash.count \in Counter /\ 0 \in Counter
  BY Fields, BarrierAssumption DEF Counter
<1> QED
  BY <1>1 DEF Booted, Flash

LEMMA ConsumptionIsFlash ==
    ASSUME BarrierTypeOK, device.pc = "persist", MayPersist
    PROVE  /\ Consumption \in Flash /\ Consumption.boot = device.memory.boot
           /\ Consumption.count = device.memory.count + 1
<1>1. device.memory \in Flash /\ device.command \in Command
  BY DeviceShape DEF Up, Carries
<1>2. /\ device.memory.boot \in Counter /\ device.command.sequence \in Counter
      /\ device.memory.count + 1 \in Counter
  BY <1>1, Fields, BarrierAssumption DEF Counter, MayPersist
<1> QED
  BY <1>2 DEF Consumption, Flash

(* What the step at a consumption comes to. *)
LEMMA PersistSplits ==
    ASSUME BarrierTypeOK, PersistConsumption
    PROVE  /\ device.pc = "persist" /\ UNCHANGED hostVars
           /\ UNCHANGED <<toDevice, toHost, nonces, acts, acks>>
           /\ \/ /\ MayPersist /\ flash' = Consumption
                 /\ consumed' = consumed \cup {device.command}
                 /\ device'.pc = "actuate" /\ device'.memory = Consumption
                 /\ device'.command = device.command /\ device' \in Running
              \/ /\ MayPersist /\ flash' \in TornFlash(Consumption)
                 /\ device'.pc = "challenge" /\ device'.memory = device.memory
                 /\ device' \in Running /\ UNCHANGED consumed
              \/ /\ UNCHANGED <<flash, consumed>>
                 /\ device'.pc = "challenge" /\ device'.memory = device.memory
                 /\ device' \in Running
<1>1. device.pc = "persist"
  BY DEF PersistConsumption, DeviceAt
<1>2. /\ device \in [pc : {"persist", "actuate", "ack"}, memory : Flash, command : Command]
      /\ device.memory \in Flash
  BY <1>1, DeviceShape DEF Carries, Up
<1>3. [pc |-> "challenge", memory |-> device.memory] \in Running
  BY <1>2 DEF Running
<1>4. CASE /\ MayPersist /\ flash' = Consumption
           /\ consumed' = consumed \cup {device.command}
           /\ device' = [device EXCEPT !.pc = "actuate", !.memory = Consumption]
  <2>1. Consumption \in Flash
    BY <1>1, <1>4, ConsumptionIsFlash
  <2>2. /\ device' \in [pc : {"persist", "actuate", "ack"}, memory : Flash, command : Command]
        /\ device'.pc = "actuate" /\ device'.memory = Consumption
        /\ device'.command = device.command
    BY <1>2, <1>4, <2>1
  <2>3. device' \in Running
    BY <2>2 DEF Running
  <2> QED
    BY <1>1, <1>4, <2>2, <2>3 DEF PersistConsumption
<1>5. CASE /\ MayPersist /\ flash' \in TornFlash(Consumption)
           /\ device' = [pc |-> "challenge", memory |-> device.memory]
           /\ UNCHANGED consumed
  BY <1>1, <1>3, <1>5 DEF PersistConsumption
<1>6. CASE /\ device' = [pc |-> "challenge", memory |-> device.memory]
           /\ UNCHANGED <<flash, consumed>>
  BY <1>1, <1>3, <1>6 DEF PersistConsumption
<1> QED
  BY <1>4, <1>5, <1>6 DEF PersistConsumption

(* What the device's other steps come to. *)
LEMMA BootSplits ==
    ASSUME BarrierTypeOK, Boot
    PROVE  /\ device.pc = "off" /\ UNCHANGED hostVars
           /\ UNCHANGED <<toDevice, toHost, nonces, consumed, acts, acks>>
           /\ \/ /\ flash' = Booted /\ flash.boot < CounterMax
                 /\ device' \in Running /\ device'.pc = "challenge" /\ device'.memory = Booted
              \/ /\ flash' \in TornFlash(Booted) /\ flash.boot < CounterMax
                 /\ device' \in Halted
              \/ UNCHANGED flash /\ device' \in Halted
<1>1. flash.boot < CounterMax => Booted \in Flash
  BY BootedIsFlash DEF BarrierTypeOK
<1>2. flash.boot < CounterMax => [pc |-> "challenge", memory |-> Booted] \in Running
  BY <1>1 DEF Running
<1>3. [pc |-> "locked"] \in Halted
  BY DEF Halted
<1> QED
  BY <1>2, <1>3 DEF Boot, DeviceAt

LEMMA ChallengeSplits ==
    ASSUME BarrierTypeOK, NewChallenge
    PROVE  /\ device.pc = "challenge" /\ UNCHANGED hostVars
           /\ UNCHANGED <<toDevice, flash, consumed, acts, acks>>
           /\ \/ device' \in Halted /\ UNCHANGED <<nonces, toHost>>
              \/ /\ nonces' = nonces + 1 /\ nonces' \in 1 .. MaxChallenges
                 /\ device' \in Running /\ device'.pc = "read" /\ device'.memory = device.memory
                 /\ \E c \in Challenge :
                       c.nonce = nonces' /\ toHost' \in Transmit(toHost, c)
<1>1. device.pc = "challenge" /\ device.memory \in Flash /\ nonces \in 0 .. MaxChallenges
  BY DeviceShape DEF NewChallenge, DeviceAt, Up, BarrierTypeOK
<1>2. /\ UNCHANGED hostVars /\ UNCHANGED <<toDevice, flash, consumed, acts, acks>>
      /\ \/ device' = [pc |-> "locked"] /\ UNCHANGED <<nonces, toHost>>
         \/ /\ device.memory.sequence < CounterMax /\ nonces < MaxChallenges
            /\ nonces' = nonces + 1
            /\ toHost' \in Transmit(toHost,
                  [kind |-> "challenge", boot |-> device.memory.boot, nonce |-> nonces',
                   sequence |-> device.memory.sequence + 1])
            /\ device' = [pc |-> "read", memory |-> device.memory, stale |-> FALSE]
  BY DEF NewChallenge
<1>3. CASE device' = [pc |-> "locked"] /\ UNCHANGED <<nonces, toHost>>
  BY <1>1, <1>2, <1>3 DEF Halted
<1>4. CASE /\ device.memory.sequence < CounterMax /\ nonces < MaxChallenges
           /\ nonces' = nonces + 1
           /\ toHost' \in Transmit(toHost,
                 [kind |-> "challenge", boot |-> device.memory.boot, nonce |-> nonces',
                  sequence |-> device.memory.sequence + 1])
           /\ device' = [pc |-> "read", memory |-> device.memory, stale |-> FALSE]
  <2> DEFINE c == [kind |-> "challenge", boot |-> device.memory.boot, nonce |-> nonces',
                   sequence |-> device.memory.sequence + 1]
  <2>1. nonces' \in 1 .. MaxChallenges
    BY <1>1, <1>4, BarrierAssumption
  <2>2. device.memory.boot \in Counter /\ device.memory.sequence + 1 \in Counter
    BY <1>1, <1>4, Fields, BarrierAssumption DEF Counter
  <2>3. c \in Challenge /\ c.nonce = nonces'
    BY <2>1, <2>2 DEF Challenge
  <2>4. device' \in Running /\ device'.pc = "read" /\ device'.memory = device.memory
    BY <1>1, <1>4 DEF Running
  <2>5. toHost' \in Transmit(toHost, c)
    BY <1>4
  <2> HIDE DEF c
  <2> QED
    BY <1>1, <1>2, <1>4, <2>1, <2>3, <2>4, <2>5
<1> QED
  BY <1>2, <1>3, <1>4

LEMMA AgesSplits ==
    ASSUME BarrierTypeOK, ChallengeAges
    PROVE  /\ device.pc = "read" /\ device'.pc = "read" /\ device'.memory = device.memory
           /\ device' \in Running /\ UNCHANGED hostVars
           /\ UNCHANGED <<toDevice, toHost, flash, nonces, consumed, acts, acks>>
<1>1. device \in [pc : {"read"}, memory : Flash, stale : BOOLEAN] /\ device.pc = "read"
  BY DeviceShape DEF ChallengeAges, DeviceAt
<1>2. device' = [device EXCEPT !.stale = TRUE]
  BY DEF ChallengeAges
<1>3. /\ device' \in [pc : {"read"}, memory : Flash, stale : BOOLEAN]
      /\ device'.memory = device.memory
  BY <1>1, <1>2
<1> QED
  BY <1>1, <1>3 DEF ChallengeAges, Running

LEMMA ReadSplits ==
    ASSUME BarrierTypeOK, ReadFrame
    PROVE  /\ device.pc = "read" /\ UNCHANGED hostVars
           /\ UNCHANGED <<toHost, flash, nonces, consumed, acts, acks>>
           /\ toDevice' \in Seq(Command \cup {Noise})
           /\ \A i \in DOMAIN toDevice' : i + 1 \in DOMAIN toDevice
                                          /\ toDevice'[i] = toDevice[i + 1]
           /\ device' \in Running /\ device'.memory = device.memory
           /\ \/ device'.pc = "challenge"
              \/ /\ device'.pc = "persist" /\ 1 \in DOMAIN toDevice
                 /\ device'.command = toDevice[1] /\ toDevice[1].kind = "command"
                 /\ toDevice[1].nonce = nonces
<1>1. device.pc = "read" /\ device.memory \in Flash
  BY DeviceShape DEF ReadFrame, DeviceAt, Up
<1>2. toDevice \in Seq(Command \cup {Noise}) /\ toDevice # <<>> /\ toDevice' = Tail(toDevice)
  BY DEF BarrierTypeOK, ReadFrame
<1>3. /\ toDevice' \in Seq(Command \cup {Noise}) /\ 1 \in DOMAIN toDevice
      /\ Head(toDevice) = toDevice[1]
      /\ \A i \in DOMAIN toDevice' : i + 1 \in DOMAIN toDevice /\ toDevice'[i] = toDevice[i + 1]
  <2> DEFINE D == Command \cup {Noise}
  <2>1. toDevice \in Seq(D)
    BY <1>2
  <2> HIDE DEF D
  <2>2. /\ toDevice' \in Seq(D) /\ 1 \in DOMAIN toDevice
        /\ Head(toDevice) = toDevice[1]
        /\ \A i \in DOMAIN toDevice' : i + 1 \in DOMAIN toDevice /\ toDevice'[i] = toDevice[i + 1]
    BY <1>2, <2>1
  <2> QED
    BY <2>2 DEF D
<1>4. CASE device' = [pc |-> "challenge", memory |-> device.memory]
  <2>1. device' \in Running /\ device'.pc = "challenge" /\ device'.memory = device.memory
    BY <1>1, <1>4 DEF Running
  <2> QED
    BY <1>1, <1>3, <2>1 DEF ReadFrame
<1>5. CASE /\ MatchesChallenge(Head(toDevice))
           /\ device' = [pc |-> "persist", memory |-> device.memory, command |-> Head(toDevice)]
  <2>1. toDevice[1].kind = "command" /\ toDevice[1].nonce = nonces
    BY <1>3, <1>5 DEF MatchesChallenge
  <2>2. toDevice[1] \in Command
    BY <1>3, <2>1, Frames
  <2>3. device' \in Running /\ device'.pc = "persist" /\ device'.memory = device.memory
        /\ device'.command = toDevice[1]
    BY <1>1, <1>3, <1>5, <2>2 DEF Running
  <2> QED
    BY <1>1, <1>3, <2>1, <2>3 DEF ReadFrame
<1> QED
  BY <1>4, <1>5 DEF ReadFrame

LEMMA ActSplits ==
    ASSUME BarrierTypeOK, Actuate
    PROVE  /\ device.pc = "actuate" /\ UNCHANGED hostVars
           /\ UNCHANGED <<toDevice, toHost, flash, nonces, consumed, acks>>
           /\ acts' = Append(acts, device.command) /\ device.command \in Command
           /\ device' \in Running /\ device'.pc = "ack" /\ device'.memory = device.memory
           /\ device'.command = device.command
<1>1. /\ device \in [pc : {"persist", "actuate", "ack"}, memory : Flash, command : Command]
      /\ device.pc = "actuate" /\ device.command \in Command
  BY DeviceShape DEF Actuate, DeviceAt, Carries
<1>2. device' = [device EXCEPT !.pc = "ack"]
  BY DEF Actuate
<1>3. /\ device' \in [pc : {"persist", "actuate", "ack"}, memory : Flash, command : Command]
      /\ device'.pc = "ack" /\ device'.memory = device.memory
      /\ device'.command = device.command
  BY <1>1, <1>2
<1> QED
  BY <1>1, <1>3 DEF Actuate, Running

LEMMA AckSplits ==
    ASSUME BarrierTypeOK, EmitAck
    PROVE  /\ device.pc = "ack" /\ UNCHANGED hostVars
           /\ UNCHANGED <<toDevice, flash, nonces, consumed, acts>>
           /\ acks' = Append(acks, device.memory.count) /\ device.memory.count \in Counter
           /\ \E a \in Ack : a.command = device.command /\ toHost' \in Transmit(toHost, a)
           /\ device' \in Running /\ device'.pc = "challenge" /\ device'.memory = device.memory
<1>1. device.memory \in Flash /\ device.pc = "ack" /\ device.command \in Command
  BY DeviceShape DEF EmitAck, DeviceAt, Carries, Up
<1>2. device.memory.count \in Counter
  BY <1>1, Fields DEF Counter
<1> DEFINE a == [kind |-> "ack", command |-> device.command, count |-> device.memory.count]
<1>3. a \in Ack /\ a.command = device.command
  BY <1>1, <1>2 DEF Ack
<1>4. toHost' \in Transmit(toHost, a)
  BY DEF EmitAck
<1>5. device' \in Running /\ device'.pc = "challenge" /\ device'.memory = device.memory
  BY <1>1 DEF EmitAck, Running
<1> HIDE DEF a
<1> QED
  BY <1>1, <1>2, <1>3, <1>4, <1>5 DEF EmitAck

LEMMA PowerSplits ==
    ASSUME BarrierTypeOK, PowerLoss
    PROVE  /\ UNCHANGED hostVars /\ UNCHANGED <<toHost, nonces, consumed, acts, acks>>
           /\ device' \in Halted /\ toDevice' = <<>>
           /\ \/ device.pc = "persist" /\ MayPersist /\ flash' \in TornFlash(Consumption)
              \/ UNCHANGED flash
  BY DEF PowerLoss, DeviceAt, Halted

(* Every step of the firmware. *)
LEMMA FirmwareTypeStep ==
    ASSUME BarrierTypeOK, Firmware
    PROVE  BarrierTypeOK'
<1>0. /\ toDevice \in Seq(Command \cup {Noise})
      /\ toHost \in Seq(Challenge \cup Ack \cup {Noise})
      /\ flash \in Flash /\ nonces \in 0 .. MaxChallenges
      /\ consumed \subseteq Command /\ acts \in Seq(Command) /\ acks \in Seq(Counter)
  BY DEF BarrierTypeOK
<1>1. CASE Boot
  <2>1. flash.boot < CounterMax => Booted \in Flash /\ Booted.count = flash.count
    BY <1>0, BootedIsFlash
  <2>2. flash' \in Flash
    BY <1>0, <1>1, <2>1, BootSplits, TornIsFlash
  <2>3. \/ device' \in Halted
        \/ /\ device' \in Running /\ device'.memory.boot = flash'.boot
           /\ device'.memory.count <= flash'.count
    BY <1>0, <1>1, <2>1, BootSplits, Fields, BarrierAssumption
  <2> QED
    BY <1>0, <1>1, <2>2, <2>3, BootSplits, DeviceTypes
<1>2. CASE NewChallenge
  <2>1. toHost' \in Seq(Challenge \cup Ack \cup {Noise})
    BY <1>0, <1>2, ChallengeSplits, Transmitted
  <2>2. nonces' \in 0 .. MaxChallenges
    BY <1>0, <1>2, ChallengeSplits
  <2>3. device.memory.boot = flash.boot /\ device.memory.count <= flash.count
    BY <1>2, ChallengeSplits, DeviceShape DEF Up
  <2> QED
    BY <1>0, <1>2, <2>1, <2>2, <2>3, ChallengeSplits, DeviceTypes
<1>3. CASE ChallengeAges
  <2>1. device.memory.boot = flash.boot /\ device.memory.count <= flash.count
    BY <1>3, AgesSplits, DeviceShape DEF Up
  <2> QED
    BY <1>0, <1>3, <2>1, AgesSplits, DeviceTypes
<1>4. CASE ReadFrame
  <2>1. device.memory.boot = flash.boot /\ device.memory.count <= flash.count
    BY <1>4, ReadSplits, DeviceShape DEF Up
  <2> QED
    BY <1>0, <1>4, <2>1, ReadSplits, DeviceTypes
<1>5. CASE PersistConsumption
  <2>1. /\ device.pc = "persist" /\ device.memory.boot = flash.boot
        /\ device.memory.count <= flash.count /\ device.memory \in Flash
        /\ device.command \in Command
    BY <1>5, PersistSplits, DeviceShape DEF Up, Carries
  <2>2. MayPersist => /\ Consumption \in Flash /\ Consumption.boot = device.memory.boot
                      /\ Consumption.count = device.memory.count + 1
    BY <2>1, ConsumptionIsFlash
  <2>3. flash' \in Flash
    BY <1>0, <1>5, <2>2, PersistSplits, TornIsFlash
  <2>4. consumed' \subseteq Command
    BY <1>0, <1>5, <2>1, PersistSplits
  <2>5. MayPersist /\ flash' \in TornFlash(Consumption) =>
            flash'.boot = flash.boot /\ device.memory.count <= flash'.count
    <3>1. /\ device.memory.count \in 0 .. CounterMax /\ flash.count \in 0 .. CounterMax
      BY <1>0, <2>1, Fields
    <3>2. MayPersist /\ flash' \in TornFlash(Consumption) =>
              /\ flash'.boot \in {flash.boot, Consumption.boot}
              /\ flash'.count \in {flash.count, Consumption.count}
      BY <1>0, <2>2, TornIsFlash
    <3> QED
      BY <2>1, <2>2, <3>1, <3>2
  <2>6. \/ device' \in Halted
        \/ /\ device' \in Running /\ device'.memory.boot = flash'.boot
           /\ device'.memory.count <= flash'.count
    <3>1. CASE flash' = Consumption /\ device'.memory = Consumption /\ MayPersist
      <4>1. Consumption.count \in 0 .. CounterMax
        BY <2>2, <3>1, Fields
      <4> QED
        BY <1>5, <3>1, <4>1, PersistSplits, BarrierAssumption
    <3>2. CASE device'.memory = device.memory /\ device' \in Running /\ MayPersist
               /\ flash' \in TornFlash(Consumption)
      BY <2>1, <2>5, <3>2
    <3>3. CASE device'.memory = device.memory /\ device' \in Running /\ UNCHANGED flash
      BY <2>1, <3>3
    <3> QED
      BY <1>5, <3>1, <3>2, <3>3, PersistSplits
  <2> QED
    BY <1>0, <1>5, <2>3, <2>4, <2>6, PersistSplits, DeviceTypes
<1>6. CASE Actuate
  <2>1. device.memory.boot = flash.boot /\ device.memory.count <= flash.count
    BY <1>6, ActSplits, DeviceShape DEF Up
  <2>2. acts' \in Seq(Command)
    <3>1. acts' = Append(acts, device.command) /\ device.command \in Command
      BY <1>6, ActSplits
    <3>2. acts \in Seq(Command)
      BY <1>0
    <3> QED
      BY <3>1, <3>2
  <2> QED
    BY <1>0, <1>6, <2>1, <2>2, ActSplits, DeviceTypes
<1>7. CASE EmitAck
  <2>1. device.memory.boot = flash.boot /\ device.memory.count <= flash.count
    BY <1>7, AckSplits, DeviceShape DEF Up
  <2>2. acks' \in Seq(Counter)
    <3>1. acks' = Append(acks, device.memory.count) /\ device.memory.count \in Counter
      BY <1>7, AckSplits
    <3>2. acks \in Seq(Counter)
      BY <1>0
    <3> QED
      BY <3>1, <3>2
  <2>3. toHost' \in Seq(Challenge \cup Ack \cup {Noise})
    BY <1>0, <1>7, AckSplits, Transmitted
  <2> QED
    BY <1>0, <1>7, <2>1, <2>2, <2>3, AckSplits, DeviceTypes
<1>8. CASE PowerLoss
  <2>1. flash' \in Flash
    BY <1>0, <1>8, PowerSplits, ConsumptionIsFlash, TornIsFlash
  <2>2. toDevice' \in Seq(Command \cup {Noise})
    BY <1>8, PowerSplits
  <2> QED
    BY <1>0, <1>8, <2>1, <2>2, PowerSplits, DeviceTypes
<1> QED
  BY <1>1, <1>2, <1>3, <1>4, <1>5, <1>6, <1>7, <1>8 DEF Firmware

(* Every step keeps the shapes of the variables. *)
LEMMA BarrierTypeStep == BarrierTypeOK /\ [BarrierNext]_barrierVars => BarrierTypeOK'
<1>1. CASE UNCHANGED barrierVars
  BY <1>1 DEF barrierVars, hostVars, deviceVars, BarrierTypeOK
<1> QED
  BY <1>1, HostTypeStep, FirmwareTypeStep DEF BarrierNext

-----------------------------------------------------------------------------
(* What a step of the host keeps. *)

(* What is said of the device alone. *)
LEMMA HostKeepsDevice ==
    ASSUME CountsFine, NoncesFine, ActsFine, UNCHANGED deviceVars, issues \subseteq issues'
    PROVE  CountsFine' /\ NoncesFine' /\ ActsFine'
<1>1. \A c : Issued(c) => Issued(c)'
  BY DEF Issued
<1>2. CountsFine'
  BY DEF CountsFine, deviceVars, Up
<1>3. NoncesFine'
  BY <1>1 DEF NoncesFine, deviceVars, Carries
<1>4. ActsFine'
  BY DEF ActsFine, deviceVars, Acted
<1> QED
  BY <1>2, <1>3, <1>4

(* After the step the line to the host holds what was on it from the frame *)
(* after the k-th on, and perhaps Noise.                                   *)
HostLineMoves(k) ==
    \A i \in DOMAIN toHost' :
        toHost'[i] = Noise \/ (i + k \in DOMAIN toHost /\ toHost'[i] = toHost[i + k])

(* After the step the line to the device holds issued commands and Noise. *)
DeviceLineMoves ==
    \A i \in DOMAIN toDevice' :
        \/ toDevice'[i] = Noise
        \/ \E j \in DOMAIN toDevice : toDevice'[i] = toDevice[j]
        \/ Issued(toDevice[i])'

LEMMA LineKeeps ==
    ASSUME BarrierTypeOK, BarrierTypeOK', LineFine, NEW k \in Nat, HostLineMoves(k),
           DeviceLineMoves, issues \subseteq issues', nonces' = nonces, acts' = acts
    PROVE  LineFine'
<1>1. ASSUME NEW i \in DOMAIN toDevice', toDevice'[i].kind = "command"
      PROVE  Issued(toDevice[i])'
  <2>1. CASE \E j \in DOMAIN toDevice : toDevice'[i] = toDevice[j]
    <3>1. PICK j \in DOMAIN toDevice : toDevice'[i] = toDevice[j]
      BY <2>1
    <3>2. \E k2 \in issues : k2.command = toDevice[j]
      BY <1>1, <3>1 DEF LineFine, Issued
    <3> QED
      BY <3>1, <3>2 DEF Issued
  <2> QED
    BY <1>1, <2>1, Plain DEF DeviceLineMoves
<1>2. ASSUME NEW i \in DOMAIN toHost'
      PROVE  /\ toHost'[i].kind = "challenge" => toHost'[i].nonce <= nonces'
             /\ toHost'[i].kind = "ack" => Acted(toHost[i].command)'
  BY <1>2, Plain DEF HostLineMoves, LineFine, Acted
<1>3. ASSUME NEW i \in DOMAIN toHost', NEW l \in DOMAIN toHost', i < l,
             toHost'[i].kind = "challenge", toHost'[l].kind = "challenge"
      PROVE  toHost'[i].nonce < toHost'[l].nonce
  <2>1. /\ i + k \in DOMAIN toHost /\ toHost'[i] = toHost[i + k]
        /\ l + k \in DOMAIN toHost /\ toHost'[l] = toHost[l + k]
    BY <1>3, Plain DEF HostLineMoves
  <2>2. i \in Nat /\ l \in Nat
    BY DEF BarrierTypeOK
  <2> QED
    BY <1>3, <2>1, <2>2 DEF LineFine
<1> QED
  BY <1>1, <1>2, <1>3 DEF LineFine

(* A challenge older than every one on the line stays so. *)
LEMMA BeforeKeeps ==
    ASSUME NEW n, Before(n), NEW k \in Nat, HostLineMoves(k)
    PROVE  (\A i \in DOMAIN toHost' : toHost'[i].kind = "challenge" => n < toHost'[i].nonce)
  BY Plain DEF Before, HostLineMoves

(* What a step that issues nothing keeps, if the client has no challenge   *)
(* after it that it had not before.                                        *)
LEMMA IssuesKeep ==
    ASSUME BarrierTypeOK, BarrierTypeOK', IssuesFine, NEW k \in Nat, HostLineMoves(k),
           issues' = issues, nonces' = nonces,
           now' >= now, spent' = spent,
           HasChallenge' => HasChallenge /\ client'.challenge = client.challenge
    PROVE  IssuesFine'
<1>1. now \in Nat /\ now' \in Nat
  BY DEF BarrierTypeOK
<1>2. ASSUME NEW i \in issues
      PROVE  i.command \in Command /\ Expires[i.command.cap] \in Nat
  <2>1. i \in [command : Command, at : Nat]
    BY DEF BarrierTypeOK
  <2> QED
    BY <2>1, Fields, BarrierAssumption
<1>3. ASSUME NEW i \in issues'
      PROVE  /\ i.command.nonce <= nonces' /\ Before(i.command.nonce)'
             /\ i.command.cap \in spent' \/ now' > Expires[i.command.cap]
  <2>1. Before(i.command.nonce)'
    BY BeforeKeeps DEF IssuesFine, Before
  <2> QED
    BY <1>1, <1>2, <2>1 DEF IssuesFine
<1>4. HasChallenge' =>
          /\ client'.challenge.nonce <= nonces' /\ Before(client.challenge.nonce)'
          /\ \A i \in issues' : i.command.nonce < client'.challenge.nonce
  <2> SUFFICES ASSUME HasChallenge'
               PROVE  /\ client'.challenge.nonce <= nonces' /\ Before(client.challenge.nonce)'
                      /\ \A i \in issues' : i.command.nonce < client'.challenge.nonce
    OBVIOUS
  <2>1. HasChallenge /\ client'.challenge = client.challenge
    OBVIOUS
  <2>2. Before(client.challenge.nonce)'
    BY <2>1, BeforeKeeps DEF IssuesFine, Before
  <2> QED
    BY <2>1, <2>2 DEF IssuesFine
<1> QED
  BY <1>3, <1>4 DEF IssuesFine

(* The lines have not moved. *)
LEMMA LineStill ==
    ASSUME BarrierTypeOK
    PROVE  /\ toHost' = toHost => HostLineMoves(0)
           /\ toDevice' = toDevice => DeviceLineMoves
<1>1. \A i \in DOMAIN toHost : i \in Nat /\ i + 0 = i
  BY DEF BarrierTypeOK
<1> QED
  BY <1>1 DEF HostLineMoves, DeviceLineMoves

(* Steps of the host that issue nothing and accept nothing. *)
LEMMA HostQuiet ==
    ASSUME BarrierInv, BarrierTypeOK', UNCHANGED deviceVars,
           UNCHANGED <<spent, issues, confirmed>>, now' >= now,
           NEW k \in Nat, HostLineMoves(k), DeviceLineMoves,
           HasChallenge' => HasChallenge /\ client'.challenge = client.challenge
    PROVE  BarrierInv'
<1>1. CountsFine' /\ NoncesFine' /\ ActsFine'
  BY HostKeepsDevice DEF BarrierInv
<1>2. LineFine' /\ IssuesFine'
  BY LineKeeps, IssuesKeep DEF BarrierInv, deviceVars
<1>3. ConfirmedWasActed'
  BY DEF BarrierInv, ConfirmedWasActed, deviceVars
<1> QED
  BY <1>1, <1>2, <1>3 DEF BarrierInv

(* The host's steps that only wait, read the clock or write kept frames.   *)
LEMMA HostQuietSteps ==
    ASSUME BarrierInv, BarrierTypeOK',
           \/ \E c \in Capabilities : StartExchange(c)
           \/ OpenPort \/ CheckExpiry \/ TimeOut \/ Resend \/ HostTick
    PROVE  BarrierInv'
<1>0. BarrierTypeOK /\ now \in Nat
  BY DEF BarrierInv, BarrierTypeOK
<1>1. ASSUME NEW c \in Capabilities, StartExchange(c) PROVE BarrierInv'
  <2>1. ~HasChallenge'
    BY <1>1 DEF StartExchange, HasChallenge
  <2> QED
    BY <1>0, <1>1, <2>1, LineStill, HostQuiet DEF StartExchange
<1>2. CASE OpenPort
  <2>1. HostLineMoves(0) /\ DeviceLineMoves
    BY <1>2 DEF OpenPort, HostLineMoves, DeviceLineMoves
  <2>2. HasChallenge' => HasChallenge /\ client'.challenge = client.challenge
    BY <1>2 DEF OpenPort, hostVars, HasChallenge
  <2> QED
    BY <1>0, <1>2, <2>1, <2>2, HostQuiet DEF OpenPort, hostVars
<1>3. CASE CheckExpiry
  <2>1. /\ client \in [pc : {"issue", "consume"}, cap : Capabilities, challenge : Challenge]
        /\ HasChallenge
    BY <1>0, <1>3, ClientShape DEF CheckExpiry, ClientAt, HasChallenge
  <2>2. HasChallenge' => client'.challenge = client.challenge
    <3>1. CASE client' = [client EXCEPT !.pc = "consume"]
      BY <2>1, <3>1
    <3>2. CASE client' = IdleClient
      BY <3>2, Plain DEF HasChallenge
    <3> QED
      BY <1>3, <3>1, <3>2 DEF CheckExpiry
  <2> QED
    BY <1>0, <1>3, <2>1, <2>2, LineStill, HostQuiet DEF CheckExpiry
<1>4. CASE TimeOut
  <2>1. ~HasChallenge'
    BY <1>4, Plain DEF TimeOut, HasChallenge
  <2> QED
    BY <1>0, <1>4, <2>1, LineStill, HostQuiet DEF TimeOut
<1>5. CASE Resend
  <2>1. PICK i \in issues : toDevice' \in Transmit(toDevice, i.command)
    BY <1>5 DEF Resend
  <2>2. i.command \in Command /\ toDevice \in Seq(Command \cup {Noise})
    BY <1>0 DEF BarrierTypeOK
  <2>3. issues' = issues
    BY <1>5 DEF Resend, hostVars
  <2>4. DeviceLineMoves
    BY <2>1, <2>2, <2>3, Transmitted DEF DeviceLineMoves, Issued
  <2>5. HasChallenge' => HasChallenge /\ client'.challenge = client.challenge
    BY <1>5 DEF Resend, hostVars, HasChallenge
  <2> QED
    BY <1>0, <1>5, <2>4, <2>5, LineStill, HostQuiet DEF Resend, hostVars
<1>6. CASE HostTick
  <2>1. HasChallenge' => HasChallenge /\ client'.challenge = client.challenge
    BY <1>6 DEF HostTick, HasChallenge
  <2> QED
    BY <1>0, <1>6, <2>1, LineStill, HostQuiet DEF HostTick
<1> QED
  BY <1>1, <1>2, <1>3, <1>4, <1>5, <1>6

(* The challenge read is the oldest on the line, and newer than those for  *)
(* which commands were issued.                                             *)
LEMMA ReadChallengeKeeps ==
    ASSUME BarrierInv, BarrierTypeOK', ReadChallenge
    PROVE  BarrierInv'
<1>0. BarrierTypeOK /\ LineFine /\ IssuesFine
  BY DEF BarrierInv
<1>1. PICK k \in 1 .. Len(toHost) :
         /\ toHost' = Rest(toHost, k)
         /\ client' = IF k = 1 /\ toHost[1].kind = "challenge"
                      THEN [pc |-> "issue", cap |-> client.cap, challenge |-> toHost[1]]
                      ELSE IdleClient
  BY DEF ReadChallenge
<1>2. k \in Nat /\ HostLineMoves(k)
  BY <1>0, <1>1, Left DEF HostLineMoves, BarrierTypeOK
<1>3. DeviceLineMoves /\ UNCHANGED deviceVars /\ UNCHANGED <<now, spent, issues, confirmed>>
  BY <1>0, LineStill DEF ReadChallenge
<1>4. now \in Nat
  BY <1>0 DEF BarrierTypeOK
<1>5. CASE client' = IdleClient
  <2>1. ~HasChallenge'
    BY <1>5, Plain DEF HasChallenge
  <2> QED
    BY <1>2, <1>3, <1>4, <2>1, HostQuiet
<1>6. CASE /\ k = 1 /\ toHost[1].kind = "challenge"
           /\ client' = [pc |-> "issue", cap |-> client.cap, challenge |-> toHost[1]]
  <2>1. CountsFine' /\ NoncesFine' /\ ActsFine'
    BY <1>3, HostKeepsDevice DEF BarrierInv
  <2>2. LineFine'
    BY <1>0, <1>2, <1>3, LineKeeps DEF deviceVars
  <2>3. ConfirmedWasActed'
    BY <1>3 DEF BarrierInv, ConfirmedWasActed, deviceVars
  <2>4. 1 \in DOMAIN toHost /\ toHost[1] \in Challenge /\ client'.challenge = toHost[1]
    BY <1>0, <1>1, <1>6, Frames DEF BarrierTypeOK
  <2>5. nonces' = nonces
    BY <1>3 DEF deviceVars
  <2>6. ASSUME NEW i \in DOMAIN toHost', toHost'[i].kind = "challenge"
        PROVE  toHost[1].nonce < toHost'[i].nonce
    <3>1. i \in Nat /\ i > 0
      BY DEF BarrierTypeOK
    <3>2. i + 1 \in DOMAIN toHost /\ toHost'[i] = toHost[i + 1]
      BY <1>2, <1>6, <2>6, Plain DEF HostLineMoves
    <3> QED
      BY <1>0, <1>6, <2>4, <2>6, <3>1, <3>2 DEF LineFine
  <2>7. \A i \in issues : i.command.nonce < toHost[1].nonce
    BY <1>0, <1>6, <2>4 DEF IssuesFine, Before
  <2>8. toHost[1].nonce <= nonces
    BY <1>0, <1>6, <2>4 DEF LineFine
  <2>9. \A i \in issues' : Before(i.command.nonce)'
    BY <1>0, <1>2, <1>3, BeforeKeeps DEF IssuesFine, Before
  <2>10. HasChallenge' =>
            /\ client'.challenge.nonce <= nonces' /\ Before(client.challenge.nonce)'
            /\ \A i \in issues' : i.command.nonce < client'.challenge.nonce
    BY <1>3, <2>4, <2>5, <2>6, <2>7, <2>8 DEF Before
  <2>11. IssuesFine'
    BY <1>0, <1>3, <2>5, <2>9, <2>10 DEF IssuesFine
  <2> QED
    BY <2>1, <2>2, <2>3, <2>11 DEF BarrierInv
<1> QED
  BY <1>1, <1>5, <1>6

(* The acknowledgement accepted is for a command that moved the servo. *)
LEMMA ReadAckKeeps ==
    ASSUME BarrierInv, BarrierTypeOK', ReadAck
    PROVE  BarrierInv'
<1>0. BarrierTypeOK /\ LineFine /\ IssuesFine /\ now \in Nat
  BY DEF BarrierInv, BarrierTypeOK
<1>1. PICK k \in 1 .. Len(toHost) :
         /\ toHost' = Rest(toHost, k)
         /\ \/ /\ k = 1 /\ AckAccepted(toHost[1], client.command)
               /\ confirmed' = confirmed \cup {client.command}
            \/ UNCHANGED confirmed
  BY DEF ReadAck
<1>2. k \in Nat /\ HostLineMoves(k)
  BY <1>0, <1>1, Left DEF HostLineMoves, BarrierTypeOK
<1>3. DeviceLineMoves /\ UNCHANGED deviceVars /\ UNCHANGED <<now, spent, issues>>
  BY <1>0, LineStill DEF ReadAck
<1>4. ~HasChallenge'
  BY Plain DEF ReadAck, HasChallenge
<1>5. CountsFine' /\ NoncesFine' /\ ActsFine'
  BY <1>3, HostKeepsDevice DEF BarrierInv
<1>6. LineFine' /\ IssuesFine'
  BY <1>0, <1>2, <1>3, <1>4, LineKeeps, IssuesKeep DEF deviceVars
<1>7. ConfirmedWasActed'
  <2>1. \A c \in confirmed : Acted(c)
    BY DEF BarrierInv, ConfirmedWasActed, Acted
  <2>2. k = 1 /\ AckAccepted(toHost[1], client.command) => Acted(client.command)
    BY <1>0, <1>1 DEF AckAccepted, AckOf, LineFine, BarrierTypeOK
  <2> QED
    BY <1>1, <1>3, <2>1, <2>2 DEF ConfirmedWasActed, Acted, deviceVars
<1> QED
  BY <1>5, <1>6, <1>7 DEF BarrierInv

(* A command is issued for a challenge newer than every one before it, and *)
(* a second one for its capability only after the expiry.                  *)
LEMMA IssueKeeps ==
    ASSUME BarrierInv, BarrierTypeOK', IssueCommand
    PROVE  BarrierInv'
<1>0. BarrierTypeOK /\ LineFine /\ IssuesFine /\ now \in Nat
  BY DEF BarrierInv, BarrierTypeOK
<1>1. /\ client.pc = "consume" /\ UNCHANGED <<now, confirmed, toHost>> /\ UNCHANGED deviceVars
      /\ HasChallenge /\ client.cap \in Capabilities
  BY <1>0, IssueSplits, ClientShape DEF HasChallenge
<1>2. IssuedCommand \in Command /\ IssuedCommand.cap = client.cap
      /\ IssuedCommand.nonce = client.challenge.nonce
  BY <1>0, <1>1, IssuedIsCommand
<1> DEFINE new == [command |-> IssuedCommand, at |-> now]
<1>3. new.command = IssuedCommand /\ new.at = now
  OBVIOUS
<1>4. /\ client'.pc # "consume" /\ client'.pc # "issue"
      /\ \/ spent' = Unexpired /\ issues' = issues /\ toDevice' = toDevice
         \/ /\ client.cap \notin Unexpired /\ spent' = Unexpired \cup {client.cap}
            /\ issues' = issues \cup {new}
            /\ \/ toDevice' \in Transmit(toDevice, IssuedCommand)
               \/ toDevice' \in Transmit(toDevice, Noise)
  BY <1>0, IssueSplits, Plain
<1> HIDE DEF new
<1>5. issues \subseteq issues' /\ ~HasChallenge'
  BY <1>4 DEF HasChallenge
<1>6. CountsFine' /\ NoncesFine' /\ ActsFine'
  BY <1>1, <1>5, HostKeepsDevice DEF BarrierInv
<1>7. ConfirmedWasActed'
  BY <1>1 DEF BarrierInv, ConfirmedWasActed, deviceVars
<1>8. HostLineMoves(0)
  BY <1>0, <1>1, LineStill
<1>9. DeviceLineMoves
  <2>1. toDevice \in Seq(Command \cup {Noise})
    BY <1>0 DEF BarrierTypeOK
  <2>2. CASE toDevice' = toDevice
    BY <1>0, <2>2, LineStill
  <2>3. CASE toDevice' \in Transmit(toDevice, IssuedCommand) /\ new \in issues'
    BY <1>2, <1>3, <2>1, <2>3, Transmitted DEF DeviceLineMoves, Issued
  <2>4. CASE toDevice' \in Transmit(toDevice, Noise)
    BY <2>1, <2>4, Transmitted DEF DeviceLineMoves
  <2> QED
    BY <1>4, <2>2, <2>3, <2>4
<1>10. LineFine'
  BY <1>0, <1>1, <1>5, <1>8, <1>9, LineKeeps DEF deviceVars
<1>11. ASSUME NEW i \in issues
       PROVE  /\ i.command \in Command /\ Expires[i.command.cap] \in Nat /\ i.at \in Nat
              /\ i.command.nonce <= nonces' /\ Before(i.command.nonce)'
              /\ i.command.cap \in spent' \/ now' > Expires[i.command.cap]
              /\ i.command.nonce < IssuedCommand.nonce
              /\ i.command.nonce \in Nat
  <2>1. i \in [command : Command, at : Nat]
    BY <1>0 DEF BarrierTypeOK
  <2>2. i.command \in Command /\ Expires[i.command.cap] \in Nat /\ i.at \in Nat
        /\ i.command.nonce \in Nat
    BY <2>1, Fields, BarrierAssumption
  <2>3. Unexpired \subseteq spent'
    BY <1>4
  <2>4. i.command.cap \in spent' \/ now' > Expires[i.command.cap]
    BY <1>0, <1>1, <2>2, <2>3 DEF IssuesFine, Unexpired
  <2> QED
    BY <1>0, <1>1, <1>2, <2>2, <2>4 DEF IssuesFine, Before, deviceVars
<1>12. /\ IssuedCommand.nonce <= nonces' /\ IssuedCommand.nonce \in Nat
       /\ \A k \in DOMAIN toHost' :
             toHost'[k].kind = "challenge" => IssuedCommand.nonce < toHost'[k].nonce
  BY <1>0, <1>1, <1>2, Fields DEF IssuesFine, Before, deviceVars
<1>13. IssuesFine'
  <2>1. CASE issues' = issues
    BY <1>0, <1>5, <1>11, <2>1 DEF IssuesFine
  <2>2. CASE /\ client.cap \notin Unexpired /\ spent' = Unexpired \cup {client.cap}
             /\ issues' = issues \cup {new}
    <3>1. ASSUME NEW i \in issues'
          PROVE  /\ i.command.nonce <= nonces'
                 /\ \A k \in DOMAIN toHost' :
                       toHost'[k].kind = "challenge" => i.command.nonce < toHost'[k].nonce
                 /\ i.command.cap \in spent' \/ now' > Expires[i.command.cap]
      BY <1>2, <1>3, <1>11, <1>12, <2>2 DEF Before
    <3>2. ASSUME NEW i \in issues, i.command.cap = IssuedCommand.cap
          PROVE  now > Expires[IssuedCommand.cap]
      BY <1>0, <1>2, <1>11, <2>2, <3>2 DEF IssuesFine, Unexpired
    <3>3. ASSUME NEW i \in issues', NEW k \in issues', i.command.cap = k.command.cap,
                 i.command.nonce < k.command.nonce
          PROVE  k.at > Expires[k.command.cap]
      <4>1. CASE i \in issues /\ k \in issues
        BY <1>0, <3>3, <4>1 DEF IssuesFine
      <4>2. CASE i \in issues /\ k = new
        BY <1>3, <3>2, <3>3, <4>2
      <4>3. CASE i = new
        BY <1>3, <1>11, <1>12, <2>2, <3>3, <4>3
      <4> QED
        BY <2>2, <4>1, <4>2, <4>3
    <3> QED
      BY <1>5, <3>1, <3>3 DEF IssuesFine, Before
  <2> QED
    BY <1>4, <2>1, <2>2
<1> QED
  BY <1>6, <1>7, <1>10, <1>13 DEF BarrierInv

(* Every step of the host. *)
LEMMA HostKeeps ==
    ASSUME BarrierInv, BarrierTypeOK', Host
    PROVE  BarrierInv'
  BY HostQuietSteps, ReadChallengeKeeps, ReadAckKeeps, IssueKeeps DEF Host

-----------------------------------------------------------------------------
(* What a step of the device keeps. *)

(* Actions taken and frames published by the device leave the host's       *)
(* records as they are.                                                    *)
LEMMA DeviceKeepsHost ==
    ASSUME BarrierInv, UNCHANGED hostVars, nonces' = nonces,
           NEW k \in Nat, HostLineMoves(k), BarrierTypeOK'
    PROVE  IssuesFine'
<1>1. HasChallenge' => HasChallenge /\ client'.challenge = client.challenge
  BY DEF HasChallenge, hostVars
<1> QED
  BY <1>1, IssuesKeep DEF BarrierInv, hostVars, BarrierTypeOK

(* Counts are natural numbers. *)
LEMMA CountsAreNats ==
    ASSUME BarrierTypeOK
    PROVE  /\ flash.count \in Nat /\ Len(acts) \in Nat /\ acks \in Seq(Nat)
           /\ Up => device.memory.count \in Nat /\ device.memory \in Flash
           /\ \A i \in DOMAIN acks : acks[i] \in Nat /\ i \in Nat
<1>1. Counter \subseteq Nat
  BY BarrierAssumption DEF Counter
<1>2. acks \in Seq(Counter) /\ acts \in Seq(Command) /\ flash \in Flash
  BY DEF BarrierTypeOK
<1>3. \A i \in DOMAIN acks : acks[i] \in Nat /\ i \in Nat
  <2>1. \A i \in DOMAIN acks : acks[i] \in Counter /\ i \in Nat
    BY <1>2
  <2> QED
    BY <1>1, <2>1
<1>4. acks \in Seq(Nat)
  <2>1. acks \in [1 .. Len(acks) -> Counter] /\ Len(acks) \in Nat
    BY <1>2
  <2>2. acks \in [1 .. Len(acks) -> Nat]
    BY <1>1, <2>1
  <2> QED
    BY <2>1, <2>2
<1>5. \A f \in Flash : f.count \in Nat
  BY <1>1 DEF Flash
<1> QED
  BY <1>2, <1>3, <1>4, <1>5, DeviceShape

(* A device that does no more than keep its memory, or stops. *)
LEMMA CountsKeep ==
    ASSUME BarrierInv, BarrierTypeOK', UNCHANGED <<acts, acks>>,
           flash'.count >= flash.count,
           \/ device'.pc \in {"off", "locked"}
           \/ /\ Up /\ device'.pc \in {"challenge", "read", "persist"}
              /\ device'.memory = device.memory /\ flash'.count <= device.memory.count + 1
    PROVE  CountsFine'
<1>1. flash.count \in Nat /\ flash'.count \in Nat /\ Len(acts) \in Nat
  BY CountsAreNats DEF BarrierInv, BarrierTypeOK, Flash, Counter
<1>2. \A i \in DOMAIN acks : acks[i] \in Nat
  BY CountsAreNats DEF BarrierInv
<1>3. CountsFine
  BY DEF BarrierInv
<1> QED
  BY <1>1, <1>2, <1>3 DEF CountsFine, Up

LEMMA CountsStep ==
    ASSUME BarrierInv, BarrierTypeOK', Firmware
    PROVE  CountsFine'
<1>0. /\ BarrierTypeOK /\ CountsFine /\ flash \in Flash /\ flash.count \in Nat
      /\ acts \in Seq(Command) /\ acks \in Seq(Nat)
      /\ Up => device.memory.count \in Nat
      /\ \A i \in DOMAIN acks : acks[i] \in Nat /\ i \in Nat
  BY CountsAreNats DEF BarrierInv, BarrierTypeOK
<1>1. CASE Boot
  <2>1. flash.boot < CounterMax => Booted \in Flash /\ Booted.count = flash.count
    BY <1>0, BootedIsFlash
  <2>2. CASE /\ flash' = Booted /\ flash.boot < CounterMax
             /\ device'.pc = "challenge" /\ device'.memory = Booted
    <3>1. UNCHANGED <<acts, acks>>
      BY <1>0, <1>1, BootSplits
    <3> QED
      BY <1>0, <2>1, <2>2, <3>1 DEF CountsFine, Up
  <2>3. CASE device' \in Halted /\ flash'.count = flash.count
    <3>1. device'.pc \in {"off", "locked"} /\ UNCHANGED <<acts, acks>>
      BY <1>0, <1>1, <2>3, Plain, BootSplits
    <3> QED
      BY <1>0, <2>3, <3>1, CountsKeep
  <2> QED
    BY <1>0, <1>1, <2>1, <2>2, <2>3, BootSplits, TornIsFlash
<1>2. CASE NewChallenge \/ ChallengeAges \/ ReadFrame
  <2>1. /\ Up /\ UNCHANGED <<flash, acts, acks>>
        /\ \/ device' \in Halted
           \/ /\ device'.pc \in {"challenge", "read", "persist"}
              /\ device'.memory = device.memory
    BY <1>0, <1>2, ChallengeSplits, AgesSplits, ReadSplits DEF Up
  <2> QED
    BY <1>0, <2>1, Plain, CountsKeep DEF CountsFine
<1>3. CASE PersistConsumption
  <2>1. /\ device.pc = "persist" /\ Up /\ UNCHANGED <<acts, acks>>
    BY <1>0, <1>3, PersistSplits DEF Up
  <2>2. MayPersist => /\ Consumption \in Flash
                      /\ Consumption.count = device.memory.count + 1
    BY <1>0, <2>1, ConsumptionIsFlash
  <2>3. CASE /\ MayPersist /\ flash' = Consumption
             /\ device'.pc = "actuate" /\ device'.memory = Consumption
    BY <1>0, <2>1, <2>2, <2>3 DEF CountsFine, Up
  <2>4. CASE MayPersist /\ flash' \in TornFlash(Consumption)
             /\ device'.pc = "challenge" /\ device'.memory = device.memory
    <3>1. flash'.count \in {flash.count, Consumption.count}
      BY <1>0, <2>2, <2>4, TornIsFlash
    <3> QED
      BY <1>0, <2>1, <2>2, <2>4, <3>1, CountsKeep DEF CountsFine
  <2>5. CASE UNCHANGED flash /\ device'.pc = "challenge" /\ device'.memory = device.memory
    BY <1>0, <2>1, <2>5, CountsKeep DEF CountsFine
  <2> QED
    BY <1>0, <1>3, <2>3, <2>4, <2>5, PersistSplits
<1>4. CASE Actuate
  <2>1. /\ device.pc = "actuate" /\ device'.pc = "ack" /\ device'.memory = device.memory
        /\ UNCHANGED <<flash, acks>> /\ acts' = Append(acts, device.command) /\ Up
        /\ device.command \in Command
    BY <1>0, <1>4, ActSplits DEF Up
  <2>2. Len(acts') = Len(acts) + 1 /\ Len(acts) \in Nat
    BY <1>0, <2>1
  <2>3. device.memory.count <= flash.count
    BY <1>0, <2>1, DeviceShape
  <2> QED
    BY <1>0, <2>1, <2>2, <2>3 DEF CountsFine, Up
<1>5. CASE EmitAck
  <2>1. /\ device.pc = "ack" /\ device'.pc = "challenge" /\ device'.memory = device.memory
        /\ UNCHANGED <<flash, acts>> /\ acks' = Append(acks, device.memory.count) /\ Up
    BY <1>0, <1>5, AckSplits DEF Up
  <2>2. /\ DOMAIN acks' = DOMAIN acks \cup {Len(acks) + 1}
        /\ \A i \in DOMAIN acks : acks'[i] = acks[i] /\ i < Len(acks) + 1
        /\ acks'[Len(acks) + 1] = device.memory.count
    BY <1>0, <2>1
  <2>3. device.memory.count <= flash.count
    BY <1>0, <2>1, DeviceShape
  <2>4. \A i \in DOMAIN acks : acks[i] < device.memory.count
    BY <1>0, <2>1 DEF CountsFine
  <2>5. \A i \in DOMAIN acks' : acks'[i] <= device.memory.count
    BY <1>0, <2>1, <2>2, <2>4
  <2>6. \A i, j \in DOMAIN acks' : i < j => acks'[i] < acks'[j]
    BY <1>0, <2>2, <2>4 DEF CountsFine
  <2>7. \A i \in DOMAIN acks' : acks'[i] <= flash.count /\ acks'[i] \in Nat
    BY <1>0, <2>1, <2>2, <2>3, <2>5
  <2> QED
    BY <1>0, <2>1, <2>5, <2>6, <2>7 DEF CountsFine, Up
<1>6. CASE PowerLoss
  <2>1. device'.pc \in {"off", "locked"} /\ UNCHANGED <<acts, acks>>
    BY <1>0, <1>6, PowerSplits, Plain
  <2>2. flash'.count >= flash.count
    <3>1. CASE UNCHANGED flash
      BY <1>0, <3>1
    <3>2. CASE device.pc = "persist" /\ MayPersist /\ flash' \in TornFlash(Consumption)
      <4>1. Consumption \in Flash /\ Consumption.count = device.memory.count + 1 /\ Up
        BY <1>0, <3>2, ConsumptionIsFlash DEF Up
      <4>2. flash'.count \in {flash.count, Consumption.count}
        BY <1>0, <3>2, <4>1, TornIsFlash
      <4> QED
        BY <1>0, <4>1, <4>2 DEF CountsFine
    <3> QED
      BY <1>0, <1>6, <3>1, <3>2, PowerSplits
  <2> QED
    BY <2>1, <2>2, CountsKeep
<1> QED
  BY <1>1, <1>2, <1>3, <1>4, <1>5, <1>6 DEF Firmware

(* A device that consumes nothing, does nothing and takes no command up.   *)
LEMMA OrderKeeps ==
    ASSUME NoncesFine, ActsFine, UNCHANGED <<issues, nonces, consumed, acts>>,
           \/ device'.pc \in {"off", "locked", "challenge"}
           \/ device.pc = "read" /\ device'.pc = "read"
    PROVE  NoncesFine' /\ ActsFine'
  BY DEF NoncesFine, ActsFine, Carries, Issued

(* A nonce is used up by the frame that is read for it, so the device      *)
(* consumes and does things in the order of the nonces.                    *)
LEMMA OrderStep ==
    ASSUME BarrierInv, BarrierTypeOK', Firmware
    PROVE  NoncesFine' /\ ActsFine'
<1>0. /\ BarrierTypeOK /\ NoncesFine /\ ActsFine /\ LineFine
      /\ nonces \in Nat /\ consumed \subseteq Command /\ acts \in Seq(Command)
      /\ \A c \in Command : c.nonce \in Nat
  <2>1. /\ BarrierTypeOK /\ NoncesFine /\ ActsFine /\ LineFine
    BY DEF BarrierInv
  <2>2. consumed \subseteq Command /\ acts \in Seq(Command) /\ nonces \in 0 .. MaxChallenges
    BY <2>1 DEF BarrierTypeOK
  <2>3. nonces \in Nat
    BY <2>2, BarrierAssumption
  <2>4. \A c \in Command : c.nonce \in Nat
    BY Fields, BarrierAssumption
  <2> QED
    BY <2>1, <2>2, <2>3, <2>4
<1>1. CASE Boot \/ PowerLoss \/ ChallengeAges \/ EmitAck
  <2>1. /\ UNCHANGED <<issues, nonces, consumed, acts>>
        /\ \/ device'.pc \in {"off", "locked", "challenge"}
           \/ device.pc = "read" /\ device'.pc = "read"
    BY <1>0, <1>1, BootSplits, PowerSplits, AgesSplits, AckSplits, Plain DEF hostVars
  <2> QED
    BY <1>0, <2>1, OrderKeeps
<1>2. CASE NewChallenge
  <2>1. /\ UNCHANGED <<issues, consumed, acts>> /\ nonces' \in {nonces, nonces + 1}
        /\ \/ device'.pc \in {"off", "locked"} /\ nonces' = nonces
           \/ device'.pc = "read" /\ nonces' = nonces + 1
    BY <1>0, <1>2, ChallengeSplits, Plain DEF hostVars
  <2>2. CASE nonces' = nonces /\ device'.pc \in {"off", "locked"}
    BY <1>0, <2>1, <2>2, OrderKeeps
  <2>3. CASE device'.pc = "read" /\ nonces' = nonces + 1
    <3>1. \A c \in consumed : c.nonce < nonces' /\ c.nonce <= nonces' /\ Issued(c)
      BY <1>0, <2>3 DEF NoncesFine
    <3> QED
      BY <1>0, <2>1, <2>3, <3>1 DEF NoncesFine, ActsFine, Carries, Issued
  <2> QED
    BY <2>1, <2>2, <2>3
<1>3. CASE ReadFrame
  <2>1. /\ UNCHANGED <<issues, nonces, consumed, acts>> /\ device.pc = "read"
        /\ \/ device'.pc = "challenge"
           \/ /\ device'.pc = "persist" /\ 1 \in DOMAIN toDevice
              /\ device'.command = toDevice[1] /\ toDevice[1].kind = "command"
              /\ toDevice[1].nonce = nonces
    BY <1>0, <1>3, ReadSplits DEF hostVars
  <2>2. CASE device'.pc = "challenge"
    BY <1>0, <2>1, <2>2, OrderKeeps
  <2>3. CASE /\ device'.pc = "persist" /\ 1 \in DOMAIN toDevice
             /\ device'.command = toDevice[1] /\ toDevice[1].kind = "command"
             /\ toDevice[1].nonce = nonces
    <3>1. Issued(toDevice[1])
      BY <1>0, <2>3 DEF LineFine
    <3> QED
      BY <1>0, <2>1, <2>3, <3>1 DEF NoncesFine, ActsFine, Carries, Issued
  <2> QED
    BY <2>1, <2>2, <2>3
<1>4. CASE PersistConsumption
  <2>1. /\ UNCHANGED <<issues, nonces, acts>> /\ device.pc = "persist"
        /\ \/ device'.pc = "challenge" /\ UNCHANGED consumed
           \/ /\ device'.pc = "actuate" /\ device'.command = device.command
              /\ consumed' = consumed \cup {device.command}
    BY <1>0, <1>4, PersistSplits DEF hostVars
  <2>2. CASE device'.pc = "challenge" /\ UNCHANGED consumed
    BY <1>0, <2>1, <2>2, OrderKeeps
  <2>3. CASE /\ device'.pc = "actuate" /\ device'.command = device.command
             /\ consumed' = consumed \cup {device.command}
    <3>1. device.command.nonce = nonces /\ Issued(device.command)
      BY <1>0, <2>1 DEF NoncesFine, Carries
    <3>2. \A c \in consumed : c.nonce < nonces /\ Issued(c)
      BY <1>0, <2>1 DEF NoncesFine
    <3>3. \A i \in DOMAIN acts : acts[i].nonce < nonces /\ acts[i] \in consumed
      BY <1>0, <3>2 DEF ActsFine
    <3>4. NoncesFine'
      BY <1>0, <2>1, <2>3, <3>1, <3>2 DEF NoncesFine, Carries, Issued
    <3>5. ActsFine'
      BY <1>0, <2>1, <2>3, <3>3 DEF ActsFine
    <3> QED
      BY <3>4, <3>5
  <2> QED
    BY <2>1, <2>2, <2>3
<1>5. CASE Actuate
  <2>1. /\ UNCHANGED <<issues, nonces, consumed>> /\ device.pc = "actuate"
        /\ acts' = Append(acts, device.command) /\ device.command \in Command
        /\ device'.pc = "ack" /\ device'.command = device.command
    BY <1>0, <1>5, ActSplits DEF hostVars
  <2>2. device.command.nonce = nonces /\ Issued(device.command) /\ device.command \in consumed
    BY <1>0, <2>1 DEF NoncesFine, Carries
  <2>3. NoncesFine'
    BY <1>0, <2>1, <2>2 DEF NoncesFine, Carries, Issued
  <2>4. /\ DOMAIN acts' = DOMAIN acts \cup {Len(acts) + 1}
        /\ \A i \in DOMAIN acts : acts'[i] = acts[i] /\ i < Len(acts) + 1
        /\ acts'[Len(acts) + 1] = device.command /\ Len(acts) \in Nat
    BY <1>0, <2>1
  <2>5. \A i \in DOMAIN acts : acts[i].nonce < device.command.nonce /\ i \in Nat
    BY <1>0, <2>1, <2>2 DEF ActsFine
  <2>6. \A i, j \in DOMAIN acts' : i < j => acts'[i].nonce < acts'[j].nonce
    BY <1>0, <2>4, <2>5 DEF ActsFine
  <2>7. Acted(device.command)' /\ \A i \in DOMAIN acts' : acts'[i] \in consumed
    BY <1>0, <2>1, <2>2, <2>4 DEF ActsFine, Acted
  <2>8. ActsFine'
    BY <2>1, <2>6, <2>7 DEF ActsFine
  <2> QED
    BY <2>3, <2>8
<1> QED
  BY <1>1, <1>2, <1>3, <1>4, <1>5 DEF Firmware

(* What was done stays done. *)
LEMMA ActsGrow ==
    ASSUME BarrierInv, Firmware
    PROVE  \A i \in DOMAIN acts : i \in DOMAIN acts' /\ acts'[i] = acts[i]
<1>1. acts' = acts \/ (acts' = Append(acts, device.command) /\ device.command \in Command)
  BY BootSplits, ChallengeSplits, AgesSplits, ReadSplits, PersistSplits, ActSplits,
     AckSplits, PowerSplits DEF Firmware, BarrierInv
<1>2. acts \in Seq(Command)
  BY DEF BarrierInv, BarrierTypeOK
<1> QED
  BY <1>1, <1>2

(* The device publishes challenges with ever newer nonces, and             *)
(* acknowledges what it has done.                                          *)
LEMMA PublicStep ==
    ASSUME BarrierInv, BarrierTypeOK', Firmware
    PROVE  LineFine' /\ IssuesFine'
<1>0. /\ BarrierTypeOK /\ NoncesFine /\ ActsFine /\ LineFine /\ IssuesFine
      /\ nonces \in Nat /\ toHost \in Seq(Challenge \cup Ack \cup {Noise})
  BY BarrierAssumption DEF BarrierInv, BarrierTypeOK
<1>1. CASE /\ UNCHANGED <<nonces, acts>> /\ UNCHANGED hostVars /\ toHost' = toHost
           /\ DeviceLineMoves
  BY <1>0, <1>1, LineKeeps, DeviceKeepsHost, LineStill DEF hostVars
<1>2. CASE Boot \/ PowerLoss \/ ChallengeAges \/ PersistConsumption
  <2>1. /\ UNCHANGED <<nonces, acts>> /\ UNCHANGED hostVars /\ toHost' = toHost
        /\ toDevice' = toDevice \/ toDevice' = <<>>
    BY <1>0, <1>2, BootSplits, PowerSplits, AgesSplits, PersistSplits
  <2>2. DeviceLineMoves
    BY <1>0, <2>1, LineStill DEF DeviceLineMoves
  <2> QED
    BY <1>1, <2>1, <2>2
<1>3. CASE ReadFrame
  <2>1. /\ UNCHANGED <<nonces, acts>> /\ UNCHANGED hostVars /\ toHost' = toHost
        /\ \A i \in DOMAIN toDevice' : i + 1 \in DOMAIN toDevice
                                       /\ toDevice'[i] = toDevice[i + 1]
    BY <1>0, <1>3, ReadSplits
  <2>2. DeviceLineMoves
    BY <2>1 DEF DeviceLineMoves
  <2> QED
    BY <1>1, <2>1, <2>2
<1>4. CASE NewChallenge /\ UNCHANGED <<nonces, toHost>>
  <2>1. UNCHANGED hostVars /\ UNCHANGED <<acts, toDevice>>
    BY <1>0, <1>4, ChallengeSplits
  <2> QED
    BY <1>0, <1>1, <1>4, <2>1, LineStill
<1>5. CASE NewChallenge /\ nonces' = nonces + 1
  <2>1. /\ UNCHANGED hostVars /\ UNCHANGED <<acts, toDevice>>
        /\ \E c \in Challenge : c.nonce = nonces' /\ toHost' \in Transmit(toHost, c)
    BY <1>0, <1>5, ChallengeSplits
  <2>2. PICK c \in Challenge : c.nonce = nonces' /\ toHost' \in Transmit(toHost, c)
    BY <2>1
  <2>3. /\ \A i \in DOMAIN toHost : i \in DOMAIN toHost' /\ toHost'[i] = toHost[i]
        /\ \A i \in DOMAIN toHost' :
              \/ i \in DOMAIN toHost
              \/ /\ toHost'[i] \in {c, Noise}
                 /\ \A j \in DOMAIN toHost' : j # i => j \in DOMAIN toHost /\ j < i
    BY <1>0, <2>2, Transmitted
  <2>4. c.kind = "challenge" /\ nonces < c.nonce /\ c.nonce \in Nat
    BY <1>0, <1>5, <2>2, Fields
  <2>5. \A i \in DOMAIN toHost : toHost[i].kind = "challenge" => toHost[i].nonce \in Nat
    BY <1>0, Frames, Fields
  <2>6. ASSUME NEW i \in DOMAIN toHost'
        PROVE  /\ toHost'[i].kind = "challenge" => toHost'[i].nonce <= nonces'
               /\ toHost'[i].kind = "ack" => Acted(toHost[i].command)'
    <3>1. CASE i \in DOMAIN toHost
      BY <1>0, <1>5, <2>1, <2>3, <2>5, <3>1 DEF LineFine, Acted
    <3>2. CASE i \notin DOMAIN toHost
      BY <1>0, <1>5, <2>2, <2>3, <2>4, <3>2, Plain
    <3> QED
      BY <3>1, <3>2
  <2>7. ASSUME NEW i \in DOMAIN toHost', NEW l \in DOMAIN toHost', i < l,
               toHost'[i].kind = "challenge", toHost'[l].kind = "challenge"
        PROVE  toHost'[i].nonce < toHost'[l].nonce
    <3>1. i \in Nat /\ l \in Nat
      BY DEF BarrierTypeOK
    <3>2. i \in DOMAIN toHost
      BY <2>3, <2>7, <3>1
    <3>3. CASE l \in DOMAIN toHost
      BY <1>0, <2>3, <2>7, <3>2, <3>3 DEF LineFine
    <3>4. CASE l \notin DOMAIN toHost
      <4>1. toHost'[l] = c
        BY <2>3, <2>7, <3>4, Plain
      <4>2. toHost[i].nonce <= nonces /\ toHost'[i] = toHost[i] /\ toHost[i].nonce \in Nat
        BY <1>0, <2>3, <2>5, <2>7, <3>2 DEF LineFine
      <4> QED
        BY <1>0, <2>4, <4>1, <4>2
    <3> QED
      BY <3>3, <3>4
  <2>8. LineFine'
    BY <1>0, <2>1, <2>6, <2>7 DEF LineFine, Issued, hostVars
  <2>9. ASSUME NEW n \in Nat, n <= nonces, Before(n)
        PROVE  n <= nonces' /\ \A k \in DOMAIN toHost' : toHost'[k].kind = "challenge" => n < toHost'[k].nonce
    BY <1>0, <1>5, <2>3, <2>4, <2>9, Plain DEF Before
  <2>10. ASSUME NEW i \in issues PROVE i.command.nonce \in Nat
    <3>1. i \in [command : Command, at : Nat]
      BY <1>0 DEF BarrierTypeOK
    <3> QED
      BY <3>1, Fields
  <2>11. HasChallenge => client.challenge.nonce \in Nat
    BY <1>0, ClientShape, Fields DEF HasChallenge
  <2>12. /\ issues' = issues /\ spent' = spent /\ now' = now /\ client' = client
         /\ HasChallenge' = HasChallenge
    BY <2>1 DEF hostVars, HasChallenge
  <2>13. IssuesFine'
    BY <1>0, <2>9, <2>10, <2>11, <2>12 DEF IssuesFine, Before
  <2> QED
    BY <2>8, <2>13
<1>6. CASE Actuate
  <2>1. /\ UNCHANGED hostVars /\ UNCHANGED <<nonces, toHost, toDevice>>
    BY <1>0, <1>6, ActSplits
  <2>2. \A c : Acted(c) => Acted(c)'
    BY <1>6, ActsGrow DEF Acted, Firmware
  <2>3. LineFine'
    BY <1>0, <2>1, <2>2 DEF LineFine, Issued, hostVars
  <2>4. IssuesFine'
    BY <2>1, DeviceKeepsHost, LineStill, <1>0
  <2> QED
    BY <2>3, <2>4
<1>7. CASE EmitAck
  <2>1. /\ UNCHANGED hostVars /\ UNCHANGED <<nonces, acts, toDevice>> /\ device.pc = "ack"
        /\ \E a \in Ack : a.command = device.command /\ toHost' \in Transmit(toHost, a)
    BY <1>0, <1>7, AckSplits
  <2>2. PICK a \in Ack : a.command = device.command /\ toHost' \in Transmit(toHost, a)
    BY <2>1
  <2>3. /\ \A i \in DOMAIN toHost : i \in DOMAIN toHost' /\ toHost'[i] = toHost[i]
        /\ \A i \in DOMAIN toHost' : i \in DOMAIN toHost \/ toHost'[i] \in {a, Noise}
    BY <1>0, <2>2, Transmitted
  <2>4. a.kind = "ack" /\ Acted(a.command)
    BY <1>0, <2>1, <2>2, Fields DEF ActsFine
  <2>5. \A i \in DOMAIN toHost' : toHost'[i].kind = "challenge" => i \in DOMAIN toHost
    BY <2>3, <2>4, Plain
  <2>6. ASSUME NEW i \in DOMAIN toHost', toHost'[i].kind = "ack"
        PROVE  Acted(toHost[i].command)'
    <3>1. \E c : toHost'[i].command = c /\ Acted(c)
      BY <1>0, <2>3, <2>4, <2>6, Plain DEF LineFine
    <3> QED
      BY <2>1, <3>1 DEF Acted
  <2>7. LineFine'
    BY <1>0, <2>1, <2>3, <2>5, <2>6 DEF LineFine, Issued, hostVars
  <2>8. \A n : Before(n) => \A k \in DOMAIN toHost' : toHost'[k].kind = "challenge" => n < toHost'[k].nonce
    BY <2>3, <2>5 DEF Before
  <2>9. /\ issues' = issues /\ spent' = spent /\ now' = now /\ client' = client
        /\ HasChallenge' = HasChallenge
    BY <2>1 DEF hostVars, HasChallenge
  <2>10. IssuesFine'
    BY <1>0, <2>1, <2>8, <2>9 DEF IssuesFine, Before
  <2> QED
    BY <2>7, <2>10
<1>8. CASE NewChallenge
  BY <1>0, <1>4, <1>5, <1>8, ChallengeSplits
<1> QED
  BY <1>2, <1>3, <1>6, <1>7, <1>8 DEF Firmware

(* A step of the firmware preserves the invariant. *)
LEMMA FirmwareKeeps ==
    ASSUME BarrierInv, BarrierTypeOK', Firmware
    PROVE  BarrierInv'
<1>1. confirmed' = confirmed
  BY BootSplits, ChallengeSplits, AgesSplits, ReadSplits, PersistSplits, ActSplits,
     AckSplits, PowerSplits DEF Firmware, BarrierInv, hostVars
<1>2. ConfirmedWasActed'
  <2>1. ConfirmedWasActed
    BY DEF BarrierInv
  <2> QED
    BY <1>1, <2>1, ActsGrow DEF ConfirmedWasActed
<1> QED
  BY <1>2, CountsStep, OrderStep, PublicStep DEF BarrierInv

(* Nothing has been published, issued or done. *)
LEMMA BarrierInvInit == BarrierInit => BarrierInv
<1> SUFFICES ASSUME BarrierInit PROVE BarrierInv
  OBVIOUS
<1>1. BarrierTypeOK
  BY BarrierTypeInit
<1>2. /\ issues = {} /\ consumed = {} /\ acts = <<>> /\ acks = <<>> /\ confirmed = {}
      /\ toDevice = <<>> /\ toHost = <<>> /\ device.pc = "off" /\ client.pc = "idle"
      /\ flash.count = 0
  BY Plain DEF BarrierInit
<1>3. CountsFine
  BY <1>2 DEF CountsFine, Up
<1>4. NoncesFine /\ ActsFine
  BY <1>2 DEF NoncesFine, ActsFine, Carries
<1>5. LineFine
  BY <1>2 DEF LineFine
<1>6. IssuesFine
  BY <1>2 DEF IssuesFine, HasChallenge
<1>7. ConfirmedWasActed
  BY <1>2 DEF ConfirmedWasActed
<1> QED
  BY <1>1, <1>3, <1>4, <1>5, <1>6, <1>7 DEF BarrierInv

LEMMA BarrierInvStill == BarrierInv /\ UNCHANGED barrierVars => BarrierInv'
<1> SUFFICES ASSUME BarrierInv, UNCHANGED barrierVars PROVE BarrierInv'
  OBVIOUS
<1>1. /\ UNCHANGED <<now, spent, client, issues, confirmed, discarded, toDevice, toHost>>
      /\ UNCHANGED <<flash, device, nonces, consumed, acts, acks>>
  BY DEF barrierVars, hostVars, deviceVars
<1>2. BarrierTypeOK'
  BY BarrierTypeStep DEF BarrierInv
<1>3. CountsFine' /\ NoncesFine' /\ ActsFine'
  BY <1>1 DEF BarrierInv, CountsFine, NoncesFine, ActsFine, Up, Carries, Issued, Acted
<1>4. LineFine' /\ IssuesFine' /\ ConfirmedWasActed'
  BY <1>1 DEF BarrierInv, LineFine, IssuesFine, ConfirmedWasActed, Issued, Acted,
              HasChallenge, Before
<1> QED
  BY <1>2, <1>3, <1>4 DEF BarrierInv

LEMMA BarrierInvStep == BarrierInv /\ [BarrierNext]_barrierVars => BarrierInv'
<1> SUFFICES ASSUME BarrierInv, [BarrierNext]_barrierVars PROVE BarrierInv'
  OBVIOUS
<1>1. BarrierTypeOK'
  BY BarrierTypeStep DEF BarrierInv
<1>2. CASE Host
  BY <1>1, <1>2, HostKeeps
<1>3. CASE Firmware
  BY <1>1, <1>3, FirmwareKeeps
<1>4. CASE UNCHANGED barrierVars
  BY <1>4, BarrierInvStill
<1> QED
  BY <1>2, <1>3, <1>4 DEF BarrierNext

LEMMA BarrierInvAlways == BarrierSpec => []BarrierInv
  BY BarrierInvInit, BarrierInvStep, PTL DEF BarrierSpec

-----------------------------------------------------------------------------
(* The results. *)

(* Every variable keeps its shape, and a device that is up never counts    *)
(* beyond its flash (kgp_firmware.c, begin_boot and persist_consumption).  *)
THEOREM BarrierTypeCorrect == BarrierSpec => []BarrierTypeOK
<1>1. BarrierInv => BarrierTypeOK
  BY DEF BarrierInv
<1> QED
  BY <1>1, BarrierInvAlways, PTL

(* The actuator count in flash never falls behind the servo, wherever the  *)
(* power fails, and every acknowledgement carries a larger one than all    *)
(* before it (persist_consumption commits before the actuator moves).      *)
THEOREM CountsHold == BarrierSpec => []CountCoversActs
<1>1. BarrierInv => CountCoversActs
  BY DEF BarrierInv, CountsFine, CountCoversActs
<1> QED
  BY <1>1, BarrierInvAlways, PTL

(* A second move for one capability is for a command that was issued after *)
(* the capability had expired: order of nonces on the line and in the      *)
(* device, order of issue in the host's store.                             *)
THEOREM OneMoveEach == BarrierSpec => []OneMovePerLiveCapability
<1>1. ASSUME BarrierInv PROVE OneMovePerLiveCapability
  <2>1. SUFFICES ASSUME NEW i \in DOMAIN acts, NEW j \in DOMAIN acts, i < j,
                        acts[i].cap = acts[j].cap, NEW issue \in issues,
                        issue.command = acts[j]
                 PROVE  issue.at > Expires[acts[j].cap]
    BY DEF OneMovePerLiveCapability
  <2>2. acts[i].nonce < acts[j].nonce /\ acts[i] \in consumed
    BY <1>1, <2>1 DEF BarrierInv, ActsFine
  <2>3. PICK first \in issues : first.command = acts[i]
    BY <1>1, <2>2 DEF BarrierInv, NoncesFine, Issued
  <2> QED
    BY <1>1, <2>1, <2>2, <2>3 DEF BarrierInv, IssuesFine
<1> QED
  BY <1>1, BarrierInvAlways, PTL

(* What execute_once returns was done: an acknowledgement for a command    *)
(* exists only if the device carried the command out.                      *)
THEOREM ConfirmedMoved == BarrierSpec => []ConfirmedWasActed
<1>1. BarrierInv => ConfirmedWasActed
  BY DEF BarrierInv
<1> QED
  BY <1>1, BarrierInvAlways, PTL

(* A step of the firmware consumes a command it has not consumed, or       *)
(* carries out one it has consumed and not carried out, or does neither.   *)
LEMMA FirmwareIsOneShot ==
    ASSUME BarrierInv, Firmware
    PROVE  [OneShot!OneShotNext]_(OneShot!oneShotVars)
<1>0. /\ BarrierTypeOK /\ NoncesFine /\ ActsFine
      /\ consumed \subseteq Command /\ acts \in Seq(Command)
  BY DEF BarrierInv, BarrierTypeOK
<1>1. CASE UNCHANGED <<consumed, acts>>
  BY <1>1 DEF OneShot!oneShotVars
<1>2. CASE PersistConsumption
  <2>1. /\ acts' = acts /\ device.pc = "persist"
        /\ consumed' = consumed \/ consumed' = consumed \cup {device.command}
    BY <1>0, <1>2, PersistSplits
  <2>2. device.command \in Command /\ device.command.nonce = nonces
    BY <1>0, <2>1, DeviceShape DEF NoncesFine, Carries
  <2>3. nonces \in Int
    BY <1>0 DEF BarrierTypeOK
  <2>4. device.command \notin consumed
    BY <1>0, <2>1, <2>2, <2>3 DEF NoncesFine
  <2>5. CASE consumed' = consumed \cup {device.command}
    <3>1. OneShot!Consume(device.command)
      BY <2>1, <2>4, <2>5 DEF OneShot!Consume
    <3> QED
      BY <2>2, <3>1 DEF OneShot!OneShotNext
  <2> QED
    BY <1>1, <2>1, <2>5
<1>3. CASE Actuate
  <2>1. /\ consumed' = consumed /\ device.pc = "actuate"
        /\ acts' = Append(acts, device.command) /\ device.command \in Command
    BY <1>0, <1>3, ActSplits
  <2>2. device.command.nonce = nonces /\ device.command \in consumed
    BY <1>0, <2>1 DEF NoncesFine, Carries
  <2>3. nonces \in Int
    BY <1>0 DEF BarrierTypeOK
  <2>4. \A i \in DOMAIN acts : acts[i] # device.command
    BY <1>0, <2>1, <2>2, <2>3 DEF ActsFine
  <2>5. OneShot!Act(device.command)
    BY <2>1, <2>2, <2>4 DEF OneShot!Act
  <2> QED
    BY <2>1, <2>5 DEF OneShot!OneShotNext
<1> QED
  BY <1>0, <1>1, <1>2, <1>3, BootSplits, ChallengeSplits, AgesSplits, ReadSplits,
     AckSplits, PowerSplits DEF Firmware

(* The device implements the one-shot commands: each is consumed at most   *)
(* once, and moves the servo at most once and after it was consumed.       *)
THEOREM BarrierIsOneShot == BarrierSpec => ImplementsOneShot
<1>1. BarrierInit => OneShot!OneShotInit
  BY DEF BarrierInit, OneShot!OneShotInit
<1>2. BarrierInv /\ [BarrierNext]_barrierVars => [OneShot!OneShotNext]_(OneShot!oneShotVars)
  <2> SUFFICES ASSUME BarrierInv, [BarrierNext]_barrierVars
               PROVE  [OneShot!OneShotNext]_(OneShot!oneShotVars)
    OBVIOUS
  <2>1. CASE Host
    <3>1. UNCHANGED <<consumed, acts>>
      BY <2>1 DEF Host, StartExchange, OpenPort, ReadChallenge, CheckExpiry, IssueCommand,
                  ReadAck, TimeOut, Resend, HostTick, deviceVars
    <3> QED
      BY <3>1 DEF OneShot!oneShotVars
  <2>2. CASE Firmware
    BY <2>2, FirmwareIsOneShot
  <2>3. CASE UNCHANGED barrierVars
    BY <2>3 DEF barrierVars, deviceVars, OneShot!oneShotVars
  <2> QED
    BY <2>1, <2>2, <2>3 DEF BarrierNext
<1> QED
  BY <1>1, <1>2, BarrierInvAlways, PTL
     DEF BarrierSpec, ImplementsOneShot, OneShot!OneShotSpec
=============================================================================
