# A TLA+ verification of the KineGrant protocol

KineGrant decides whether an AI agent or robot may take a physical action. A
policy allows a request, an issuer signs a capability (at most 300 s of life),
a gate consumes it once, the actuator runs, a signed receipt is appended to a
hash-linked log, and later actions are judged against a journal of what was
done. This directory models the Python reference implementation
(`src/kinegrant/`), model-checks it with TLC on small instances, and proves the
central facts for every instance with TLAPS.

All source paths below are relative to the repository; `src/kinegrant/` is
shortened to the file's name.

## 1. The system

| Component | State | Operations | Talks to |
|---|---|---|---|
| Action gate (`gate.py`) | trusted issuers, replay store, revocation list | `authorize`, `consume_once` | called by the gatekeeper and the HTTP service; calls `verify_attenuation`, `is_revoked` |
| Replay stores (`gate.py`) | a dictionary under a lock, or a SQLite table | prune, insert unless present | shared by every thread (and, for SQLite, every process) |
| Revocation list and bundles (`revocation.py`) | set of ids; signed bundles linked by digest | `revoke`, `is_revoked`, build, verify | read by gate and gatekeeper |
| Gatekeeper (`gatekeeper.py`) | none of its own | `execute` | sequence policy, revocation list, gate, actuator callback, receipt log, compliance, journal |
| Sequence policy, journal (`sequence.py`) | list of actions with times | `record`, `evaluate` | gatekeeper |
| Receipt log (`receipt.py`) | list of signed envelopes, no lock | `append`, `restore`, `verify_receipt_chain` | gatekeeper, HTTP service |
| Obligation compliance (`compliance.py`) | none | `evaluate` | gatekeeper |
| HTTP service (`server.py`) | engine, signature of `policy.json`, one gate, one receipt log, `receipt-log.json`, two locks | `/authorize`, `/verify`, `/receipt`, `/run`, `GET /receipts` | a thread per request; the operator edits files |
| Audit, checkpoints (`audit.py`, `checkpoint.py`) | none | chain check, query, compliance, checkpoint | receipts of any executor |
| Policy engine and cache (`policy.py`, `cache.py`) | rules, trusted issuers; cached decisions, no lock | `add`, `evaluate`, `clear` | HTTP service, issuer |
| Static analysis (`semantics.py`, `modelcheck.py`, part of `policy_bundle.py`) | none | analyze, audit, explain | rules of an engine or a bundle |
| Capability issue, attenuation (`capability.py`, `attenuation.py`) | none | `issue`, `issue_scoped`, `attenuate_capability`, `verify_attenuation` | gate |
| Policy registry, authority, distribution (`policy_bundle.py`) | versions of a signed bundle, revocations, a state file between commands | `activate`, `current`, `revoke`, `publish`, `distribute`, report and its verification | several gates; the Go verifier reads the same bundles |
| Revocation distribution (`distribution.py`) | list of gates | `distribute`, report and its verification | several gates |
| Device proof (`experimental/esp32c3*.py`, `proof/esp32-c3/firmware/`) | challenge, counters, consumed commands in flash | challenge, command, consume, actuate, acknowledge | issuer, over a serial line |
| Simulated device (`experimental/esp32c3.py`) | the same, in memory or SQLite, shared by device objects | `challenge`, `execute` | issuer, in process |
| Trusted clock (`trust.py`) | last reading | `now` | nothing in the gate, gatekeeper or service |
| Adapters (`adapters/`) | none | ODRL documents to rules and back, terms to rules, calls of five transports to requests | whoever writes a policy or sends a call; the engine |
| Rotating identifiers (`privacy.py`) | active ephemeral names | `issue`, `rotate`, `revoke`, `resolve` | nothing |
| Discovery registry (`discovery.py`) | a description per thing | `register`, `find`, `remove` | Web of Things descriptions (`adapters/wot.py`) |
| Redaction (`privacy.py`, `merkle.py`) | none | redact, Merkle tree, inclusion proofs and their verification | receipts and other documents |

The rest (cryptography, encodings, test suites shipped as code) is
listed in `PROJECT.json` and in section 6 with the reason it is left out.

### What is hard about it

* **Two clock readings in one decision.** `authorize` fixes `current` and
  checks the expiry by it; `consume_once` prunes the store by a reading of its
  own, later, under a lock it may have waited for.
* **Checks far from their effects.** The revocation list, the journal and the
  receipt log are read long before the action, the append or the record that
  depend on them, by threads that run at the same time and without locks.
* **The physical step is in the middle.** After the actuator has run, the
  receipt may be refused, the obligations may fail, the process may die.
* **Memory ahead of disk.** The service appends in memory and then writes; the
  write can fail, the process can die between, and a restart reads the file.
* **Power.** The firmware writes three values to flash before one commit, then
  moves the servo, then acknowledges; it may stop between any two of these.
* **A signature beside a lock.** The reload notes the file's signature outside
  the lock that installs the engine.
* **One key, two readings.** The cache computes its key from the policy's
  digest, the engine reads the digest again for the decision and its rules
  after that, while another thread may add a rule.
* **A fleet is never of one mind.** Distributions go gate by gate and may raise
  half-way; gates activate and revoke on their own; bundles come late, twice or
  out of order; a report is read after all that.
* **Read, change, write back.** The registry's command line has no lock and
  empties its file before it writes it.
* **Two implementations.** Python and Go decide the same questions separately:
  bundles, current versions, capabilities, receipt chains.

`PROJECT.json` lists every such place, at its line, with the properties that
would catch it going wrong, or why none covers it.

### What makes each component correct

* gate: a live capability is used once, whatever the interleaving, restarts
  included; a revocation made before a call begins stops it;
* gatekeeper: a combination forbidden when the call began stops it; no action
  lacks its receipt except past its expiry or for malformed arguments; the journal holds successes that
  have a receipt, each once; a capability has at most one receipt;
* service: the chain is valid at every instant for readers without the lock and
  in the file; an answered receipt is durable; a broken policy file decides
  nothing; the saved policy decides (it does not always: see findings);
* device: a command moves the servo at most once, and what has moved it is in
  the persistent count, whenever the power fails; an exchange that is returned
  is of a command that was carried out;
* engine and cache: whatever is answered from the cache is an answer the engine
  gave under the policy that is asked; what static analysis says of a policy is
  true of the engine's decisions;
* delegation: no link of a verified line is wider than any ancestor, whatever
  somebody signs by hand; revoking the root stops the line; both verifiers agree;
* policy bundles: a gate never falls back to an older version except where the
  newer one is revoked or expired; one version is one set of rules; a report
  means what it says; the state file keeps what was confirmed;
* revocations: no bundle undoes one, and a report means that every gate refuses;
* receipts as evidence: what verifies is what happened, in the order it happened;
* trusted clock: what it gives never goes back;
* adapters: a rule that is written and read back decides what it decided before;
  a statement that is read permits only what each of its constraints permits; a
  request says by which transport it came, whatever its caller adds;
* identifiers and discovery: a name is nobody's after it was rotated, revoked or
  found expired, even if the clock is set back; a policy pointer was given by an
  authenticated description;
* redaction: what verifies under a document's root or digest is in the document.

## 2. The modules

### `ActionGate` (the core)

State: `now` (`utc_now`), `store` (what the replay store keeps: id and expiry),
`revoked` (`RevocationList`), `caller` (each thread's position in `authorize`
and its locals), `boot` (restarts so far) and the history `uses`.

| Action | Code |
|---|---|
| `Begin` | `current` is fixed (`gate.py:192`, or `gatekeeper.py:93`, which hands it down) |
| `Validate` | every check from the envelope to the content id, and the revocation list (`gate.py:137-236`); a failed one ends the call |
| `ConsumeOnce` | the store's transaction: prune by a fresh clock, insert unless present (`gate.py:32-41`, `59-79`) |
| `StoreFails` | SQLite's lock times out or the commit fails; it rolls back |
| `Revoke` | `RevocationList.revoke` |
| `Restart` | calls are gone; the in-memory store is empty, SQLite's is not; the revocation list is whatever the deployment hands over |
| `Tick` | time passes |

A capability is its envelope's attributes (`PayloadType`): what the signature,
the fields and the digests come to, not their bytes. Two assumptions stand for
cryptography: a content id determines the expiry it is computed from (SHA-256
has no collision), and an id is never the missing root. The clock does not step
back: nothing in `gate.py` would notice. `verify_attenuation` is a relation
here, `Attenuates`; `Delegation` has the algorithm.

The checks of `authorize` before the revocation list read only arguments and
locals, so one step for all of them and the list reads loses no interleaving:
they commute with every other step.

### `OneTimeLedger` (the promise)

A ledger of grants spent: a grant is spent again only once the clock has passed
its expiry. `ActionGate!ImplementsLedger` is the refinement, with the ledger's
`spent` mapped to the grants of `uses`.

### `Gatekeeper`

Extends `ActionGate`: each step that involves the gate is the gate's own action
in conjunction with the progress of `execute`. New state: `job` (each thread's
stage and locals), `journal`, `receipts` and the history `deeds` (every run of
the actuator). `PrepareReceipt` and `AppendReceipt` are the two halves of
`ReceiptLog.append`, which has no lock; so a thread may read the last entry,
and another append, before it does. The model shows the fork of the chain that
follows (`ChainValid` becomes false and obliged calls end non-compliant).
`Actuate` runs once for a call, whatever becomes of it; `OneActionPerLiveCapability`
says that no replay, on either thread or under another envelope of the capability,
and no failure makes it run again before the expiry.
`CheckSequence` and `CheckRevocation` may end a call before the gate sees it;
`Abandon` returns its thread from the gate's `Begin`, since the time they share
was taken there.

### `GateService`

Extends `ActionGate` with the HTTP endpoints, the lock, the log in memory, the
file, failing writes, an unreadable file at the start, and crashes at any step.
The policy decision of `/authorize` and `/run` is free. A capability that
`/run` signs is in no answer before the receipt is (`known` is what clients may
send). `ReceiptRequest` models
the probe gate of `POST /receipt`, which runs every check on an empty store of
its own. Its `evidence` and `result` checks are one of the reasons for `Refuse`.
`ServiceAssumption` says that what the service takes to its gate (a capability
with the request it was made for, no parent) is among the gate's presentations.

### `PolicyReload`

`_current_engine` in its steps (stat, compare, read, install, note, use), for
several request threads and an operator who saves a good, a broken or no file.
Signatures are versions: two saves with the same size and mtime are not modelled.

### `PaperBarrier`

Host and firmware of the ESP32-C3 proof. `client` is `execute_once`'s position
and locals, `spent` the issuer's store, `toDevice` and `toHost` the frames on
the line, `flash` the NVS values, `device` the firmware's position and its
`device_state_t`, `nonces` the challenges published so far.

| Action | Code |
|---|---|
| `StartExchange`, `ReadChallenge`, `ReadAck`, `TimeOut` | `execute_once` and `read_serial_object`; one read returns the frames that have arrived, and more than one is an error |
| `CheckExpiry`, `IssueCommand` | `DeviceCommandIssuer.issue`, by two readings of the clock; the frame is written in full or in part |
| `OpenPort`, `Resend` | the port is opened again; a kept `command_frame` is sent again |
| `Boot`, `NewChallenge`, `ChallengeAges`, `ReadFrame` | `begin_boot`, `new_challenge`, the 10 s limit, `read_frame` and `verify_command` |
| `PersistConsumption`, `Actuate`, `EmitAck` | the rest of `app_main`'s loop |
| `PowerLoss` | at any step; a write under way leaves any subset of its values (`TornFlash`) |

A nonce is fresh (18 random bytes), and a command is its own id (a hash). The
texts of `emit_ack` always fit their buffers, so it does not fail. The host
process does not restart: a `VerifiedCapability` does not outlive it either.
The second implementation of the device is `SimulatedDevice`.

### `SimulatedDevice`

Objects of `SimulatedPaperBarrierDevice` over one state store: `row` and
`executed` are the store, `object` each device object with its active challenge
or the command it is about to consume, `unsigned` the consumed commands whose
acknowledgement is still to be signed. `Start` may come while another object
runs; `ConsumeOrder` is the store's transaction; `Die` takes the in-memory store
with it and leaves SQLite's. It differs from the firmware in that only a genuine
command uses up a challenge, and the issuance store, which keeps a capability
from two commands, is `PaperBarrier`'s.

### `OneShotCommands` (the promise)

Each command is consumed at most once and moves the actuator, or is
acknowledged, at most once after that. `PaperBarrier!ImplementsOneShot` is the
refinement by the firmware, with `acted` mapped to the history `acts`;
`SimulatedDevice!Promise` is the one by the simulated device, with the orders
of `replies`, and part of `SimulatedIsOneShot`.

### `PolicyEngine`, `PolicyAnalysis`, `DecisionCache`

`PolicyEngine` is the engine as operators: `ValidRule`, the constraints, the
scope, `Freshness` and `EvaluateAt(rules, trusted, request, time)`, with deny
overriding. Glob patterns are texts and `Glob` the matching relation.
`PolicyAnalysis` has `deny_shadows_allow` and the other static findings, the
overlap analysis and audit of bundles, the shadowed allows of the model checker
in the repository, and the explanation of a decision. `DecisionCache` is the
state: rules are added, trust changes, the clock runs, and a call goes through
`BeginCall` (digest and lookup), `ServeHit`, or `AskEngine` (clock and digest),
`Decide` (rules) and `KeepAnswer`. A time that the caller gives stands for
itself in the answer and is kept under the same key, as in the code.

### `Delegation`

`Issue`, `Attenuate`, `SignByHand` (an issuer's key may sign any child, also one
`attenuate_capability` would refuse), `RevokeCap` and `Authorize`, which the gate
runs with the parent it is shown or none. `VerifyAttenuation` and
`AttenuateCapability` are the two sides of the narrowing, `GoAccepts` the Go
verifier. `Line` is a capability with all that stands above it: the least set that
holds it and the parent of each member. A hand may sign limits that are null,
negative, empty or of unknown names. `FieldsAllowed` is what the gate asks of
them (`_validate_v2_fields`) and `GoLimitsAllow` what the Go verifier does; they
differ in three places (finding 20), and `CapabilityVerifiersAgree` says that both
accept the same of what the library makes, and of what a hand signs all but
these three. Capabilities that are delegated to somebody, and targets that
`fnmatch` and `path.Match` match differently, are outside it.

### `ReceiptEvidence`

`ReceiptLog.append` in three steps for threads without a lock, `Restore` after a
restart with what the file holds, `Checkpoint`, and the auditor as operators over any
sequence of receipts that were ever signed: `ChainVerifies`, `Compliant`,
`GoChainVerifies`, `Query` by a filter (what it finds keeps its place in the chain),
`Summary` and the exported `Packet`.

### `Adapters`

Extends `PolicyAnalysis`. A behaviour is one of four: `Offer` fills a bundle and
`Export` writes it as an ODRL document (`WriteRule`), or `WriteByHand` brings
one, and `Edit` appends constraints to either; `ReceiveTerms` brings a terms
document from which `LeaveOut` takes fields; `Request` is a call over MCP, ROS 2,
WoT, OPC UA or Matter. The reading side (`ReadStatement`, `RulesRead`, `ReadTerm`,
`RequestOf`) keeps the order and the replacements of the code: a later
constraint of a kind displaces an earlier one, and what the adapter says of the
transport displaces what the caller says. The constraints of a rule are written in
some order (`InSomeOrder`), its statement at the rule's place in the bundle. `Holds` is what a constraint means by
itself, from the engine's own test, and `Unambiguous` and `Expressible` name the
documents and rules of which the code keeps the meaning (findings 14 and 15).
Operands and operators are read without their path (`Cut`, by `LastPart`), and a
null is refused (`ReadableItem`), so a `required_context` with a key such as
`x/purpose` or with a null value is neither `Expressible` nor, in the second
case, `ReadableBack`; the engine takes a null for an absent key (`ValueOf`,
`Wanted`). Other constraints are
never null in the model: the engine takes a null limit for an absent one, and a
document with one is refused as well. A term whose target is left out gets the
document's, which is what the format says, so `TargetsKept` excepts it.

### `Directory`, `Disclosure`

`Directory` holds two small registries. Of `privacy.py`: `IssueName`, `Rotate`,
`RevokeName`, `ResolveExpired` (a lookup that drops the name it finds expired)
and a clock set either way. Of `discovery.py`: `Register`, which refuses a
thing it knows and a policy pointer that is not authenticated, and `Remove`.

`Disclosure`: `Layers`, `Proof` and `VerifyField` are the Merkle tree, with its
padding to a power of two, `MerkleRedact` and `Redact` the two redactions. The
tree is a recursive function over its layers, as `_build_tree` makes it, and
positions count from 0 as in the code. A reader of several disclosures may
combine any part of their proofs with any field and value (`Proofs`).
`DisclosureAssumption` asks that the order of the fields names none twice, as a
sorted dictionary does.

### `PolicyFleet`, `RegistryFile`, `RevocationFleet`

`PolicyFleet`: the authority (`Publish`, `RestartAuthority`), the registries
(`Activate`, `RevokeVersion`, `RevokeLatest`, `Current`) and one distribution,
step by step (`BeginDistribution`, `Look`, `ActivateHere` or `ActivationFails`,
`AckHere`), with its report and the report's verification. Bundles from
elsewhere are `Foreign`. A rule set has the forms of its rules as `Content`,
as far as the two implementations tell them apart (`RuleForm`): `RuleFromDict`
and `ValidateBundleRule` read them, and `Parses` and `GoParses` are Python's and
Go's reading of the whole. `GoVerifyEnvelope`, `GoVerifies` and `GoCurrent` are
the Go verifier's own checks, in its order: Ed25519 keys, its canonical JSON, RFC
3339 times. `VerifiersAgree` says that both accept the same of what an authority
with an Ed25519 key publishes and both write alike; what one accepts alone of
anything else has a reason in `PythonOnly` or `GoOnly` (finding 19).

`RegistryFile`: the state file under commands that read, empty and write it and
may be killed in between; an operator removes a file that cannot be read.

`RevocationFleet`: the authority's list, its bundles (kept for ever, so that any
may arrive again), a delivery that applies entries one by one, and the report.

### `TrustedTime`

`now` in three steps per thread (read the source, compare, keep), a source that
moves both ways, and `reset`. After an idle time longer than the bound every
call is refused until `reset`: the model shows it, and `trust.py` means it so.

### Histories that mark a race

Some properties hold until something happens that the code does not guard
against. Each such thing sets a history variable that never becomes false
again, and the property begins with it, so that it says exactly what the
exception is:

| Variable | Set when | Why the code cannot hold beyond it |
|---|---|---|
| `DecisionCache!raced`, `mixed` | the policy changes during a call; between its digest and its rules | no lock in `cache.py` or `policy.py` |
| `ReceiptEvidence!forked` | another append comes between an append's link and its end; a restart loses receipts | `ReceiptLog` has no lock |
| `PolicyReload!overlapped` | two reloads overlap | finding 3 |
| `RegistryFile!overlapped`, `torn` | two commands overlap; one is killed in its write | no lock, `write_text` |
| `PolicyFleet!renumbered` | the authority restarts or is told a number | finding 7 |
| `TrustedTime!interleaved` | a reading is kept inside another call | no lock in `trust.py` |
| `GateService!unsaved`, `unread` | a write failed; a start could not read the file | the service goes on without |

## 3. The runs

| Run | Instance | Shows |
|---|---|---|
| `gate` | 2 threads, a scoped root, its child, two impostors, clock 0..3, 1 restart, SQLite | `ReuseOnlyAfterExpiry`, `RevocationHonoured`, refinement of the ledger |
| `single_use` | the same | **violation**: single-use does not hold without the expiry |
| `gatekeeper` | 2 threads (symmetric), 2 capabilities, one with obligations, one forbidden combination, clock 0..2, one disruption | `BarredNeverActuates`, `OneActionPerLiveCapability`, `ReceiptGapExplained`, `OneReceiptPerCapability`, `JournalHasReceipts` |
| `receipt_gap` | the same | **violation**: an action without a receipt |
| `service` | 2 threads (symmetric), 2 capabilities and a forged one, clock 0..2, 1 restart | `ChainAlwaysValid`, `AcknowledgedSurvives`, `DuplicateMeansDurable` |
| `receipt_unconsumed` | the same | **violation**: a receipt without a consumption |
| `stale_policy` | 2 threads, 1 save, fairness | **violation**: the saved policy never takes effect |
| `barrier` | 2 capabilities (symmetric), counters up to 2, 3 challenges, clock 0..2, 1 frame each way | `CountCoversActs`, `OneMovePerLiveCapability`, `ConfirmedWasActed`, refinement of the one-shot commands |
| `lost_exchange` | 1 capability, 2 frames each way | **violation**: an acknowledged command ends in an error |
| `fleet` (`MC_Fleet`) | `PolicyFleet`: 2 gates of unlike trust, 2 publications, 3 rule sets, 1 revocation, 3 foreign bundles (1 that Python alone accepts, 2 that Go alone does), clock 0..1; `RegistryFile`: 2 commands, 2 versions, 1 kill; `RevocationFleet`: 2 gates, 2 capabilities, 3 bundles; `SimulatedDevice`: 2 objects, 2 capabilities, 3 starts, 2 challenges, both stores; `TrustedTime`: 2 threads, source 0..2, 3 readings, 1 reset; `Directory`: 2 namespaces, 2 identifiers, 3 names, clock 0..2 both ways, 2 things, 3 registrations; `Disclosure`: 5 documents of 1 to 3 fields, 2 disclosures | `NoSilentDowngrade`, `SameVersionSameRules`, `GatesDecideForThemselves`, `ReportHolds`, `VerifiersAgree`; `ConfirmedChangesSurvive`; `PassMeansRevoked`, `RevokedForGood`; `SimulatedIsOneShot`; `TrustedTimeGrows`; `LookupsTellTruth`; `DisclosuresProve` |
| `authorization` (`MC_Authorization`) | `DecisionCache`: 2 threads, 4 rules in reserve, 2 requests, cache of 1, 2 changes, clock 0..1; `Delegation`: 3 kinds of root, 4 narrowings, 10 children signed by hand (null and unknown limits among them), 3 capabilities in all, 1 accepted, 1 revoked, clock 0..1; `ReceiptEvidence`: 2 threads, 3 capabilities, 3 receipts, 1 checkpoint, 1 restart, 3 filters | `AnswersFollowPolicy`, `StaticAnalysisSound`; `ChildVerifies`, `LinesNarrow`, `RootStopsAll`, `CapabilityVerifiersAgree`; `EvidenceIsHistory` |
| `policies` (`MC_Policies`) | `PolicyReload`: 2 threads, 3 saves; `Adapters`: 14 rules (keys with a path, nulls) and bundles of up to 2, 7 documents by hand, 17 constraints to add and up to 2 edits, 12 requests at 3 times, terms, calls over 5 transports | `BrokenFileDecidesNothing`, `StaleOnlyAfterOverlap`; `AdaptersKeepMeaning` |

**Bounds.** `MaxTime` lets every capability begin, live, expire, and be pruned
at a later instant, with the exact instants of start and expiry among them;
`MaxRestarts` is one, since a restart forgets nothing a second one could forget
more of. Two threads are enough for every pairwise race (the second use, the
fork, the overlapping reload) and the properties are about pairs. The type
invariants of `ActionGate`, `Gatekeeper`, `GateService` and `PolicyReload` are
conjuncts of what section 5 proves, and their runs do not repeat them. In
`gatekeeper` the constraint `OneDisruption` allows one revocation, restart,
actuator failure or malformed call in a behaviour, for size; each pair of them
disturbs different variables. In `barrier`,
counters that end at two are reached by two commands, one torn write or two
starts; three challenges are what a retry after a restart takes; one frame
each way is enough for a stale frame, since the line keeps it, and
`lost_exchange` has two. The symmetries are sound: no property names a thread
or a capability, capabilities expire together, and no run that uses one checks
liveness.
`MaxSaves` of three gives good-broken-good and good-good-missing. The proofs
below hold for every value of these bounds.

`fleet`, `authorization` and `policies` each check parts that share no state. A
behaviour chooses one part at the start and only that one moves, so the state
space is the sum of the parts' and not their product, and nothing is lost: no
property relates two parts, and a part that does not move satisfies its
properties from its initial state on. Three capabilities make a line with a
grandchild, which is where a check of parent and child alone could fail; three
bundles allow a late, a repeated and a skipped one; two versions and one
revocation are the downgrade; the second gate trusts fewer authorities than the
distributor. A third start meets a device that was already started beside
itself. Three names are one that was rotated, one that replaced it and one
of another owner; documents of one, two and three fields give a tree without
layers, a full one and one with padding. In `policies` two edits are a constraint
and one that displaces it. In `authorization` threads are interchangeable, and so are the
capabilities without obligations, and no property is temporal.

**Fairness.** Only `ReloadFairSpec` assumes any: each request thread keeps
running, and requests keep coming (weak fairness of the thread's next step).
The threads never wait for each other for longer than one assignment under
`_lock`, and a service that gets no requests decides nothing, so that is the
assumption most favourable to the code; the operator need not save.

**Deadlock** is checked in every run but `fleet`, `authorization` and `policies`:
their parts end when their bounds are used up, which is the bounds' doing.

## 4. Findings

1. *Single-use has an edge* (`gate.py:192`, `spec/KGP-001.md:85`). A call that
   passed its expiry check in time and consumes after the expiry finds the
   first use pruned. `ReuseOnlyAfterExpiry` is the exact claim that holds.
2. *An action can lack its receipt* (`gatekeeper.py:135`, `README.md:16`): the
   actuator runs past the expiry. Malformed arguments, checked after the action,
   do the same. `ReceiptGapExplained` says that, with a durable store, there is
   no third way.
3. *A saved policy may never take effect* (`server.py:234`, `538`): two
   overlapping reloads. `StaleOnlyAfterOverlap` says overlap is the only way.
4. *A receipt does not imply a consumption* (`server.py:284`, `receipt.py:44`).
5. *The host refuses the firmware's regular output* (`esp32c3_serial.py:100`,
   `kgp_firmware.c:498`): acknowledgement and next challenge are read together,
   so a command that moved the servo ends in `PermissionError`.
6. *`list_receipts` returns memory, not the persisted trail* (`server.py:362`).
7. *The authority forgets its numbers* (`policy_bundle.py:728`): after a restart
   it numbers a policy from 1 again. Gates on a newer version acknowledge the new
   bundle as already current, and the report passes.
8. *`kinegrant-revoke-distribute` writes nothing back* (`distribution.py:219`):
   it revokes in copies of the gates' lists and reports PASS.
9. *A child does not inherit limits* (`attenuation.py:131`): what it is not asked
   to tighten it drops.
10. *A child's target may be a pattern wider than its parent's*
    (`attenuation.py:188`): patterns are matched as texts.
11. *`deny_shadows_allow` ignores the deny rule's constraints*
    (`semantics.py:136`).
12. *The overlap analysis misses overlaps* of patterns (`policy_bundle.py:244`).
13. *An empty set of trusted keys trusts everybody* (`audit.py:65` and the
    registry and distributors).
14. *A rule does not survive ODRL and back* (`adapters/odrl.py:296`): purposes
    and issuer are not written, some actions and keys come back as others (a key
    is cut at its last slash), and some constraints, nulls among them, are refused.
15. *The last constraint of a kind wins* (`adapters/odrl.py:84`): a statement's
    other ones are lost, and an added one can widen it.
16. *A term with `"agents": null` is for every agent* (`adapters/ieee7012.py:52`).
17. *The evidence packet does not verify by itself* (`audit.py:258`): it has no
    signatures and, once filtered, no chain.
18. *A capability may produce a second device command* (`esp32c3.py:316`): the
    expiry is compared with a clock that was read before, and `consume_once` prunes by
    a later one, so a call delayed past the expiry issues another command, where
    `proof/esp32-c3/README.md:45` and the message of `esp32c3.py:327` say one at
    most. `OneMovePerLiveCapability` is what holds.
19. *Python and Go accept different bundles* (`policy_bundle.py:61`,
    `verify.go:161`): Python alone takes actions that are one text, ML-DSA keys,
    other ISO times and some canonical JSON; Go alone takes other effects, blank
    texts, fields it does not read, and loose fields of the bundle. `README.md:217`
    says "byte-identical decisions".
20. *Python and Go accept different capabilities* (`gate.py:249`, `verify.go:578`),
    if they are signed by hand: unknown constraints and too deep a permission are
    refused by Python alone, a null limit by Go alone.

Findings 1 to 5, but not 6, have a run each that shows the violation; the
others are statements of the source beside its documents, and the models follow
the source: the property named in `PROJECT.json` is restricted by exactly that
case.

Smaller things met on the way, against which no document speaks: a distribution
report passes although the version is revoked at some gate (the acknowledgement
says "already", and `ReportHolds` names the case), and the report's
`current_after` is not verified; the Go verifier rejects every delegated
capability and lets `*` stop at a slash; the gate takes a shown parent into
account for version "0.2" only; revoking a capability in the middle of a line
does not stop its descendants; a cached allow outlives the age limit of its
request.

## 5. The proofs

Every property that a passing run checks is also the subject of a theorem. One
module holds the proofs of each group of components; those of the gatekeeper and
of the service extend the gate's.

`ActionGateProofs` is of the gate (`ActionGate`), for every set of callers,
capabilities, presentations and requests, from `GateAssumption` only:

* `TypeCorrect`: `Spec => []TypeOK`;
* `LiveCapabilityIsOneTime`: `Spec => []ReuseOnlyAfterExpiry`;
* `RevocationHolds`: `Spec => []RevocationHonoured`;
* `DurableGateIsLedger`: with a durable store, `Spec => Ledger!LedgerSpec`.

Neither property is inductive. A second use is prevented by what the store
*remembers*, so the invariant `Inv` adds `UsesRemembered` (each use is in the
store, or its expiry has passed, or its process is gone) and that only genuine
payloads reach the store, from which two grants with the same id are the same
grant (`GenuineGrantsById`). A revocation is honoured by what a caller past its
checks *knows*, so `Inv` adds `CallersHonest` (a caller that waits to consume
was not forewarned; one that was is still on the list; the root is a real id).
There is one lemma per action that disturbs a part of `Inv`; the one that
carries the argument is `ConsumeKeeps`: an id missing from the pruned store
means every earlier use of it is past its expiry.
The refinement uses the same fact, and `SpentAppend` for the mapping.

All other theorems too are for every value of the constants, under their
component's own named assumption, which TLC evaluates in the runs.

* **`GateServiceProofs`**: `ChainHolds`, `AnsweredReceiptsSurvive`,
  `DuplicatesAreDurable`. The argument is the lock's. `ServiceInv` adds
  `LockHeld` (only the holder is past the lock), `Drafts` (its draft still names
  the last receipt, and a capability that has none) and `Saved` (while nobody
  holds the lock and no write has failed, the file is the log). The gate's steps
  leave all of that alone (`AsideKeeps`). `ServiceRunsTheGate` is the other half:
  `ServiceSpec => Spec`, each step of the service is one of its gate or none
  (`ServiceStepsGate`), so that single use and the one-time ledger hold for
  `/verify` and `/run` together (`ServiceConsumesOnce`, `ServiceIsLedger`).
* **`GatekeeperProofs`**: `BarredIsStopped`, `LiveCapabilityActsOnce`, `GapsExplained`,
  `OneReceiptEach`,
  `JournalIsReceipted`, and `GateInsideGatekeeper`: the gate's own two properties
  hold inside the gatekeeper as well, whose abandoned calls are no steps of
  `ActionGate`, so `Inv` is kept anew; but they spend nothing, so on a durable
  store the gatekeeper refines the one-time ledger too (`GatekeeperIsLedger`).
  `GKInv` says of every call what it holds at
  its stage (`ThreadFine`) and of every two calls that with one capability only
  one is before its expiry and only one has a draft (`PairFine`). That is why the
  unlocked check-then-append of the receipt log never doubles a receipt: the
  second passes the gate when the store has forgotten the first, after the
  expiry, and a draft is not made then.
* **`PaperBarrierProofs`**: `CountsHold`, `OneMoveEach`, `ConfirmedMoved` and the
  refinement `BarrierIsOneShot`. The argument is an order: nonces are published
  in increasing order, the line keeps the order of challenges whatever it loses,
  commands are issued in it and consumed in it (`NoncesFine`, `ActsFine`,
  `LineFine`, `IssuesFine`). `CountsFine` is the invariant over torn writes: after
  a write that failed half-way memory may be one behind flash, never ahead of a
  move.
* **`PolicyReloadProofs`**: `BrokenFileIsRefused`,
  `OnlyOverlapIsStale`: versions only grow and keep their kind, so what a thread
  noted of the version that is on disk is still true; the invariant says what
  each thread knows by its position.
* **`FleetProofs`**, of `MC_Fleet` and its parts. Policy bundles: `GatesDecide`,
  `DowngradesAreTold`, `OneVersionOneRules`, `ReportsHold`, `VerifiersAlike`,
  `FleetTypeCorrect`. `Held` describes what a registry can hold and `JobShape` how
  far a distribution is; `Numbered` and `FromAuthority` tie each gate's bundles of
  the authority to what it signed; `JobServed` says that each gate served so far
  is `Settled`: it runs the version or a newer one, or such a version was revoked
  or has expired, which no later step undoes. That a gate runs the *highest*
  version in force needs that there is one, from well-foundedness of the
  naturals. `FleetAssumption` asks of foreign bundles only that nobody else holds
  the authority's key for rules that a registry would parse, and that windows are
  not empty. `VerifiersAlike` has no hypothesis: what the authority signs is
  signed as itself, with times and rules of the form it writes (`Sealed`), and
  for anything else the two readings are compared check by check, each difference
  being one of the list. That both take the same version as current
  (`GoTakesTheSame`) asks that Go can read the times of what is not revoked.
  The registry's file: `ConfirmedStays`. It is not inductive by itself: between
  read and write the changes live in a command's memory, so every memory that may
  still be written has them too, and there is at most one.
  Revocations: `RevocationsLast`, and `ReportMeansRefused` by `Served`: how far the
  distribution has come, entry by entry. Its totals are counted as pairs of a gate
  and a number (`Total`), so that two counts that add up to the same at each gate
  fill a rectangle (`TotalsAdd`), with no induction over the gates.
  The simulated device: `SimulatedKeepsPromise`, that the simulated device
  refines `OneShotCommands` with either store, and counts exactly with SQLite.
  The in-memory store forgets what was executed, so the argument is not the
  store's: `Fresh` says that a challenge is held by one object at most and that
  none holds one that was used. `OneEach` gives each acknowledgement a command of
  its own, and `Counts` keeps counts and sequence numbers of a boot in step. Its
  bounds (`SimulatedTypeCorrect`) need one more fact: what a store counts is what
  it has executed, and each of those commands used up a challenge of its own
  (`SimTypeInv`).
  The trusted clock: `TimeNeverGoesBack`, by `StillAcceptable`: a
  reading that passed the comparison would pass it again when it is kept.
  The registries: `LookupsTrue`, of `DirectorySpec`: an active name is as it was
  issued and has not ended (`NamesInv`), and a thing is described by the first
  fitting one of the calls since it was last removed (`ThingsInv`).
  Disclosure, for documents of any number of fields: `ProofVerifies` (every field
  verifies with the proof that `merkle_proofs` computes: going up, positions and
  widths halve together, and a digest is the node at its position),
  `VerifiedIsThere` (whatever the proof given to `verify_field`, of any length and
  made by anybody, a field and value that verify under a document's root are that
  document's: from the root down, if a digest is a node of the tree then the one
  it was made from is a node below it, and only the foot has leaves), and
  `DisclosuresAreProofs` from both. This is an argument over the layers, by
  `StepByStep`: what holds of 0 and passes from each number to the next holds of
  all, stated of a set and proved by the least counterexample. The same lemma
  shows of each recursive function that its equations have a solution
  (`LayersAre`, `SizesDouble`, `PositionsHalve`, `ClimbSteps`), without which
  nothing is known of it.
  All together: the parts share no state, so a behaviour of `MC_Fleet` is one of
  each (`PartsAreAlone`), and `PartsTypeOK` follows from the type invariants of
  the parts (`PartsTypeCorrect`).
* **`AuthorizationProofs`**, of `MC_Authorization` and its parts. Delegation:
  `ChildrenVerify`, `RootStopsLine`, `NarrowAlongLines`, `VerifiersAgreeOnCapabilities`,
  `DelegationTypeCorrect`. A parent is older than its child (`Numbered`), so what
  holds of the root and passes from parent to child holds along a line
  (`LineInduction`, by the least counterexample); `Wired` and `Sound` say what a
  capability is on the wire and what the library makes. `DelegationAssumption`
  restates what `issue_scoped` and the wire format refuse. Cache: `AnswersFollow`,
  `CacheTypeCorrect`: each call and each entry keeps the moment and the policy of
  its answer (`CallFine`, `EntryFine`), also while the policy changes beside it.
  Policies: `AnalysisIsSound`, from what covering and overlapping patterns match.
  Evidence: `ReceiptsAreEvidence`, by
  `EvidenceInv`: a signed receipt is of one append and in no log until that append
  is done, and while a log keeps its order every receipt of its executor is in it
  or under way. Whatever chain an auditor is handed, if it verifies each receipt
  names the one before it, so at the least place where it could leave the log it
  does not (`ChainIsLog`, from well-foundedness of the naturals). What the
  verifiers and packets count are images and sets of places, so the arguments are
  injections and disjoint unions (`EachUseOnce`, `PacketsAddUp`). `Query` keeps the
  places of what it finds for that reason: with `SelectSeq`, which recurs, its
  length could not be reasoned about. `EvidenceAssumption` asks that a filter's
  times are numbers.
  All together: `PartsAreAlone` and `AuthorizationTypeCorrect`, as for the fleet.
* **`AdaptersProofs`**: `AlwaysAdaptersKeepMeaning`, of `ExchangeSpec`, with
  `Asked` any requests and times. `ExchangeInv` is small: a document has the shape
  of one, what was exported and not edited is what `WriteOffer` gives
  (`DocumentFine`), and terms are part of the terms they came from. What is hard
  is reading: of each kind the last constraint counts (`ReadFromLast`), which is
  *the* one where none is repeated (`ReadOnce`, `ContextReadOnce`), so a rule
  holds when its statement does (`StatementHolds`); written in whatever order,
  constraints come back (`ReadBack`), and rules that correspond decide alike
  (`SameApplicable`). That both readers accept an export is claimed of rules an
  engine accepts, without a context key whose last part is empty or, such as
  `maxForceNewtons`, read as a limit, and without a bare null (`ReadableBack`); that a rule that was read enters an engine, of an
  engine that knows its actions. `ExchangeAssumption` states the shapes of rules,
  documents and calls and that obligations have no aliases.

`GKInv`, `BarrierInv`, `DelegationInv`, `CacheInv` and `RulesInv` can also be
evaluated: TLC finds each of them to hold on its component's instance of
section 3.

What TLC alone checks, on its instances: that the models have no deadlock where
one is looked for, that every action can happen, the counterexamples of the
violation runs, and the mutants that show each property to depend on the code.
Liveness is out of the prover's reach: the one liveness claim is
`SavedPolicyTakesEffect`, which TLC refutes.

## 6. Not modelled

* *Envelopes, canonical JSON, keys, digests*: cryptography and encoding. The
  models assume that signatures cannot be forged and digests do not collide.
* *Sensor evidence and device attestation*: builders and verifiers of one
  signed document each, a list of checks without state or sequence.
* *The ROS 2 bridge, CSV, and the texts of reports and explanations*: transport
  and layout. What a ROS 2 call becomes as a request is in `Adapters`.
* *Keys and files at the service's first start*: pure input and output.
* *The JavaScript verifier and the command lines* other than the registry's
  state file and the revocation distributor (finding 8); the Go verifier is
  modelled where it decides what Python decides.
* *Conformance, property and red-team suites shipped as code* (`mpt.py`,
  `conformance.py`, `redteam.py`, `fuzz.py`): they exercise the
  components above; `modelcheck.py`'s shadowed allows are in `PolicyAnalysis`.

Hazards no property covers: the wall clock that steps back under the gate
(`gate.py:66`; `TrustedTime` is what would refuse it and is not wired in),
two saves with one size and one modification time
(`server.py:224`; versions are unique in `PolicyReload`), and host and device
waiting for each other after the port was opened late (`esp32c3_serial.py:56`;
modelled, promised by nobody). The journal in memory is lost at a restart, which
`GKRestart` models; nothing in the repository promises that it stays.

What could come next: the policy engine of `GateService` in place of its free
decision.
