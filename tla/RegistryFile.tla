------------------------------ MODULE RegistryFile ------------------------------
(***************************************************************************)
(* The state file of a policy registry (policy_bundle.py): to_dict and     *)
(* from_dict, and the commands that read it, change the registry in their  *)
(* own memory and write it back.  kinegrant-policy-bundle --activate and   *)
(* --distribute activate; programs that use the library also revoke.       *)
(*                                                                         *)
(* No command locks the file, and write_text empties it before it writes.  *)
(* from_dict takes what the file says as it is: bundles are verified when  *)
(* they are activated, and not again.  A bundle is its version here; that  *)
(* it verifies, and that it is in its window, is PolicyFleet's business.   *)
(***************************************************************************)
EXTENDS Integers, FiniteSets

CONSTANTS
    Commands,     \* processes that run one command after the other
    Versions,     \* versions of the policy
    MaxCrashes    \* bound on the commands that are killed

ASSUME FileAssumption == Versions \subseteq Nat \ {0} /\ MaxCrashes \in Nat

VARIABLES
    stateFile,    \* the registry in the file, or Missing or Damaged
    command,      \* each process: its command and its position in it
    crashes,
    confirmed,    \* history: the changes of the commands that have returned
    overlapped,   \* history: two commands were between reading and writing
    torn          \* history: a command was killed while it wrote

fileVars == <<stateFile, command, crashes, confirmed, overlapped, torn>>

Missing == [kind |-> "missing"]
Damaged == [kind |-> "damaged"]
NoCommand == [stage |-> "none"]

Registry == [kind : {"registry"}, active : SUBSET Versions, revoked : SUBSET Versions]

NewRegistry == [kind |-> "registry", active |-> {}, revoked |-> {}]

Change == [op : {"activate", "revoke"}, version : Versions]

Command == [stage : {"read", "write"}, change : Change, memory : Registry]

(* Every variable keeps its shape, and an emptied file is one that some    *)
(* command is writing or has died writing.                                 *)
FileTypeOK ==
    /\ stateFile \in Registry \cup {Missing, Damaged}
    /\ command \in [Commands -> Command \cup {NoCommand}]
    /\ crashes \in 0 .. MaxCrashes
    /\ confirmed \subseteq Change
    /\ overlapped \in BOOLEAN /\ torn \in BOOLEAN
    /\ stateFile = Damaged =>
          torn \/ \E c \in Commands : command[c].stage = "write"

FileInit ==
    /\ stateFile = Missing
    /\ command = [c \in Commands |-> NoCommand]
    /\ crashes = 0
    /\ confirmed = {}
    /\ overlapped = FALSE
    /\ torn = FALSE

-----------------------------------------------------------------------------
RestoredBundles ==
    IF stateFile = Missing THEN NewRegistry ELSE [stateFile EXCEPT !.revoked = {}]

(* from_dict of the parsed file; no file is an empty registry. *)
Restored == IF stateFile = Missing THEN NewRegistry ELSE stateFile

Changed(r, change) ==
    CASE change.op = "activate" -> [r EXCEPT !.active = @ \cup {change.version}]
      [] change.op = "revoke" -> [r EXCEPT !.revoked = @ \cup {change.version}]

(* A command reads the file and changes its copy; with a damaged file      *)
(* json.loads raises and the command ends.                                 *)
ReadState(c) ==
    /\ command[c] = NoCommand
    /\ stateFile # Damaged
    /\ \E change \in Change :
          command' = [command EXCEPT ![c] = [stage |-> "read", change |-> change,
                                             memory |-> Changed(Restored, change)]]
    /\ overlapped' = (overlapped \/ \E d \in Commands : command[d] # NoCommand)
    /\ UNCHANGED <<stateFile, crashes, confirmed, torn>>

(* write_text opens the file, which empties it, ... *)
Truncate(c) ==
    /\ command[c].stage = "read"
    /\ stateFile' = Damaged
    /\ command' = [command EXCEPT ![c].stage = "write"]
    /\ UNCHANGED <<crashes, confirmed, overlapped, torn>>

(* ... and writes the registry; the command has succeeded. *)
WriteState(c) ==
    /\ command[c].stage = "write"
    /\ stateFile' = command[c].memory
    /\ confirmed' = confirmed \cup {command[c].change}
    /\ command' = [command EXCEPT ![c] = NoCommand]
    /\ UNCHANGED <<crashes, overlapped, torn>>

(* A command is killed; before it writes, that changes nothing. *)
KillCommand(c) ==
    /\ command[c] # NoCommand
    /\ crashes < MaxCrashes
    /\ crashes' = crashes + 1
    /\ torn' = (torn \/ command[c].stage = "write")
    /\ command' = [command EXCEPT ![c] = NoCommand]
    /\ UNCHANGED <<stateFile, confirmed, overlapped>>

(* An operator removes a damaged file, and the next command starts afresh. *)
RemoveDamaged ==
    /\ stateFile = Damaged
    /\ \A c \in Commands : command[c] = NoCommand
    /\ stateFile' = Missing
    /\ UNCHANGED <<command, crashes, confirmed, overlapped, torn>>

FileNext ==
    \/ \E c \in Commands : ReadState(c) \/ Truncate(c) \/ WriteState(c) \/ KillCommand(c)
    \/ RemoveDamaged

FileSpec == FileInit /\ [][FileNext]_fileVars

-----------------------------------------------------------------------------
(* Properties *)

Holds(r, change) ==
    CASE change.op = "activate" -> change.version \in r.active
      [] change.op = "revoke" -> change.version \in r.revoked

(* A change whose command has returned is in the file whenever the file    *)
(* can be read, so that a revoked version stays revoked in later runs, as  *)
(* long as no two commands overlapped and none was killed in its write.    *)
ConfirmedChangesSurvive ==
    overlapped \/ torn \/
    (stateFile # Damaged => \A change \in confirmed : Holds(stateFile, change))
=============================================================================
