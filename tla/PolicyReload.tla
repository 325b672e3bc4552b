------------------------------ MODULE PolicyReload ------------------------------
(***************************************************************************)
(* How the HTTP service keeps its policy engine up to date with            *)
(* policy.json (server.py, _current_engine and _set_policy).  Every        *)
(* endpoint that decides or reports health runs it in a thread of its own: *)
(* it compares the file's signature with the last one loaded, reads and    *)
(* parses the file when they differ, installs the engine under _lock, and  *)
(* notes the signature after the lock is released.                         *)
(*                                                                         *)
(* A save is a new version of the file, and versions stand for the         *)
(* signature (mtime in ns and size): two saves that share both are not     *)
(* modelled.  A save that is not atomic is a broken version and then a     *)
(* good one.                                                               *)
(***************************************************************************)
EXTENDS Integers

CONSTANTS
    Threads,      \* request threads of ThreadingHTTPServer
    MaxSaves      \* bound on the versions of the file

ASSUME ReloadAssumption == MaxSaves \in Nat

VARIABLES
    disk,         \* policy.json: its version, and whether it parses or exists
    policyStat,   \* _policy_stat: the signature last noted, NoStat at the start
    engine,       \* _engine: the version it was built from
    thread,       \* each thread's position in _current_engine and its locals
    last,         \* history: the last decision
    overlapped    \* history: two reloads have overlapped

reloadVars == <<disk, policyStat, engine, thread, last, overlapped>>

NoStat == -1

Waiting == [pc |-> "waiting"]

(* began is history: the version on disk when the request arrived. *)
RequestState == [pc : {"stat", "compare", "read", "set", "mark", "use"},
            began : Nat, signature : Nat \cup {NoStat}, document : Nat]

(* Every variable keeps its shape. *)
ReloadTypeOK ==
    /\ disk \in [version : Nat, kind : {"good", "broken", "missing"}]
    /\ policyStat \in Nat \cup {NoStat}
    /\ engine \in Nat
    /\ thread \in [Threads -> RequestState \cup {Waiting}]
    /\ last \in [began : Nat, ended : Nat, by : Nat,
                kind : {"good", "broken", "missing"}]
    /\ overlapped \in BOOLEAN

(* build_service_from_dir has built the engine from the file and noted no  *)
(* signature.                                                              *)
ReloadInit ==
    /\ disk = [version |-> 0, kind |-> "good"]
    /\ policyStat = NoStat
    /\ engine = 0
    /\ thread = [t \in Threads |-> Waiting]
    /\ last = [began |-> 0, ended |-> 0, by |-> 0, kind |-> "good"]
    /\ overlapped = FALSE

-----------------------------------------------------------------------------
At(t, pc) == thread[t] # Waiting /\ thread[t].pc = pc

(* The operator edits, damages or removes the file. *)
Save(kind) ==
    /\ disk.version < MaxSaves
    /\ disk' = [version |-> disk.version + 1, kind |-> kind]
    /\ UNCHANGED <<policyStat, engine, thread, last, overlapped>>

Arrive(t) ==
    /\ thread[t] = Waiting
    /\ thread' = [thread EXCEPT ![t] = [pc |-> "stat", began |-> disk.version,
                                        signature |-> NoStat, document |-> 0]]
    /\ UNCHANGED <<disk, policyStat, engine, last, overlapped>>

(* A file that cannot be read by stat leaves the engine as it is. *)
Stat(t) ==
    /\ At(t, "stat")
    /\ thread' = IF disk.kind = "missing"
                 THEN [thread EXCEPT ![t].pc = "use"]
                 ELSE [thread EXCEPT ![t].pc = "compare", ![t].signature = disk.version]
    /\ UNCHANGED <<disk, policyStat, engine, last, overlapped>>

Reloading(t) == thread[t] # Waiting /\ thread[t].pc \in {"read", "set", "mark"}

Compare(t) ==
    /\ At(t, "compare")
    /\ \/ /\ thread[t].signature = policyStat
          /\ thread' = [thread EXCEPT ![t].pc = "use"]
          /\ UNCHANGED overlapped
       \/ /\ thread[t].signature # policyStat
          /\ thread' = [thread EXCEPT ![t].pc = "read"]
          /\ overlapped' = (overlapped \/ \E s \in Threads : Reloading(s))
    /\ UNCHANGED <<disk, policyStat, engine, last>>

MarkBeforeParse(t) ==
    /\ At(t, "read")
    /\ policyStat' = thread[t].signature
    /\ thread' = IF disk.kind = "good"
                 THEN [thread EXCEPT ![t].pc = "set", ![t].document = disk.version]
                 ELSE [thread EXCEPT ![t] = Waiting]
    /\ UNCHANGED <<disk, engine, last, overlapped>>

(* A file that is gone or does not parse into rules ends the request with  *)
(* an error.                                                               *)
Read(t) ==
    /\ At(t, "read")
    /\ thread' = IF disk.kind = "good"
                 THEN [thread EXCEPT ![t].pc = "set", ![t].document = disk.version]
                 ELSE [thread EXCEPT ![t] = Waiting]
    /\ UNCHANGED <<disk, policyStat, engine, last, overlapped>>

SetPolicy(t) ==
    /\ At(t, "set")
    /\ engine' = thread[t].document
    /\ thread' = [thread EXCEPT ![t].pc = "mark"]
    /\ UNCHANGED <<disk, policyStat, last, overlapped>>

MarkLatest(t) ==
    /\ At(t, "mark")
    /\ policyStat' = disk.version
    /\ thread' = [thread EXCEPT ![t].pc = "use"]
    /\ UNCHANGED <<disk, engine, last, overlapped>>

(* The signature noted is the one taken before the file was read. *)
Mark(t) ==
    /\ At(t, "mark")
    /\ policyStat' = thread[t].signature
    /\ thread' = [thread EXCEPT ![t].pc = "use"]
    /\ UNCHANGED <<disk, engine, last, overlapped>>

(* The engine of this instant, under _lock, decides the request. *)
Use(t) ==
    /\ At(t, "use")
    /\ last' = [began |-> thread[t].began, ended |-> disk.version,
                by |-> engine, kind |-> disk.kind]
    /\ thread' = [thread EXCEPT ![t] = Waiting]
    /\ UNCHANGED <<disk, policyStat, engine, overlapped>>

Serve(t) ==
    \/ Arrive(t) \/ Stat(t) \/ Compare(t) \/ Read(t)
    \/ SetPolicy(t) \/ Mark(t) \/ Use(t)

ReloadNext ==
    \/ \E kind \in {"good", "broken", "missing"} : Save(kind)
    \/ \E t \in Threads : Serve(t)

ReloadSpec == ReloadInit /\ [][ReloadNext]_reloadVars

(* Requests keep coming to every thread, and no thread is starved.  The    *)
(* operator need not save.                                                 *)
ReloadFairSpec == ReloadSpec /\ \A t \in Threads : WF_reloadVars(Serve(t))

-----------------------------------------------------------------------------
(* Properties *)

(* Fail closed: while a file that does not parse is in place from the      *)
(* arrival of a request to its end, the request gets no decision, however  *)
(* many threads reload.                                                    *)
BrokenFileDecidesNothing ==
    last.kind = "broken" => last.began # last.ended

(* A request during which the file does not change is judged by that file, *)
(* until two reloads have overlapped (saves in mid-reload included).       *)
StaleOnlyAfterOverlap ==
    (last.kind = "good" /\ last.began = last.ended)
    => overlapped \/ last.by = last.ended

(* As the service announces ("policy.json is re-read on every request"),   *)
(* the file that parses and stays is in the end the one that decides.      *)
SavedPolicyTakesEffect ==
    <>[](disk.kind = "good" => engine = disk.version)
=============================================================================
