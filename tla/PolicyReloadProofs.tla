--------------------------- MODULE PolicyReloadProofs ---------------------------
(***************************************************************************)
(* The reload of policy.json for any number of request threads and saves:  *)
(* a broken file decides nothing, and only overlapping reloads make a      *)
(* decision stale.                                                         *)
(*                                                                         *)
(* Versions only grow, and a version never changes its kind; so whatever   *)
(* a thread noted of the version that is now on disk is still true.  The   *)
(* invariant says what each thread knows of that version, by its position. *)
(***************************************************************************)
EXTENDS PolicyReload, TLAPS

Loading == {"compare", "read", "set", "mark"}

(* What is noted is of versions that have existed, and a signature is      *)
(* taken after the request arrived.                                        *)
NotedBefore ==
    /\ policyStat <= disk.version
    /\ \A t \in Threads : thread[t] # Waiting =>
          /\ thread[t].began <= disk.version
          /\ thread[t].pc \in Loading =>
                /\ thread[t].signature \in Nat
                /\ thread[t].began <= thread[t].signature
                /\ thread[t].signature <= disk.version
          /\ thread[t].pc = "set" =>
                /\ thread[t].signature <= thread[t].document
                /\ thread[t].document <= disk.version

(* A broken file is noted by nobody and used by nobody who found it so.    *)
BrokenNotNoted ==
    disk.kind = "broken" =>
        /\ policyStat # disk.version
        /\ \A t \in Threads : thread[t] # Waiting =>
              /\ thread[t].pc \in {"set", "mark"} => thread[t].signature # disk.version
              /\ thread[t].pc = "use" => thread[t].began # disk.version

FailClosed == ReloadTypeOK /\ NotedBefore /\ BrokenNotNoted /\ BrokenFileDecidesNothing

-----------------------------------------------------------------------------

LEMMA RequestShape ==
    ASSUME ReloadTypeOK, NEW t \in Threads
    PROVE  \/ thread[t] = Waiting
           \/ /\ thread[t] # Waiting /\ thread[t] \in RequestState
              /\ thread[t].began \in Nat /\ thread[t].document \in Nat
              /\ thread[t].signature \in Nat \cup {NoStat}
              /\ thread[t].pc \in {"use"} \cup {"stat"} \cup Loading
<1>1. thread[t] \in RequestState \cup {Waiting}
  BY DEF ReloadTypeOK
<1>2. Waiting \notin RequestState
  BY DEF Waiting, RequestState
<1> QED
  BY <1>1, <1>2 DEF RequestState, Loading

(* Shapes are kept. *)
LEMMA ReloadTypeStep ==
    ReloadTypeOK /\ [ReloadNext]_reloadVars => ReloadTypeOK'
<1> SUFFICES ASSUME ReloadTypeOK, [ReloadNext]_reloadVars PROVE ReloadTypeOK'
  OBVIOUS
<1> USE DEF ReloadTypeOK
<1>1. ASSUME NEW kind \in {"good", "broken", "missing"}, Save(kind) PROVE ReloadTypeOK'
  BY <1>1 DEF Save
<1>2. ASSUME NEW t \in Threads, Arrive(t) PROVE ReloadTypeOK'
  BY <1>2 DEF Arrive, RequestState
<1>3. ASSUME NEW t \in Threads, Stat(t) PROVE ReloadTypeOK'
  <2>1. thread[t] \in RequestState /\ disk.version \in Nat
    BY <1>3, RequestShape DEF Stat, At
  <2>2. CASE thread' = [thread EXCEPT ![t].pc = "use"]
    BY <1>3, <2>1, <2>2 DEF Stat, RequestState
  <2>3. CASE thread' = [thread EXCEPT ![t].pc = "compare", ![t].signature = disk.version]
    <3> DEFINE next == [pc |-> "compare", began |-> thread[t].began,
                        signature |-> disk.version, document |-> thread[t].document]
    <3>1. next \in RequestState
      BY <2>1 DEF RequestState
    <3>2. /\ thread'[t] = next /\ thread' = [s \in Threads |-> thread'[s]]
          /\ \A s \in Threads : s # t => thread'[s] = thread[s]
      BY <2>1, <2>3 DEF RequestState
    <3> HIDE DEF next
    <3>3. thread' \in [Threads -> RequestState \cup {Waiting}]
      BY <3>1, <3>2
    <3> QED
      BY <1>3, <3>3 DEF Stat
  <2> QED
    BY <1>3, <2>2, <2>3 DEF Stat
<1>4. ASSUME NEW t \in Threads, Compare(t) PROVE ReloadTypeOK'
  <2>1. thread' = [thread EXCEPT ![t].pc = "use"] \/ thread' = [thread EXCEPT ![t].pc = "read"]
    BY <1>4 DEF Compare
  <2>2. thread[t] \in RequestState
    BY <1>4, RequestShape DEF Compare, At
  <2>3. thread' \in [Threads -> RequestState \cup {Waiting}]
    BY <2>1, <2>2 DEF RequestState
  <2>4. overlapped' \in BOOLEAN
    BY <1>4 DEF Compare
  <2> QED
    BY <1>4, <2>3, <2>4 DEF Compare
<1>5. ASSUME NEW t \in Threads, Read(t) PROVE ReloadTypeOK'
  <2>1. thread[t] \in RequestState /\ disk.version \in Nat
    BY <1>5, RequestShape DEF Read, At
  <2>2. CASE thread' = [thread EXCEPT ![t].pc = "set", ![t].document = disk.version]
    <3> DEFINE next == [pc |-> "set", began |-> thread[t].began,
                        signature |-> thread[t].signature, document |-> disk.version]
    <3>1. next \in RequestState
      BY <2>1 DEF RequestState
    <3>2. /\ thread'[t] = next /\ thread' = [s \in Threads |-> thread'[s]]
          /\ \A s \in Threads : s # t => thread'[s] = thread[s]
      BY <2>1, <2>2 DEF RequestState
    <3> HIDE DEF next
    <3>3. thread' \in [Threads -> RequestState \cup {Waiting}]
      BY <3>1, <3>2
    <3> QED
      BY <1>5, <3>3 DEF Read
  <2>3. CASE thread' = [thread EXCEPT ![t] = Waiting]
    BY <1>5, <2>3 DEF Read
  <2> QED
    BY <1>5, <2>2, <2>3 DEF Read
<1>6. ASSUME NEW t \in Threads, SetPolicy(t) PROVE ReloadTypeOK'
  BY <1>6, RequestShape DEF SetPolicy, At, RequestState
<1>7. ASSUME NEW t \in Threads, Mark(t) PROVE ReloadTypeOK'
  BY <1>7, RequestShape DEF Mark, At, RequestState
<1>8. ASSUME NEW t \in Threads, Use(t) PROVE ReloadTypeOK'
  BY <1>8, RequestShape DEF Use, At
<1>9. CASE UNCHANGED reloadVars
  BY <1>9 DEF reloadVars
<1> QED
  BY <1>1, <1>2, <1>3, <1>4, <1>5, <1>6, <1>7, <1>8, <1>9 DEF ReloadNext, Serve

LEMMA FailClosedInit == ReloadInit => FailClosed
<1> SUFFICES ASSUME ReloadInit PROVE FailClosed
  OBVIOUS
<1> USE DEF ReloadInit, NoStat
<1>1. disk \in [version : Nat, kind : {"good", "broken", "missing"}] /\ disk.version = 0
  OBVIOUS
<1>2. thread \in [Threads -> RequestState \cup {Waiting}] /\ \A t \in Threads : thread[t] = Waiting
  OBVIOUS
<1>3. last \in [began : Nat, ended : Nat, by : Nat, kind : {"good", "broken", "missing"}]
  OBVIOUS
<1>4. policyStat \in Nat \cup {NoStat} /\ engine \in Nat
  OBVIOUS
<1>5. overlapped \in BOOLEAN
  OBVIOUS
<1>6. ReloadTypeOK
  BY <1>1, <1>2, <1>3, <1>4, <1>5 DEF ReloadTypeOK
<1> QED
  BY <1>1, <1>2, <1>6 DEF FailClosed, NotedBefore, BrokenNotNoted, BrokenFileDecidesNothing

(* What one step of a thread does to it: its request is what it was, up to *)
(* what the step notes.                                                    *)
LEMMA ThreadSteps ==
    ASSUME ReloadTypeOK, NEW t \in Threads, Serve(t)
    PROVE  /\ UNCHANGED disk
           /\ \A s \in Threads : s # t => thread'[s] = thread[s]
           /\ thread'[t] # Waiting =>
                 /\ thread'[t].began = IF thread[t] = Waiting THEN disk.version
                                       ELSE thread[t].began
                 /\ \/ thread[t] = Waiting /\ thread'[t].pc = "stat" /\ Arrive(t)
                    \/ At(t, "stat") /\ thread'[t].pc = "use" /\ disk.kind = "missing" /\ Stat(t)
                    \/ At(t, "stat") /\ thread'[t].pc = "compare"
                       /\ thread'[t].signature = disk.version /\ Stat(t)
                    \/ At(t, "compare") /\ thread'[t].pc = "use"
                       /\ thread[t].signature = policyStat /\ Compare(t)
                    \/ At(t, "compare") /\ thread'[t].pc = "read"
                       /\ thread'[t].signature = thread[t].signature
                       /\ thread[t].signature # policyStat /\ Compare(t)
                    \/ At(t, "read") /\ thread'[t].pc = "set" /\ disk.kind = "good"
                       /\ thread'[t].signature = thread[t].signature
                       /\ thread'[t].document = disk.version /\ Read(t)
                    \/ At(t, "set") /\ thread'[t].pc = "mark"
                       /\ thread'[t].signature = thread[t].signature /\ SetPolicy(t)
                    \/ At(t, "mark") /\ thread'[t].pc = "use" /\ Mark(t)
<1> USE DEF ReloadTypeOK
<1>0. thread[t] # Waiting => thread[t] \in RequestState
  BY RequestShape
<1>1. CASE Arrive(t)
  BY <1>1 DEF Arrive
<1>2. CASE Stat(t)
  BY <1>0, <1>2 DEF Stat, At, RequestState
<1>3. CASE Compare(t)
  BY <1>0, <1>3 DEF Compare, At, RequestState
<1>4. CASE Read(t)
  BY <1>0, <1>4 DEF Read, At, RequestState
<1>5. CASE SetPolicy(t)
  BY <1>0, <1>5 DEF SetPolicy, At, RequestState
<1>6. CASE Mark(t)
  BY <1>0, <1>6 DEF Mark, At, RequestState
<1>7. CASE Use(t)
  BY <1>7 DEF Use
<1> QED
  BY <1>1, <1>2, <1>3, <1>4, <1>5, <1>6, <1>7 DEF Serve

LEMMA SaveKeepsFailClosed ==
    ASSUME FailClosed, NEW kind \in {"good", "broken", "missing"}, Save(kind)
    PROVE  NotedBefore' /\ BrokenNotNoted' /\ BrokenFileDecidesNothing'
<1>1. /\ disk.version \in Nat /\ disk'.version = disk.version + 1
      /\ UNCHANGED <<policyStat, thread, last>>
  BY DEF FailClosed, ReloadTypeOK, Save
<1>2. policyStat \in Int
  BY DEF FailClosed, ReloadTypeOK, NoStat
<1>3. NotedBefore'
  <2>1. policyStat' <= disk'.version
    BY <1>1, <1>2 DEF FailClosed, NotedBefore
  <2>2. ASSUME NEW t \in Threads, thread[t] # Waiting
        PROVE  /\ thread[t].began <= disk'.version
               /\ thread[t].pc \in Loading =>
                     /\ thread[t].signature \in Nat
                     /\ thread[t].began <= thread[t].signature
                     /\ thread[t].signature <= disk'.version
               /\ thread[t].pc = "set" =>
                     /\ thread[t].signature <= thread[t].document
                     /\ thread[t].document <= disk'.version
    BY <1>1, <2>2, RequestShape DEF FailClosed, NotedBefore, Loading
  <2> QED
    BY <1>1, <2>1, <2>2 DEF NotedBefore
<1>4. BrokenNotNoted'
  <2>1. policyStat' # disk'.version
    BY <1>1, <1>2 DEF FailClosed, NotedBefore
  <2>2. ASSUME NEW t \in Threads, thread[t] # Waiting
        PROVE  /\ thread[t].pc \in {"set", "mark"} => thread[t].signature # disk'.version
               /\ thread[t].began # disk'.version
    BY <1>1, <2>2, RequestShape DEF FailClosed, NotedBefore, Loading
  <2> QED
    BY <1>1, <2>1, <2>2 DEF BrokenNotNoted
<1> QED
  BY <1>1, <1>3, <1>4 DEF FailClosed, BrokenFileDecidesNothing

LEMMA ServeKeepsFailClosed ==
    ASSUME FailClosed, NEW t \in Threads, Serve(t)
    PROVE  NotedBefore' /\ BrokenNotNoted' /\ BrokenFileDecidesNothing'
<1> USE DEF FailClosed
<1>0. disk.version \in Nat /\ UNCHANGED disk
  BY ThreadSteps DEF ReloadTypeOK
<1>1. \/ UNCHANGED policyStat
      \/ /\ At(t, "mark") /\ policyStat' = thread[t].signature
  BY DEF Serve, Arrive, Stat, Compare, Read, SetPolicy, Mark, Use
<1>2. NotedBefore'
  <2>1. policyStat' <= disk'.version
    BY <1>0, <1>1 DEF NotedBefore, At, Loading
  <2>2. ASSUME NEW s \in Threads, s # t, thread'[s] # Waiting
        PROVE  /\ thread'[s].began <= disk'.version
               /\ thread'[s].pc \in Loading =>
                     /\ thread'[s].signature \in Nat
                     /\ thread'[s].began <= thread'[s].signature
                     /\ thread'[s].signature <= disk'.version
               /\ thread'[s].pc = "set" =>
                     /\ thread'[s].signature <= thread'[s].document
                     /\ thread'[s].document <= disk'.version
    BY <1>0, <2>2, ThreadSteps DEF NotedBefore
  <2>3. ASSUME thread'[t] # Waiting
        PROVE  /\ thread'[t].began <= disk'.version
               /\ thread'[t].pc \in Loading =>
                     /\ thread'[t].signature \in Nat
                     /\ thread'[t].began <= thread'[t].signature
                     /\ thread'[t].signature <= disk'.version
               /\ thread'[t].pc = "set" =>
                     /\ thread'[t].signature <= thread'[t].document
                     /\ thread'[t].document <= disk'.version
    BY <1>0, <2>3, ThreadSteps DEF NotedBefore, At, Loading
  <2> QED
    BY <2>1, <2>2, <2>3 DEF NotedBefore
<1>3. BrokenNotNoted'
  <2> SUFFICES ASSUME disk.kind = "broken"
               PROVE  /\ policyStat' # disk.version
                      /\ \A s \in Threads : thread'[s] # Waiting =>
                            /\ thread'[s].pc \in {"set", "mark"} =>
                                   thread'[s].signature # disk.version
                            /\ thread'[s].pc = "use" => thread'[s].began # disk.version
    BY <1>0 DEF BrokenNotNoted
  <2>1. policyStat' # disk.version
    BY <1>1 DEF BrokenNotNoted, At
  <2>2. ASSUME NEW s \in Threads, s # t, thread'[s] # Waiting
        PROVE  /\ thread'[s].pc \in {"set", "mark"} => thread'[s].signature # disk.version
               /\ thread'[s].pc = "use" => thread'[s].began # disk.version
    BY <2>2, ThreadSteps DEF BrokenNotNoted
  <2>3. ASSUME thread'[t] # Waiting
        PROVE  /\ thread'[t].pc \in {"set", "mark"} => thread'[t].signature # disk.version
               /\ thread'[t].pc = "use" => thread'[t].began # disk.version
    <3>1. CASE At(t, "compare") /\ thread'[t].pc = "use"
      <4>1. /\ thread[t].signature = policyStat /\ thread'[t].began = thread[t].began
        BY <2>3, <3>1, ThreadSteps DEF At
      <4>2. /\ thread[t].began <= policyStat /\ policyStat <= disk.version
            /\ policyStat # disk.version /\ policyStat \in Nat
            /\ thread[t].began \in Nat
        BY <3>1, <4>1, RequestShape DEF At, NotedBefore, Loading, BrokenNotNoted
      <4> QED
        BY <1>0, <3>1, <4>1, <4>2
    <3>2. CASE At(t, "mark") /\ thread'[t].pc = "use"
      <4>1. /\ thread'[t].began = thread[t].began
        BY <2>3, <3>2, ThreadSteps DEF At
      <4>2. /\ thread[t].began <= thread[t].signature
            /\ thread[t].signature <= disk.version
            /\ thread[t].signature # disk.version /\ thread[t].signature \in Nat
            /\ thread[t].began \in Nat
        BY <3>2, RequestShape DEF At, NotedBefore, Loading, BrokenNotNoted
      <4> QED
        BY <1>0, <3>2, <4>1, <4>2
    <3>3. CASE ~(At(t, "compare") /\ thread'[t].pc = "use")
               /\ ~(At(t, "mark") /\ thread'[t].pc = "use")
      BY <2>3, <3>3, ThreadSteps DEF BrokenNotNoted, At
    <3> QED
      BY <3>1, <3>2, <3>3
  <2> QED
    BY <2>1, <2>2, <2>3
<1>4. BrokenFileDecidesNothing'
  <2>1. CASE UNCHANGED last
    BY <2>1 DEF BrokenFileDecidesNothing
  <2>2. CASE Use(t)
    BY <2>2 DEF Use, At, BrokenNotNoted, BrokenFileDecidesNothing
  <2> QED
    BY <2>1, <2>2 DEF Serve, Arrive, Stat, Compare, Read, SetPolicy, Mark
<1> QED
  BY <1>2, <1>3, <1>4

LEMMA FailClosedStep == FailClosed /\ [ReloadNext]_reloadVars => FailClosed'
<1> SUFFICES ASSUME FailClosed, [ReloadNext]_reloadVars PROVE FailClosed'
  OBVIOUS
<1>1. ReloadTypeOK'
  BY ReloadTypeStep DEF FailClosed
<1>2. CASE UNCHANGED reloadVars
  BY <1>1, <1>2
     DEF reloadVars, FailClosed, NotedBefore, BrokenNotNoted, BrokenFileDecidesNothing
<1>3. ASSUME NEW kind \in {"good", "broken", "missing"}, Save(kind) PROVE FailClosed'
  BY <1>1, <1>3, SaveKeepsFailClosed DEF FailClosed
<1>4. ASSUME NEW t \in Threads, Serve(t) PROVE FailClosed'
  BY <1>1, <1>4, ServeKeepsFailClosed DEF FailClosed
<1> QED
  BY <1>2, <1>3, <1>4 DEF ReloadNext

(* Fail closed: a request during which policy.json stays broken gets no    *)
(* decision from _current_engine, for any number of threads and saves.     *)
THEOREM BrokenFileIsRefused == ReloadSpec => []BrokenFileDecidesNothing
<1>1. FailClosed => BrokenFileDecidesNothing
  BY DEF FailClosed
<1> QED
  BY <1>1, FailClosedInit, FailClosedStep, PTL DEF ReloadSpec

-----------------------------------------------------------------------------
(* Until two reloads have overlapped, one thread at a time reloads, the    *)
(* engine is at least as new as the signature noted, and a thread that is  *)
(* to use the engine for the file it arrived with finds that file in it,   *)
(* even if another thread installs what it has read in the meantime.       *)
OneReload == \A s, t \in Threads : Reloading(s) /\ Reloading(t) => s = t

EngineFollows ==
    /\ policyStat <= engine /\ engine <= disk.version
    /\ \A t \in Threads :
          /\ At(t, "set") => policyStat <= thread[t].document
          /\ At(t, "mark") => thread[t].signature <= engine

SameFile(t) == thread[t].began = disk.version /\ disk.kind = "good"

UserServed ==
    \A t \in Threads : At(t, "use") /\ SameFile(t) =>
        /\ engine = disk.version
        /\ \A s \in Threads : At(s, "set") => thread[s].document = disk.version

Fresh ==
    /\ FailClosed
    /\ ~overlapped => OneReload /\ EngineFollows /\ UserServed
    /\ StaleOnlyAfterOverlap

LEMMA FreshInit == ReloadInit => Fresh
<1> SUFFICES ASSUME ReloadInit PROVE Fresh
  OBVIOUS
<1>1. FailClosed
  BY FailClosedInit
<1>2. /\ policyStat = -1 /\ engine = 0 /\ disk.version = 0
      /\ last.by = last.ended
      /\ \A t \in Threads : thread[t] = Waiting
  BY DEF ReloadInit, NoStat
<1> QED
  BY <1>1, <1>2
     DEF Fresh, OneReload, EngineFollows, UserServed, StaleOnlyAfterOverlap, At, Reloading

LEMMA SaveKeepsFresh ==
    ASSUME Fresh, NEW kind \in {"good", "broken", "missing"}, Save(kind), ~overlapped'
    PROVE  OneReload' /\ EngineFollows' /\ UserServed'
<1>1. /\ disk.version \in Nat /\ disk'.version = disk.version + 1
      /\ UNCHANGED <<policyStat, engine, thread, overlapped>> /\ engine \in Nat
  BY DEF Fresh, FailClosed, ReloadTypeOK, Save
<1>2. OneReload /\ EngineFollows
  BY <1>1 DEF Fresh
<1>3. OneReload'
  BY <1>1, <1>2 DEF OneReload, Reloading
<1>4. EngineFollows'
  BY <1>1, <1>2 DEF EngineFollows, At
<1>5. \A t \in Threads : ~(At(t, "use") /\ SameFile(t))'
  <2> SUFFICES ASSUME NEW t \in Threads, thread[t] # Waiting
               PROVE  thread[t].began # disk'.version
    BY <1>1 DEF At, SameFile
  <2>1. thread[t].began <= disk.version /\ thread[t].began \in Nat
    BY RequestShape DEF Fresh, FailClosed, NotedBefore
  <2> QED
    BY <1>1, <2>1
<1> QED
  BY <1>3, <1>4, <1>5 DEF UserServed

(* A thread's step that leaves the engine and the signature alone, or      *)
(* installs what it has read, or notes the signature.                      *)
LEMMA EngineSteps ==
    ASSUME NEW t \in Threads, Serve(t)
    PROVE  \/ UNCHANGED <<policyStat, engine>> /\ ~At(t, "set") /\ ~At(t, "mark")
           \/ SetPolicy(t) /\ UNCHANGED policyStat /\ engine' = thread[t].document
           \/ Mark(t) /\ UNCHANGED engine /\ policyStat' = thread[t].signature
  BY DEF Serve, Arrive, Stat, Compare, Read, SetPolicy, Mark, Use, At

LEMMA ServeKeepsOneReload ==
    ASSUME Fresh, NEW t \in Threads, Serve(t), ~overlapped'
    PROVE  /\ ~overlapped /\ OneReload'
           /\ At(t, "compare") /\ Reloading(t)' => \A s \in Threads : ~Reloading(s)
<1>0. ReloadTypeOK
  BY DEF Fresh, FailClosed
<1>1. ~overlapped
  BY DEF Serve, Arrive, Stat, Compare, Read, SetPolicy, Mark, Use
<1>2. OneReload
  BY <1>1 DEF Fresh
<1>3. \A s \in Threads : s # t => Reloading(s)' = Reloading(s)
  BY <1>0, ThreadSteps DEF Reloading
<1>4. ASSUME Reloading(t)' PROVE Reloading(t) \/ At(t, "compare")
  BY <1>0, <1>4, ThreadSteps DEF Reloading, At
<1>5. ASSUME At(t, "compare"), Reloading(t)' PROVE \A s \in Threads : ~Reloading(s)
  <2>1. Compare(t) /\ thread'[t].pc = "read"
    BY <1>0, <1>5, ThreadSteps DEF Reloading, At
  <2>2. thread'[t].pc # "use"
    BY <2>1
  <2>3. thread[t] \in RequestState /\ thread \in [Threads -> RequestState \cup {Waiting}]
    BY <1>0, <1>5, RequestShape DEF At, ReloadTypeOK
  <2>4. thread' # [thread EXCEPT ![t].pc = "use"]
    BY <2>2, <2>3 DEF RequestState
  <2>5. overlapped' = (overlapped \/ \E s \in Threads : Reloading(s))
    BY <2>1, <2>4 DEF Compare
  <2> QED
    BY <2>5
<1>6. OneReload'
  <2> SUFFICES ASSUME NEW r \in Threads, NEW s \in Threads, Reloading(r)', Reloading(s)'
               PROVE  r = s
    BY DEF OneReload
  <2>1. CASE r # t /\ s # t
    BY <1>2, <1>3, <2>1 DEF OneReload
  <2>2. CASE r = t /\ s # t
    BY <1>2, <1>3, <1>4, <1>5, <2>2 DEF OneReload
  <2>3. CASE s = t /\ r # t
    BY <1>2, <1>3, <1>4, <1>5, <2>3 DEF OneReload
  <2> QED
    BY <2>1, <2>2, <2>3
<1> QED
  BY <1>1, <1>5, <1>6

LEMMA ServeKeepsEngine ==
    ASSUME Fresh, NEW t \in Threads, Serve(t), ~overlapped'
    PROVE  EngineFollows'
<1>0. /\ ReloadTypeOK /\ NotedBefore /\ OneReload /\ EngineFollows
      /\ disk.version \in Nat /\ engine \in Nat /\ policyStat \in Int
      /\ UNCHANGED disk
  BY ServeKeepsOneReload, ThreadSteps DEF Fresh, FailClosed, ReloadTypeOK, NoStat
<1>1. ASSUME NEW s \in Threads, s # t
      PROVE  At(s, "set")' = At(s, "set") /\ At(s, "mark")' = At(s, "mark")
             /\ thread'[s] = thread[s]
  BY <1>0, <1>1, ThreadSteps DEF At
<1>2. CASE UNCHANGED <<policyStat, engine>> /\ ~At(t, "set") /\ ~At(t, "mark")
  <2>1. At(t, "set")' => policyStat <= thread'[t].document
    BY <1>0, <1>2, ThreadSteps DEF At, EngineFollows
  <2>2. ~At(t, "mark")'
    BY <1>0, <1>2, ThreadSteps DEF At
  <2> QED
    BY <1>0, <1>1, <1>2, <2>1, <2>2 DEF EngineFollows
<1>3. CASE SetPolicy(t) /\ UNCHANGED policyStat /\ engine' = thread[t].document
  <2>1. At(t, "set") /\ Reloading(t) /\ thread[t] # Waiting
    BY <1>3 DEF SetPolicy, At, Reloading
  <2>2. \A s \in Threads : s # t => ~At(s, "set") /\ ~At(s, "mark")
    BY <1>0, <2>1 DEF OneReload, Reloading, At
  <2>3. /\ policyStat <= thread[t].document /\ thread[t].document <= disk.version
        /\ thread[t].signature <= thread[t].document
    BY <1>0, <2>1 DEF EngineFollows, NotedBefore, At
  <2>4. At(t, "mark")' => thread'[t].signature = thread[t].signature
    BY <1>0, <2>1, ThreadSteps DEF At
  <2>5. ~At(t, "set")'
    BY <1>0, <2>1, ThreadSteps DEF At
  <2> QED
    BY <1>0, <1>1, <1>3, <2>2, <2>3, <2>4, <2>5 DEF EngineFollows
<1>4. CASE Mark(t) /\ UNCHANGED engine /\ policyStat' = thread[t].signature
  <2>1. At(t, "mark") /\ Reloading(t)
    BY <1>4 DEF Mark, At, Reloading
  <2>2. \A s \in Threads : s # t => ~At(s, "set") /\ ~At(s, "mark")
    BY <1>0, <2>1 DEF OneReload, Reloading, At
  <2>3. ~At(t, "set")' /\ ~At(t, "mark")'
    BY <1>0, <2>1, ThreadSteps DEF At
  <2>4. thread[t].signature <= engine
    BY <1>0, <2>1 DEF EngineFollows
  <2> QED
    BY <1>0, <1>1, <1>4, <2>2, <2>3, <2>4 DEF EngineFollows
<1> QED
  BY <1>2, <1>3, <1>4, EngineSteps

LEMMA ServeKeepsUsers ==
    ASSUME Fresh, NEW t \in Threads, Serve(t), ~overlapped'
    PROVE  UserServed'
<1>0. /\ ReloadTypeOK /\ NotedBefore /\ OneReload /\ EngineFollows /\ UserServed
      /\ disk.version \in Nat /\ engine \in Nat /\ policyStat \in Int
      /\ UNCHANGED disk
  BY ServeKeepsOneReload, ThreadSteps DEF Fresh, FailClosed, ReloadTypeOK, NoStat
<1> SUFFICES ASSUME NEW u \in Threads, At(u, "use")', SameFile(u)'
             PROVE  /\ engine' = disk.version
                    /\ \A s \in Threads : At(s, "set")' => thread'[s].document = disk.version
  BY <1>0 DEF UserServed
<1>1. disk.kind = "good" /\ thread'[u].began = disk.version
  BY <1>0 DEF SameFile
<1>2. \A s \in Threads : s # t => thread'[s] = thread[s]
  BY <1>0, ThreadSteps
<1>3. CASE u # t
  <2>1. At(u, "use") /\ SameFile(u)
    BY <1>0, <1>1, <1>2, <1>3 DEF At, SameFile
  <2>2. /\ engine = disk.version
        /\ \A s \in Threads : At(s, "set") => thread[s].document = disk.version
    BY <1>0, <2>1 DEF UserServed
  <2>3. engine' = disk.version
    BY <2>2, EngineSteps DEF SetPolicy
  <2>4. At(t, "set")' => thread'[t].document = disk.version
    BY <1>0, ThreadSteps DEF At
  <2> QED
    BY <1>2, <2>2, <2>3, <2>4 DEF At
<1>4. CASE u = t
  <2>1. \/ /\ At(t, "compare") /\ thread[t].signature = policyStat /\ Compare(t)
        \/ At(t, "mark") /\ Mark(t)
    BY <1>0, <1>1, <1>4, ThreadSteps DEF At
  <2>2. thread'[t].began = thread[t].began
    BY <1>0, <1>4, <2>1, ThreadSteps DEF At
  <2>3. disk.version <= thread[t].signature /\ thread[t].signature <= disk.version
        /\ thread[t].signature \in Nat
    BY <1>0, <1>1, <1>4, <2>1, <2>2 DEF NotedBefore, At, Loading
  <2>4. engine = disk.version
    <3>1. thread[t].signature <= engine
      BY <1>0, <2>1 DEF EngineFollows
    <3> QED
      BY <1>0, <2>3, <3>1 DEF EngineFollows
  <2>5. engine' = engine
    BY <2>1 DEF Compare, Mark
  <2>6. ASSUME NEW s \in Threads, At(s, "set")' PROVE thread'[s].document = disk.version
    <3>1. s # t /\ At(s, "set") /\ thread'[s] = thread[s]
      BY <1>2, <1>4, <2>6 DEF At
    <3>2. CASE At(t, "compare") /\ thread[t].signature = policyStat
      <4>1. policyStat <= thread[s].document /\ thread[s].document <= disk.version
            /\ thread[s].document \in Nat
        BY <1>0, <3>1, RequestShape DEF EngineFollows, NotedBefore, At
      <4> QED
        BY <1>0, <2>3, <3>1, <3>2, <4>1
    <3>3. CASE At(t, "mark")
      BY <1>0, <3>1, <3>3 DEF OneReload, Reloading, At
    <3> QED
      BY <2>1, <3>2, <3>3
  <2> QED
    BY <2>4, <2>5, <2>6
<1> QED
  BY <1>3, <1>4

LEMMA FreshStep == Fresh /\ [ReloadNext]_reloadVars => Fresh'
<1> SUFFICES ASSUME Fresh, [ReloadNext]_reloadVars PROVE Fresh'
  OBVIOUS
<1>1. FailClosed'
  BY FailClosedStep DEF Fresh
<1>2. CASE UNCHANGED reloadVars
  BY <1>1, <1>2 DEF reloadVars, Fresh, OneReload, EngineFollows, UserServed, SameFile, At,
                    Reloading, StaleOnlyAfterOverlap
<1>3. ASSUME NEW kind \in {"good", "broken", "missing"}, Save(kind) PROVE Fresh'
  <2>1. StaleOnlyAfterOverlap'
    BY <1>3 DEF Save, Fresh, StaleOnlyAfterOverlap
  <2> QED
    BY <1>1, <1>3, <2>1, SaveKeepsFresh DEF Fresh
<1>4. ASSUME NEW t \in Threads, Serve(t) PROVE Fresh'
  <2>1. StaleOnlyAfterOverlap'
    <3>1. CASE UNCHANGED last
      <4>1. overlapped => overlapped'
        BY <1>4 DEF Serve, Arrive, Stat, Compare, Read, SetPolicy, Mark, Use
      <4> QED
        BY <3>1, <4>1 DEF Fresh, StaleOnlyAfterOverlap
    <3>2. CASE Use(t)
      <4>1. At(t, "use") /\ overlapped' = overlapped
            /\ last' = [began |-> thread[t].began, ended |-> disk.version,
                        by |-> engine, kind |-> disk.kind]
        BY <3>2 DEF Use
      <4>2. ~overlapped /\ SameFile(t) => engine = disk.version
        BY <4>1 DEF Fresh, UserServed
      <4> QED
        BY <4>1, <4>2 DEF StaleOnlyAfterOverlap, SameFile
    <3> QED
      BY <1>4, <3>1, <3>2 DEF Serve, Arrive, Stat, Compare, Read, SetPolicy, Mark
  <2>2. ~overlapped' => OneReload' /\ EngineFollows' /\ UserServed'
    BY <1>4, ServeKeepsOneReload, ServeKeepsEngine, ServeKeepsUsers
  <2> QED
    BY <1>1, <2>1, <2>2 DEF Fresh
<1> QED
  BY <1>2, <1>3, <1>4 DEF ReloadNext

(* A request during which a good policy.json does not change is judged by  *)
(* that file, whatever the other threads of _current_engine do, until two  *)
(* of their reloads have overlapped.                                       *)
THEOREM OnlyOverlapIsStale == ReloadSpec => []StaleOnlyAfterOverlap
<1>1. Fresh => StaleOnlyAfterOverlap
  BY DEF Fresh
<1> QED
  BY <1>1, FreshInit, FreshStep, PTL DEF ReloadSpec
=============================================================================
