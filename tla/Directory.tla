-------------------------------- MODULE Directory --------------------------------
(***************************************************************************)
(* Two registries of names.  RotatingIdentifierRegistry (privacy.py) hands *)
(* out ephemeral names for lasting ones; it ends them by rotation, by      *)
(* revocation, and by finding them expired when they are looked up, by a   *)
(* clock that may be set back.  ThingRegistry (discovery.py) keeps, for    *)
(* each thing that was described to it (adapters/wot.py), where its policy *)
(* is, which only an authenticated description may say.                    *)
(*                                                                         *)
(* An ephemeral name is its place in the order of issue: no two are equal. *)
(* Titles of actions, and the marks "safe" and "idempotent", are left out. *)
(***************************************************************************)
EXTENDS Integers, Sequences, FiniteSets

CONSTANTS
    Namespaces,
    Lasting,       \* static identifiers
    Lifetime,      \* lifetime_seconds
    Days,          \* readings of the clock
    MaxIssued,     \* bound on the names issued
    Things,        \* ids of things
    Pointers,      \* policy pointers
    MaxDescribed   \* bound on the calls of register

ASSUME DirectoryAssumption ==
    /\ Lifetime \in Nat \ {0} /\ Days \subseteq Nat
    /\ MaxIssued \in Nat /\ MaxDescribed \in Nat

VARIABLES
    day,        \* utc_now()
    active,     \* _active: ephemeral name -> whose it is and since when
    issued,     \* history: every name issued
    ended,      \* history: the names rotated away, revoked or found expired
    things,     \* _things
    described   \* history: thing -> the calls of register since it was removed

directoryVars == <<day, active, issued, ended, things, described>>

NoPointer == "none"

Owner == [namespace : Namespaces, static : Lasting]
Description == [id : Things, actions : BOOLEAN, pointer : Pointers \cup {NoPointer},
                authenticated : BOOLEAN]

(* Every variable keeps its shape. *)
DirectoryTypeOK ==
    /\ day \in Days
    /\ DOMAIN active \subseteq DOMAIN issued
    /\ ended \subseteq DOMAIN issued
    /\ \A n \in DOMAIN issued : issued[n].owner \in Owner /\ issued[n].since \in Days
    /\ DOMAIN things \subseteq Things
    /\ described \in [Things -> Seq(Description)]

DirectoryInit ==
    /\ day \in Days
    /\ active = <<>> /\ issued = <<>> /\ ended = {}
    /\ things = [t \in {} |-> 0]
    /\ described = [t \in Things |-> <<>>]

-----------------------------------------------------------------------------
(* Ephemeral names *)

Only(names) == [n \in names |-> active[n]]

With(names, owner) ==
    LET n == Len(issued) + 1
        record == [owner |-> owner, since |-> day] IN
    /\ active' = [m \in names \cup {n} |-> IF m = n THEN record ELSE active[m]]
    /\ issued' = Append(issued, [owner |-> owner, since |-> day])

(* issue: earlier names of the owner stay. *)
IssueName(owner) ==
    /\ Len(issued) < MaxIssued
    /\ With(DOMAIN active, owner)
    /\ UNCHANGED <<day, ended, things, described>>

OldestOwnedBy(owner) ==
    {n \in DOMAIN active : /\ active[n].owner = owner
                           /\ \A m \in DOMAIN active : active[m].owner = owner => n <= m}

OwnedBy(owner) == {n \in DOMAIN active : active[n].owner = owner}

(* rotate: all names of the owner are gone, and a new one is issued. *)
Rotate(owner) ==
    /\ Len(issued) < MaxIssued
    /\ With(DOMAIN active \ OwnedBy(owner), owner)
    /\ ended' = ended \cup {n \in DOMAIN issued : issued[n].owner = owner}
    /\ UNCHANGED <<day, things, described>>

RevokeName(n) ==
    /\ n \in DOMAIN active
    /\ active' = Only(DOMAIN active \ {n})
    /\ ended' = ended \cup {n}
    /\ UNCHANGED <<day, issued, things, described>>

Expired(n) == day - active[n].since > Lifetime

(* resolve, of a name that is not to be resolved any more. *)
ResolveExpired(n) ==
    /\ n \in DOMAIN active /\ Expired(n)
    /\ active' = Only(DOMAIN active \ {n})
    /\ ended' = ended \cup {n}
    /\ UNCHANGED <<day, issued, things, described>>

(* resolve: what a name stands for. *)
Resolves(n) == n \in DOMAIN active /\ ~Expired(n)

SetClock(d) ==
    /\ d # day
    /\ day' = d
    /\ UNCHANGED <<active, issued, ended, things, described>>

-----------------------------------------------------------------------------
(* Things *)

(* A description without actions names no target. *)
Registers(d) ==
    /\ d.actions
    /\ d.id \notin DOMAIN things
    /\ d.pointer # NoPointer => d.authenticated

Register(d) ==
    /\ Cardinality(UNION {{t} \X DOMAIN described[t] : t \in Things}) < MaxDescribed
    /\ described' = [described EXCEPT ![d.id] = Append(@, d)]
    /\ things' = IF Registers(d)
                 THEN [t \in DOMAIN things \cup {d.id} |->
                         IF t = d.id THEN [pointer |-> d.pointer, authenticated |-> d.authenticated]
                                     ELSE things[t]]
                 ELSE things
    /\ UNCHANGED <<day, active, issued, ended>>

Remove(t) ==
    /\ t \in DOMAIN things
    /\ things' = [s \in DOMAIN things \ {t} |-> things[s]]
    /\ described' = [described EXCEPT ![t] = <<>>]
    /\ UNCHANGED <<day, active, issued, ended>>

NamesNext ==
    \/ \E owner \in Owner : IssueName(owner) \/ Rotate(owner)
    \/ \E n \in DOMAIN active : RevokeName(n) \/ ResolveExpired(n)
    \/ \E d \in Days : SetClock(d)

ThingsNext ==
    \/ \E d \in Description : Register(d)
    \/ \E t \in DOMAIN things : Remove(t)

DirectorySpec == DirectoryInit /\ [][NamesNext \/ ThingsNext]_directoryVars

-----------------------------------------------------------------------------
(* Properties *)

(* A lookup tells the truth, whatever the clock did.  A name that resolves *)
(* does so to the owner it was issued for and within its lifetime, and was *)
(* never rotated away, revoked or refused as expired before: an end is an  *)
(* end, also for the names a rotation did not know to be expired.  A thing *)
(* has the pointer of the first description that could be registered since *)
(* it was removed: later ones, authenticated or not, change nothing, and   *)
(* one that is not authenticated points nowhere.                           *)
LookupsTellTruth ==
    /\ \A n \in DOMAIN issued :
          Resolves(n) => /\ active[n].owner = issued[n].owner
                         /\ day <= issued[n].since + Lifetime
                         /\ n \notin ended
    /\ \A t \in Things :
          LET told == described[t]
              fit == {i \in DOMAIN told :
                         /\ told[i].actions
                         /\ told[i].pointer = NoPointer \/ told[i].authenticated} IN
          /\ t \in DOMAIN things <=> fit # {}
          /\ t \in DOMAIN things =>
                LET first == CHOOSE i \in fit : \A j \in fit : i <= j IN
                /\ things[t].pointer = told[first].pointer
                /\ things[t].pointer # NoPointer => things[t].authenticated
=============================================================================
