------------------------------- MODULE TrustedTime -------------------------------
(***************************************************************************)
(* The trusted clock (trust.py): now() reads its source, refuses a reading *)
(* that lies before the last one it gave, or too far after it, and keeps   *)
(* the reading.  It has no lock; several threads may share it.  The source *)
(* is a wall clock, which an operator may set back or forward.             *)
(***************************************************************************)
EXTENDS Integers, Sequences

CONSTANTS
    Readers,         \* threads
    Wall,            \* values of the source, 0 .. some bound
    MaxForwardJump,  \* max_forward_jump_seconds
    MaxReadings,     \* bound on the readings given
    MaxResets        \* bound on the calls of reset

ASSUME TimeAssumption ==
    /\ Wall \subseteq Nat /\ 0 \in Wall
    /\ MaxForwardJump \in Nat \ {0} /\ MaxReadings \in Nat /\ MaxResets \in Nat

VARIABLES
    wall,        \* the source
    latest,      \* _last, or Unset
    reader,      \* each thread's now(): the reading it holds, or NotReading
    given,       \* history: readings given since the last reset
    resets,
    interleaved  \* history: a reading was kept between another's check and keep

timeVars == <<wall, latest, reader, given, resets, interleaved>>

Unset == -1
NotReading == [stage |-> "idle"]

Reader == [stage : {"read", "checked"}, reading : Wall]

(* Every variable keeps its shape, and _last is the last reading given.    *)
TimeTypeOK ==
    /\ wall \in Wall
    /\ latest \in Wall \cup {Unset}
    /\ reader \in [Readers -> Reader \cup {NotReading}]
    /\ given \in Seq(Wall) /\ Len(given) <= MaxReadings
    /\ resets \in 0 .. MaxResets
    /\ interleaved \in BOOLEAN
    /\ latest = IF given = <<>> THEN Unset ELSE given[Len(given)]

TimeInit ==
    /\ wall = 0
    /\ latest = Unset
    /\ reader = [r \in Readers |-> NotReading]
    /\ given = <<>>
    /\ resets = 0
    /\ interleaved = FALSE

(* Time passes, or somebody sets the clock. *)
WallMoves ==
    /\ wall' \in Wall \ {wall}
    /\ UNCHANGED <<latest, reader, given, resets, interleaved>>

ReadSource(r) ==
    /\ reader[r] = NotReading
    /\ reader' = [reader EXCEPT ![r] = [stage |-> "read", reading |-> wall]]
    /\ UNCHANGED <<wall, latest, given, resets, interleaved>>

AcceptableJump(reading) == latest # Unset => reading - latest <= MaxForwardJump

Acceptable(reading) ==
    latest # Unset => reading >= latest /\ reading - latest <= MaxForwardJump

(* A reading that is refused raises, and the last one stays.               *)
CheckReading(r) ==
    /\ reader[r].stage = "read"
    /\ reader' = [reader EXCEPT ![r] = IF Acceptable(@.reading)
                                       THEN [@ EXCEPT !.stage = "checked"] ELSE NotReading]
    /\ UNCHANGED <<wall, latest, given, resets, interleaved>>

(* Another call has compared its reading with the last one, which goes.    *)
Overtakes(r) == \E q \in Readers \ {r} : reader[q].stage = "checked"

KeepReading(r) ==
    /\ reader[r].stage = "checked"
    /\ Len(given) < MaxReadings
    /\ latest' = reader[r].reading
    /\ given' = Append(given, latest')
    /\ reader' = [reader EXCEPT ![r] = NotReading]
    /\ interleaved' = (interleaved \/ Overtakes(r))
    /\ UNCHANGED <<wall, resets>>

(* reset, after which any reading will do. *)
Reset ==
    /\ resets < MaxResets
    /\ resets' = resets + 1
    /\ latest' = Unset
    /\ given' = <<>>
    /\ UNCHANGED <<wall, reader, interleaved>>

TimeNext ==
    \/ WallMoves \/ Reset
    \/ \E r \in Readers : ReadSource(r) \/ CheckReading(r) \/ KeepReading(r)

TimeSpec == TimeInit /\ [][TimeNext]_timeVars

-----------------------------------------------------------------------------
(* Properties *)

(* However the source is set back and forward, and however many readings   *)
(* were refused in between, the readings given since the last reset never  *)
(* go back and never jump, unless a reading was kept while another call    *)
(* was between its comparison and its assignment.                          *)
TrustedTimeGrows ==
    interleaved \/
    \A i \in 1 .. Len(given) - 1 :
        given[i] <= given[i + 1] /\ given[i + 1] - given[i] <= MaxForwardJump
=============================================================================
